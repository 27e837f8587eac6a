-------------------------- MODULE TicketStoreProofs --------------------------
(***************************************************************************)
(* What the Redis commands guarantee for every set of orders, users and    *)
(* ticket types and every quantity: the types (stock never negative), one  *)
(* key per order, the limit, and, by the lemmas of FiniteSums on sums over *)
(* finite sets, that no ticket is lost or made.                            *)
(***************************************************************************)
EXTENDS TicketStore, FiniteSums, FiniteSetTheorems, TLAPS

-----------------------------------------------------------------------------
(* Lazy seeding keeps the types, whatever integers PostgreSQL held. *)
LEMMA SeedType ==
    ASSUME StoreTypeOK, NEW u \in User, NEW S \in SUBSET TicketType,
           NEW n \in [TicketType -> Nat], NEW m \in [TicketType -> Int],
           Seed(u, S, n, m)
    PROVE  StoreTypeOK'
<1>1. stock' \in [TicketType -> Nat]
  BY DEF StoreTypeOK, Seed
<1>2. supply' \in [TicketType -> Nat]
  BY DEF StoreTypeOK, Seed
<1>3. userLimit' \in [User -> [TicketType -> Int]]
  <2>1. userLimit[u] \in [TicketType -> Int]
    BY DEF StoreTypeOK
  <2>2. [t \in TicketType |-> IF t \in {x \in S : <<u, x>> \notin limitKeys}
                              THEN m[t] ELSE userLimit[u][t]]
          \in [TicketType -> Int]
    BY <2>1
  <2> QED
    BY <2>2 DEF StoreTypeOK, Seed
<1>4. base' \in [User -> [TicketType -> Int]]
  <2>1. base[u] \in [TicketType -> Int]
    BY DEF StoreTypeOK
  <2>2. [t \in TicketType |-> IF t \in {x \in S : <<u, x>> \notin limitKeys}
                              THEN m[t] ELSE base[u][t]]
          \in [TicketType -> Int]
    BY <2>1
  <2> QED
    BY <2>2 DEF StoreTypeOK, Seed
<1>5. stockKeys' \subseteq TicketType
  BY DEF StoreTypeOK, Seed
<1>6. limitKeys' \subseteq User \X TicketType
  <2>1. limitKeys' = limitKeys \cup {<<u, t>> : t \in {x \in S : <<u, x>> \notin limitKeys}}
    BY DEF Seed
  <2>2. limitKeys \subseteq User \X TicketType
    BY DEF StoreTypeOK
  <2>3. ASSUME NEW p \in {<<u, t>> : t \in {x \in S : <<u, x>> \notin limitKeys}}
        PROVE  p \in User \X TicketType
    <3>1. PICK t \in S : p = <<u, t>>
      OBVIOUS
    <3> QED
      BY <3>1
  <2> QED
    BY <2>1, <2>2, <2>3
<1>7. reservation' \subseteq Hold /\ gone' \in [User -> [TicketType -> Nat]]
  BY DEF StoreTypeOK, Seed
<1> QED
  BY <1>1, <1>2, <1>3, <1>4, <1>5, <1>6, <1>7 DEF StoreTypeOK

(* The reserve script never takes stock below zero. *)
LEMMA ReserveType ==
    ASSUME StoreTypeOK, StoreAssumption, NEW r \in Hold, Reserve(r)
    PROVE  StoreTypeOK'
<1>1. r.user \in User /\ r.type \in TicketType /\ r.qty \in Quantity /\ r.qty \in Nat
  BY DEF Hold, StoreAssumption
<1>2. stock' \in [TicketType -> Nat]
  <2>1. stock[r.type] - r.qty \in Nat
    BY <1>1 DEF StoreTypeOK, Reserve, Reservable
  <2> QED
    BY <1>1, <2>1 DEF StoreTypeOK, Reserve
<1>3. userLimit' \in [User -> [TicketType -> Int]]
  BY <1>1 DEF StoreTypeOK, Reserve
<1>4. limitKeys' \subseteq User \X TicketType
  BY <1>1 DEF StoreTypeOK, Reserve
<1>5. reservation' \subseteq Hold
  BY DEF StoreTypeOK, Reserve
<1> QED
  BY <1>2, <1>3, <1>4, <1>5 DEF StoreTypeOK, Reserve

(* The release script keeps the types. *)
LEMMA ReleaseType ==
    ASSUME StoreTypeOK, StoreAssumption, NEW r, Release(r)
    PROVE  StoreTypeOK'
<1>1. r \in Hold
  BY DEF StoreTypeOK, Release
<1>2. r.user \in User /\ r.type \in TicketType /\ r.qty \in Nat
  BY <1>1 DEF Hold, StoreAssumption
<1>3. stock' \in [TicketType -> Nat]
  BY <1>2 DEF StoreTypeOK, Release
<1>4. userLimit' \in [User -> [TicketType -> Int]]
  <2>1. Lowered(userLimit[r.user][r.type], r.qty) \in Int
    BY <1>2 DEF StoreTypeOK, Lowered
  <2> QED
    BY <1>2, <2>1 DEF StoreTypeOK, Release
<1>5. stockKeys' \subseteq TicketType /\ limitKeys' \subseteq User \X TicketType
  BY <1>2 DEF StoreTypeOK, Release
<1> QED
  BY <1>3, <1>4, <1>5 DEF StoreTypeOK, Release

(* So does the end of a reservation key. *)
LEMMA ForgetType ==
    ASSUME StoreTypeOK, StoreAssumption, NEW o, Forget(o)
    PROVE  StoreTypeOK'
<1>1. CASE UNCHANGED storeVars
  BY <1>1 DEF StoreTypeOK, storeVars
<1>2. CASE ~ UNCHANGED storeVars
  <2>1. PICK r \in reservation :
          /\ reservation' = reservation \ {r}
          /\ gone' = [gone EXCEPT ![r.user][r.type] = @ + r.qty]
          /\ UNCHANGED <<stock, stockKeys, userLimit, limitKeys, supply, base>>
    BY <1>2 DEF Forget
  <2>2. r.user \in User /\ r.type \in TicketType /\ r.qty \in Nat
    BY <2>1 DEF StoreTypeOK, Hold, StoreAssumption
  <2>3. gone' \in [User -> [TicketType -> Nat]]
    BY <2>1, <2>2 DEF StoreTypeOK
  <2> QED
    BY <2>1, <2>3 DEF StoreTypeOK
<1> QED
  BY <1>1, <1>2

(***************************************************************************)
(* Type correctness of the Redis inventory: whatever commands the backend  *)
(* sends and whichever keys expire, stock:{type} is never negative.        *)
(***************************************************************************)
THEOREM StoreTypeCorrect == StoreSpec => []StoreTypeOK
<1>1. StoreInit => StoreTypeOK
  <2> SUFFICES ASSUME StoreInit PROVE StoreTypeOK
    OBVIOUS
  <2>1. stock \in [TicketType -> Nat] /\ supply \in [TicketType -> Nat]
    BY StoreAssumption DEF StoreInit, StoreAssumption
  <2>2. /\ userLimit \in [User -> [TicketType -> Nat]]
        /\ base = userLimit /\ gone = userLimit
    BY DEF StoreInit
  <2>3. userLimit \in [User -> [TicketType -> Int]]
    BY <2>2
  <2> QED
    BY <2>1, <2>2, <2>3 DEF StoreInit, StoreTypeOK
<1>2. StoreTypeOK /\ [StoreNext]_storeVars => StoreTypeOK'
  <2> SUFFICES ASSUME StoreTypeOK, [StoreNext]_storeVars
               PROVE  StoreTypeOK'
    OBVIOUS
  <2>1. ASSUME NEW u \in User, NEW S \in SUBSET TicketType,
               NEW n \in [TicketType -> SeedValue],
               NEW m \in [TicketType -> CountValue], Seed(u, S, n, m)
        PROVE  StoreTypeOK'
    <3>1. SeedValue \subseteq Nat
      BY StoreAssumption DEF StoreAssumption
    <3>2. n \in [TicketType -> Nat]
      BY <3>1
    <3>3. CountValue \subseteq Int
      BY StoreAssumption DEF StoreAssumption
    <3>4. m \in [TicketType -> Int]
      BY <3>3
    <3> QED
      BY <2>1, <3>2, <3>4, SeedType
  <2>2. ASSUME NEW r \in Hold, Reserve(r) PROVE StoreTypeOK'
    BY <2>2, ReserveType, StoreAssumption
  <2>3. ASSUME NEW r \in reservation, Release(r) PROVE StoreTypeOK'
    BY <2>3, ReleaseType, StoreAssumption
  <2>4. ASSUME NEW o \in Order, Forget(o) PROVE StoreTypeOK'
    BY <2>4, ForgetType, StoreAssumption
  <2>5. CASE UNCHANGED storeVars
    BY <2>5 DEF StoreTypeOK, storeVars
  <2> QED
    BY <2>1, <2>2, <2>3, <2>4, <2>5 DEF StoreNext
<1> QED
  BY <1>1, <1>2, PTL DEF StoreSpec

(* Only the reserve script adds a key, and only for an order without one. *)
LEMMA OneHoldStep ==
    ASSUME OneHoldPerOrder, [StoreNext]_storeVars
    PROVE  OneHoldPerOrder'
<1>1. ASSUME NEW u \in User, NEW S \in SUBSET TicketType,
             NEW n \in [TicketType -> SeedValue],
             NEW m \in [TicketType -> CountValue], Seed(u, S, n, m)
      PROVE  OneHoldPerOrder'
  BY <1>1 DEF Seed, OneHoldPerOrder
<1>2. ASSUME NEW r \in Hold, Reserve(r) PROVE OneHoldPerOrder'
  BY <1>2 DEF Reserve, Reservable, HasHold, OneHoldPerOrder
<1>3. ASSUME NEW r \in reservation, Release(r) PROVE OneHoldPerOrder'
  BY <1>3 DEF Release, OneHoldPerOrder
<1>4. ASSUME NEW o \in Order, Forget(o) PROVE OneHoldPerOrder'
  BY <1>4 DEF Forget, OneHoldPerOrder, storeVars
<1>5. CASE UNCHANGED storeVars
  BY <1>5 DEF OneHoldPerOrder, storeVars
<1> QED
  BY <1>1, <1>2, <1>3, <1>4, <1>5 DEF StoreNext

(***************************************************************************)
(* The EXISTS checkpoint of the reserve script: for any number of orders,  *)
(* types and users an order id has at most one reservation key.            *)
(***************************************************************************)
THEOREM OneHold == StoreSpec => []OneHoldPerOrder
<1>1. StoreInit => OneHoldPerOrder
  BY DEF StoreInit, OneHoldPerOrder
<1>2. OneHoldPerOrder /\ [StoreNext]_storeVars => OneHoldPerOrder'
  BY OneHoldStep
<1> QED
  BY <1>1, <1>2, PTL DEF StoreSpec

(* No command takes a counter seeded within maxPerUser over it. *)
LEMMA LimitStep ==
    ASSUME StoreTypeOK, LimitRespected, [StoreNext]_storeVars
    PROVE  LimitRespected'
<1> SUFFICES ASSUME NEW u \in User, NEW t \in TicketType,
                    base'[u][t] <= MaxPerUser[t]
             PROVE  userLimit'[u][t] <= MaxPerUser[t]
  BY DEF LimitRespected
<1>0. /\ MaxPerUser[t] \in Nat /\ userLimit[u][t] \in Int /\ base[u][t] \in Int
      /\ base[u][t] <= MaxPerUser[t] => userLimit[u][t] <= MaxPerUser[t]
  BY StoreAssumption DEF StoreAssumption, StoreTypeOK, LimitRespected
<1>1. ASSUME NEW v \in User, NEW S \in SUBSET TicketType,
             NEW n \in [TicketType -> SeedValue],
             NEW m \in [TicketType -> CountValue], Seed(v, S, n, m)
      PROVE  userLimit'[u][t] <= MaxPerUser[t]
  <2>1. \/ userLimit'[u][t] = userLimit[u][t] /\ base'[u][t] = base[u][t]
        \/ userLimit'[u][t] = m[t] /\ base'[u][t] = m[t]
    BY <1>1 DEF Seed, StoreTypeOK
  <2> QED
    BY <1>0, <2>1
<1>2. ASSUME NEW r \in Hold, Reserve(r)
      PROVE  userLimit'[u][t] <= MaxPerUser[t]
  <2>1. /\ base' = base
        /\ \/ userLimit'[u][t] = userLimit[u][t]
           \/ /\ r.user = u /\ r.type = t
              /\ userLimit'[u][t] = userLimit[u][t] + r.qty
    BY <1>2 DEF Reserve, StoreTypeOK, Hold
  <2>2. userLimit[r.user][r.type] + r.qty <= MaxPerUser[r.type]
    BY <1>2 DEF Reserve, Reservable
  <2> QED
    BY <1>0, <2>1, <2>2
<1>3. ASSUME NEW r \in reservation, Release(r)
      PROVE  userLimit'[u][t] <= MaxPerUser[t]
  <2>1. r.qty \in Nat
    BY StoreAssumption DEF StoreAssumption, StoreTypeOK, Hold
  <2>2. /\ base' = base
        /\ \/ userLimit'[u][t] = userLimit[u][t]
           \/ userLimit'[u][t] = Lowered(userLimit[u][t], r.qty)
    BY <1>3 DEF Release, StoreTypeOK
  <2> QED
    BY <1>0, <2>1, <2>2 DEF Lowered
<1>4. ASSUME NEW o \in Order, Forget(o)
      PROVE  userLimit'[u][t] <= MaxPerUser[t]
  BY <1>0, <1>4 DEF Forget, storeVars
<1>5. CASE UNCHANGED storeVars
  BY <1>0, <1>5 DEF storeVars
<1> QED
  BY <1>1, <1>2, <1>3, <1>4, <1>5 DEF StoreNext

(***************************************************************************)
(* The limit checkpoint of the reserve script, for any number of users,    *)
(* types and orders: user_limit passes maxPerUser only if lazy seeding     *)
(* found PostgreSQL's counters already above it.                           *)
(***************************************************************************)
THEOREM LimitHolds == StoreSpec => []LimitRespected
<1>1. StoreInit => LimitRespected
  BY StoreAssumption DEF StoreInit, LimitRespected, StoreAssumption
<1>2. StoreTypeOK /\ LimitRespected /\ [StoreNext]_storeVars => LimitRespected'
  BY LimitStep
<1> QED
  BY <1>1, <1>2, StoreTypeCorrect, PTL DEF StoreSpec

-----------------------------------------------------------------------------
(***************************************************************************)
(* CountersConserved is not inductive: a key that is missing must not have *)
(* been used yet, or lazy seeding would make tickets, and only finitely    *)
(* many keys are alive.                                                    *)
(***************************************************************************)
MissingUnused ==
    /\ \A t \in TicketType \ stockKeys : stock[t] = 0 /\ supply[t] = 0
    /\ \A u \in User, t \in TicketType : <<u, t>> \notin limitKeys =>
         HoldsBy(u, t) = {} /\ gone[u][t] = 0

Conserved == IsFiniteSet(reservation) /\ MissingUnused /\ CountersConserved

LEMMA QtyPositive ==
    ASSUME NEW r \in Hold
    PROVE  r.qty \in Nat /\ r.qty > 0
<1>1. r.qty \in Quantity
  BY DEF Hold
<1>2. r.qty \in Nat \ {0}
  BY <1>1, StoreAssumption DEF StoreAssumption
<1>3. \A n \in Nat \ {0} : n > 0
  OBVIOUS
<1> QED
  BY <1>2, <1>3

(* A set of live keys holds a natural number of tickets. *)
LEMMA HoldsNat ==
    ASSUME NEW H, IsFiniteSet(H), H \subseteq Hold
    PROVE  /\ \A r \in H : r.qty \in Nat /\ r.qty > 0 /\ [x \in H |-> x.qty][r] = r.qty
           /\ SumOfHolds(H) \in Nat
<1>1. \A r \in H : r.qty \in Nat /\ r.qty > 0
  BY StoreAssumption DEF StoreAssumption, Hold
<1>2. SumOfHolds(H) \in Nat
  <2> DEFINE f == [x \in H |-> x.qty]
  <2>1. \A x \in H : f[x] \in Nat
    BY <1>1
  <2> HIDE DEF f
  <2>2. SumFunctionOnSet(f, H) \in Nat
    BY <2>1, SumIn
  <2> QED
    BY <2>2 DEF f, SumOfHolds
<1> QED
  BY <1>1, <1>2

LEMMA HoldAdded ==
    ASSUME NEW H, IsFiniteSet(H), NEW r, H \cup {r} \subseteq Hold, r \notin H
    PROVE  SumOfHolds(H \cup {r}) = SumOfHolds(H) + r.qty
<1> DEFINE f == [x \in H |-> x.qty]
           k == [x \in H \cup {r} |-> x.qty]
<1>1. \A x \in H \cup {r} : x.qty \in Int
  BY QtyPositive
<1>2. k[r] = r.qty /\ k[r] \in Int
  BY <1>1
<1>3. \A x \in H : k[x] = f[x] /\ f[x] \in Int
  BY <1>1
<1> HIDE DEF f, k
<1>4. SumFunctionOnSet(k, H \cup {r}) = SumFunctionOnSet(f, H) + k[r]
  <2>1. k[r] \in Int /\ (\A x \in H : k[x] = f[x]) /\ (\A x \in H : f[x] \in Int)
    BY <1>2, <1>3
  <2>2. r \notin H
    OBVIOUS
  <2> QED
    BY ONLY <2>1, <2>2, IsFiniteSet(H), SumAdd
<1> QED
  BY <1>2, <1>4 DEF SumOfHolds, f, k

LEMMA HoldRemoved ==
    ASSUME NEW H, IsFiniteSet(H), H \subseteq Hold, NEW r \in H
    PROVE  /\ SumOfHolds(H \ {r}) = SumOfHolds(H) - r.qty
           /\ r.qty <= SumOfHolds(H)
<1> DEFINE f == [x \in H |-> x.qty]
           k == [x \in H \ {r} |-> x.qty]
<1>1. f[r] = r.qty /\ (\A x \in H : f[x] \in Nat) /\ \A x \in H \ {r} : k[x] = f[x]
  BY StoreAssumption DEF StoreAssumption, Hold
<1> HIDE DEF f, k
<1>2. SumFunctionOnSet(k, H \ {r}) = SumFunctionOnSet(f, H) - f[r]
  BY <1>1, SumDrop
<1>3. f[r] <= SumFunctionOnSet(f, H)
  BY <1>1, SumAtLeast
<1> QED
  BY <1>1, <1>2, <1>3 DEF SumOfHolds, f, k

(* The live keys of a type or of a user and a type. *)
LEMMA HoldsFinite ==
    ASSUME StoreTypeOK, IsFiniteSet(reservation)
    PROVE  /\ \A t : /\ IsFiniteSet(HoldsOf(t)) /\ HoldsOf(t) \subseteq Hold
                     /\ HeldOf(t) \in Nat
           /\ \A u, t : /\ IsFiniteSet(HoldsBy(u, t)) /\ HoldsBy(u, t) \subseteq Hold
                        /\ HeldBy(u, t) \in Nat
<1>1. \A t : HoldsOf(t) \subseteq Hold /\ HoldsOf(t) \subseteq reservation
  BY DEF HoldsOf, StoreTypeOK
<1>2. \A u, t : HoldsBy(u, t) \subseteq Hold /\ HoldsBy(u, t) \subseteq reservation
  BY DEF HoldsBy, StoreTypeOK
<1>3. \A H \in SUBSET reservation : IsFiniteSet(H)
  BY FS_Subset
<1> QED
  BY <1>1, <1>2, <1>3, HoldsNat DEF HeldOf, HeldBy

LEMMA GoneNat ==
    ASSUME StoreTypeOK, NEW t \in TicketType
    PROVE  GoneOf(t) \in Nat
<1> DEFINE f == [u \in User |-> gone[u][t]]
<1>1. \A u \in User : f[u] \in Nat
  BY DEF StoreTypeOK
<1>2. IsFiniteSet(User)
  BY StoreAssumption DEF StoreAssumption
<1> HIDE DEF f
<1>3. SumFunctionOnSet(f, User) \in Nat
  BY <1>1, <1>2, SumIn
<1> QED
  BY <1>3 DEF GoneOf, f

LEMMA GoneStays ==
    ASSUME UNCHANGED gone, NEW t
    PROVE  GoneOf(t)' = GoneOf(t)
BY DEF GoneOf

(* A key that goes away without the release script. *)
LEMMA GoneMore ==
    ASSUME StoreTypeOK, NEW u \in User, NEW x \in TicketType, NEW q \in Nat,
           gone' = [gone EXCEPT ![u][x] = @ + q], NEW t \in TicketType
    PROVE  /\ t # x => GoneOf(t)' = GoneOf(t)
           /\ t = x => GoneOf(t)' = GoneOf(t) + q
<1> DEFINE f == [v \in User |-> gone[v][t]]
           k == [v \in User |-> gone'[v][t]]
<1>1. \A v \in User : f[v] \in Int
  BY DEF StoreTypeOK
<1>2. \A v \in User \ {u} : k[v] = f[v]
  BY DEF StoreTypeOK
<1>3. k[u] = IF t = x THEN f[u] + q ELSE f[u]
  BY DEF StoreTypeOK
<1>4. IsFiniteSet(User)
  BY StoreAssumption DEF StoreAssumption
<1>5. GoneOf(t) = SumFunctionOnSet(f, User) /\ GoneOf(t)' = SumFunctionOnSet(k, User)
  BY DEF GoneOf
<1> HIDE DEF f, k
<1>6. \A v \in User : f[v] \in Int /\ k[v] \in Int
  BY <1>1, <1>2, <1>3
<1>7. SumFunctionOnSet(k, User) = SumFunctionOnSet(f, User) - f[u] + k[u]
  BY <1>2, <1>4, <1>6, SumChange
<1>8. SumFunctionOnSet(f, User) \in Int
  BY <1>1, <1>4, SumIn
<1> QED
  BY <1>3, <1>5, <1>6, <1>7, <1>8

LEMMA HeldStays ==
    ASSUME UNCHANGED reservation
    PROVE  /\ \A t : HeldOf(t)' = HeldOf(t)
           /\ \A u, t : HeldBy(u, t)' = HeldBy(u, t) /\ HoldsBy(u, t)' = HoldsBy(u, t)
BY DEF HeldOf, HeldBy, HoldsOf, HoldsBy, SumOfHolds

(* A new key counts once, for its type and its user. *)
LEMMA HeldMore ==
    ASSUME StoreTypeOK, IsFiniteSet(reservation), NEW r \in Hold, r \notin reservation,
           reservation' = reservation \cup {r}, NEW t, NEW u
    PROVE  /\ HeldOf(t)' = IF r.type = t THEN HeldOf(t) + r.qty ELSE HeldOf(t)
           /\ HeldBy(u, t)' = IF r.user = u /\ r.type = t THEN HeldBy(u, t) + r.qty
                              ELSE HeldBy(u, t)
<1>1. /\ HoldsOf(t)' = IF r.type = t THEN HoldsOf(t) \cup {r} ELSE HoldsOf(t)
      /\ HoldsBy(u, t)' = IF r.user = u /\ r.type = t THEN HoldsBy(u, t) \cup {r}
                          ELSE HoldsBy(u, t)
  BY DEF HoldsOf, HoldsBy
<1>2. /\ IsFiniteSet(HoldsOf(t)) /\ HoldsOf(t) \cup {r} \subseteq Hold
      /\ IsFiniteSet(HoldsBy(u, t)) /\ HoldsBy(u, t) \cup {r} \subseteq Hold
  BY HoldsFinite
<1>3. r \notin HoldsOf(t) /\ r \notin HoldsBy(u, t)
  BY DEF HoldsOf, HoldsBy
<1>4. SumOfHolds(HoldsOf(t) \cup {r}) = SumOfHolds(HoldsOf(t)) + r.qty
  BY <1>2, <1>3, HoldAdded
<1>5. SumOfHolds(HoldsBy(u, t) \cup {r}) = SumOfHolds(HoldsBy(u, t)) + r.qty
  BY <1>2, <1>3, HoldAdded
<1>6. HeldOf(t)' = SumOfHolds(HoldsOf(t)') /\ HeldBy(u, t)' = SumOfHolds(HoldsBy(u, t)')
  BY DEF HeldOf, HeldBy, SumOfHolds
<1> QED
  BY <1>1, <1>4, <1>5, <1>6 DEF HeldOf, HeldBy

(* A key that is gone no longer counts. *)
LEMMA HeldLess ==
    ASSUME StoreTypeOK, IsFiniteSet(reservation), NEW r \in reservation,
           reservation' = reservation \ {r}, NEW t, NEW u
    PROVE  /\ HeldOf(t)' = IF r.type = t THEN HeldOf(t) - r.qty ELSE HeldOf(t)
           /\ HeldBy(u, t)' = IF r.user = u /\ r.type = t THEN HeldBy(u, t) - r.qty
                              ELSE HeldBy(u, t)
           /\ r.user = u /\ r.type = t => r.qty <= HeldBy(u, t)
<1>1. /\ HoldsOf(t)' = IF r.type = t THEN HoldsOf(t) \ {r} ELSE HoldsOf(t)
      /\ HoldsBy(u, t)' = IF r.user = u /\ r.type = t THEN HoldsBy(u, t) \ {r}
                          ELSE HoldsBy(u, t)
  BY DEF HoldsOf, HoldsBy
<1>2. /\ IsFiniteSet(HoldsOf(t)) /\ HoldsOf(t) \subseteq Hold
      /\ IsFiniteSet(HoldsBy(u, t)) /\ HoldsBy(u, t) \subseteq Hold
  BY HoldsFinite
<1>3. r.type = t => r \in HoldsOf(t)
  BY DEF HoldsOf
<1>4. r.user = u /\ r.type = t => r \in HoldsBy(u, t)
  BY DEF HoldsBy
<1>5. r.type = t => SumOfHolds(HoldsOf(t) \ {r}) = SumOfHolds(HoldsOf(t)) - r.qty
  BY <1>2, <1>3, HoldRemoved
<1>6. r.user = u /\ r.type = t =>
        /\ SumOfHolds(HoldsBy(u, t) \ {r}) = SumOfHolds(HoldsBy(u, t)) - r.qty
        /\ r.qty <= SumOfHolds(HoldsBy(u, t))
  BY <1>2, <1>4, HoldRemoved
<1>7. HeldOf(t)' = SumOfHolds(HoldsOf(t)') /\ HeldBy(u, t)' = SumOfHolds(HoldsBy(u, t)')
  BY DEF HeldOf, HeldBy, SumOfHolds
<1> QED
  BY <1>1, <1>5, <1>6, <1>7 DEF HeldOf, HeldBy

(* The two equations, for one type and one user. *)
Conserves(u, t) ==
    /\ stock[t] + HeldOf(t) + GoneOf(t) = supply[t]
    /\ base[u][t] >= 0 => userLimit[u][t] = base[u][t] + HeldBy(u, t) + gone[u][t]

LEMMA ConservedSeed ==
    ASSUME StoreTypeOK, Conserved, NEW v \in User, NEW S \in SUBSET TicketType,
           NEW n \in [TicketType -> SeedValue], NEW m \in [TicketType -> CountValue],
           Seed(v, S, n, m)
    PROVE  Conserved'
<1>1. UNCHANGED <<reservation, gone>>
  BY DEF Seed
<1>2. MissingUnused'
  <2>1. \A t \in TicketType \ stockKeys' : stock'[t] = 0 /\ supply'[t] = 0
    BY DEF Seed, Conserved, MissingUnused
  <2>2. \A u \in User, t \in TicketType :
          <<u, t>> \notin limitKeys' => HoldsBy(u, t)' = {} /\ gone'[u][t] = 0
    BY <1>1, HeldStays DEF Seed, Conserved, MissingUnused
  <2> QED
    BY <2>1, <2>2 DEF MissingUnused
<1>3. ASSUME NEW u \in User, NEW t \in TicketType PROVE Conserves(u, t)'
  <2>1. HeldOf(t)' = HeldOf(t) /\ HeldBy(u, t)' = HeldBy(u, t) /\ GoneOf(t)' = GoneOf(t)
    BY <1>1, HeldStays, GoneStays
  <2>2. HeldOf(t) \in Nat /\ GoneOf(t) \in Nat /\ stock[t] \in Nat /\ supply[t] \in Nat
    BY HoldsFinite, GoneNat DEF Conserved, StoreTypeOK
  <2>3. stock[t] + HeldOf(t) + GoneOf(t) = supply[t]
    BY DEF Conserved, CountersConserved
  <2>4. stock'[t] + HeldOf(t)' + GoneOf(t)' = supply'[t]
    <3>1. CASE t \in S \ stockKeys
      <4>1. stock[t] = 0 /\ supply[t] = 0
        BY <3>1 DEF Conserved, MissingUnused
      <4>2. stock'[t] = n[t] /\ supply'[t] = n[t]
        BY <3>1 DEF Seed
      <4>3. n[t] \in Nat
        BY StoreAssumption DEF StoreAssumption
      <4> QED
        BY <2>1, <2>2, <2>3, <4>1, <4>2, <4>3
    <3>2. CASE t \notin S \ stockKeys
      <4>1. stock'[t] = stock[t] /\ supply'[t] = supply[t]
        BY <3>2 DEF Seed
      <4> QED
        BY <2>1, <2>3, <4>1
    <3> QED
      BY <3>1, <3>2
  <2>5. base'[u][t] >= 0 => userLimit'[u][t] = base'[u][t] + HeldBy(u, t)' + gone'[u][t]
    <3>1. CASE u = v /\ t \in S /\ <<u, t>> \notin limitKeys
      <4>1. HoldsBy(u, t) = {} /\ gone[u][t] = 0
        BY <3>1 DEF Conserved, MissingUnused
      <4>2. HeldBy(u, t) = 0
        BY <4>1, SumEmpty DEF HeldBy, SumOfHolds
      <4>3. userLimit'[u][t] = m[t] /\ base'[u][t] = m[t]
        BY <3>1 DEF Seed, StoreTypeOK
      <4>4. m[t] \in Int
        BY StoreAssumption DEF StoreAssumption
      <4> QED
        BY <1>1, <2>1, <4>1, <4>2, <4>3, <4>4
    <3>2. CASE ~ (u = v /\ t \in S /\ <<u, t>> \notin limitKeys)
      <4>1. userLimit'[u][t] = userLimit[u][t] /\ base'[u][t] = base[u][t]
        BY <3>2 DEF Seed, StoreTypeOK
      <4> QED
        BY <1>1, <2>1, <4>1 DEF Conserved, CountersConserved
    <3> QED
      BY <3>1, <3>2
  <2> QED
    BY <2>4, <2>5 DEF Conserves
<1> QED
  BY <1>1, <1>2, <1>3 DEF Conserved, CountersConserved, Conserves

LEMMA ConservedReserve ==
    ASSUME StoreTypeOK, Conserved, NEW r \in Hold, Reserve(r)
    PROVE  Conserved'
<1>1. /\ r.user \in User /\ r.type \in TicketType /\ r.qty \in Nat /\ r.qty > 0
      /\ r \notin reservation
      /\ reservation' = reservation \cup {r} /\ UNCHANGED <<stockKeys, supply, base, gone>>
  BY QtyPositive DEF Hold, Reserve, Reservable, HasHold
<1>2. IsFiniteSet(reservation) /\ IsFiniteSet(reservation')
  BY <1>1, FS_AddElement DEF Conserved
<1>3. MissingUnused'
  <2>1. r.type \in stockKeys
    BY <1>1 DEF Reserve, Reservable, Conserved, MissingUnused
  <2>2. \A t \in TicketType \ stockKeys' : stock'[t] = 0 /\ supply'[t] = 0
    BY <1>1, <2>1 DEF Reserve, Conserved, MissingUnused, StoreTypeOK
  <2>3. \A u \in User, t \in TicketType :
          <<u, t>> \notin limitKeys' => HoldsBy(u, t)' = {} /\ gone'[u][t] = 0
    BY <1>1 DEF Reserve, Conserved, MissingUnused, HoldsBy
  <2> QED
    BY <2>2, <2>3 DEF MissingUnused
<1>4. ASSUME NEW u \in User, NEW t \in TicketType PROVE Conserves(u, t)'
  <2>1. /\ HeldOf(t)' = IF r.type = t THEN HeldOf(t) + r.qty ELSE HeldOf(t)
        /\ HeldBy(u, t)' = IF r.user = u /\ r.type = t THEN HeldBy(u, t) + r.qty
                              ELSE HeldBy(u, t)
    BY <1>1, <1>2, HeldMore
  <2>2. /\ HeldOf(t) \in Nat /\ HeldBy(u, t) \in Nat /\ GoneOf(t) \in Nat
        /\ GoneOf(t)' = GoneOf(t)
    BY <1>1, <1>2, HoldsFinite, GoneNat, GoneStays
  <2>3. /\ stock[t] \in Nat /\ supply[t] \in Nat /\ base[u][t] \in Int
        /\ userLimit[u][t] \in Int /\ gone[u][t] \in Nat
    BY DEF StoreTypeOK
  <2>4. Conserves(u, t)
    BY DEF Conserved, CountersConserved, Conserves
  <2>5. stock'[t] = IF r.type = t THEN stock[t] - r.qty ELSE stock[t]
    BY <1>1 DEF Reserve, StoreTypeOK
  <2>6. userLimit'[u][t] = IF r.user = u /\ r.type = t THEN userLimit[u][t] + r.qty
                           ELSE userLimit[u][t]
    BY <1>1 DEF Reserve, StoreTypeOK
  <2>7. stock'[t] + HeldOf(t)' + GoneOf(t)' = supply'[t]
    BY <1>1, <2>1, <2>2, <2>3, <2>4, <2>5 DEF Conserves
  <2>8. base'[u][t] >= 0 => userLimit'[u][t] = base'[u][t] + HeldBy(u, t)' + gone'[u][t]
    BY <1>1, <2>1, <2>2, <2>3, <2>4, <2>6 DEF Conserves
  <2> QED
    BY <2>7, <2>8 DEF Conserves
<1> QED
  BY <1>1, <1>2, <1>3, <1>4 DEF Conserved, CountersConserved, Conserves

LEMMA ConservedRelease ==
    ASSUME StoreTypeOK, Conserved, NEW r \in reservation, Release(r)
    PROVE  Conserved'
<1>1. r \in Hold /\ r.user \in User /\ r.type \in TicketType /\ r.qty \in Nat
  BY QtyPositive DEF StoreTypeOK, Hold
<1>2. /\ reservation' = reservation \ {r} /\ UNCHANGED <<supply, base, gone>>
      /\ IsFiniteSet(reservation) /\ IsFiniteSet(reservation')
  BY FS_RemoveElement DEF Release, Conserved
<1>3. MissingUnused'
  <2>1. \A t \in TicketType \ stockKeys' : stock'[t] = 0 /\ supply'[t] = 0
    BY <1>1, <1>2 DEF Release, Conserved, MissingUnused, StoreTypeOK
  <2>2. \A u \in User, t \in TicketType :
          <<u, t>> \notin limitKeys' => HoldsBy(u, t)' = {} /\ gone'[u][t] = 0
    BY <1>1, <1>2 DEF Release, Conserved, MissingUnused, HoldsBy
  <2> QED
    BY <2>1, <2>2 DEF MissingUnused
<1>4. ASSUME NEW u \in User, NEW t \in TicketType PROVE Conserves(u, t)'
  <2>1. /\ HeldOf(t)' = IF r.type = t THEN HeldOf(t) - r.qty ELSE HeldOf(t)
        /\ HeldBy(u, t)' = IF r.user = u /\ r.type = t THEN HeldBy(u, t) - r.qty
                              ELSE HeldBy(u, t)
        /\ r.user = u /\ r.type = t => r.qty <= HeldBy(u, t)
    BY <1>2, HeldLess
  <2>2. /\ HeldOf(t) \in Nat /\ HeldBy(u, t) \in Nat /\ GoneOf(t) \in Nat
        /\ GoneOf(t)' = GoneOf(t)
    BY <1>2, HoldsFinite, GoneNat, GoneStays
  <2>3. /\ stock[t] \in Nat /\ supply[t] \in Nat /\ base[u][t] \in Int
        /\ userLimit[u][t] \in Int /\ gone[u][t] \in Nat
    BY DEF StoreTypeOK
  <2>4. Conserves(u, t)
    BY DEF Conserved, CountersConserved, Conserves
  <2>5. stock'[t] = IF r.type = t THEN stock[t] + r.qty ELSE stock[t]
    BY <1>1 DEF Release, StoreTypeOK
  <2>6. userLimit'[u][t] = IF r.user = u /\ r.type = t THEN Lowered(userLimit[u][t], r.qty)
                           ELSE userLimit[u][t]
    BY <1>1 DEF Release, StoreTypeOK
  <2>7. stock'[t] + HeldOf(t)' + GoneOf(t)' = supply'[t]
    BY <1>1, <1>2, <2>1, <2>2, <2>3, <2>4, <2>5 DEF Conserves
  <2>8. base'[u][t] >= 0 => userLimit'[u][t] = base'[u][t] + HeldBy(u, t)' + gone'[u][t]
    BY <1>1, <1>2, <2>1, <2>2, <2>3, <2>4, <2>6 DEF Conserves, Lowered
  <2> QED
    BY <2>7, <2>8 DEF Conserves
<1> QED
  BY <1>1, <1>2, <1>3, <1>4 DEF Conserved, CountersConserved, Conserves

LEMMA ConservedStays ==
    ASSUME Conserved, UNCHANGED storeVars
    PROVE  Conserved'
<1>1. UNCHANGED <<stock, stockKeys, userLimit, limitKeys, reservation, supply, base, gone>>
  BY DEF storeVars
<1> QED
  BY <1>1, HeldStays, GoneStays DEF Conserved, MissingUnused, CountersConserved

LEMMA ConservedForget ==
    ASSUME StoreTypeOK, Conserved, NEW o, Forget(o)
    PROVE  Conserved'
<1>1. CASE UNCHANGED storeVars
  BY <1>1, ConservedStays
<1>2. ASSUME NEW r \in reservation, reservation' = reservation \ {r},
             gone' = [gone EXCEPT ![r.user][r.type] = @ + r.qty],
             UNCHANGED <<stock, stockKeys, userLimit, limitKeys, supply, base>>
      PROVE  Conserved'
  <2>1. r \in Hold /\ r.user \in User /\ r.type \in TicketType /\ r.qty \in Nat
    BY QtyPositive DEF StoreTypeOK, Hold
  <2>2. IsFiniteSet(reservation) /\ IsFiniteSet(reservation')
    BY <1>2, FS_RemoveElement DEF Conserved
  <2>3. MissingUnused'
    <3>1. <<r.user, r.type>> \in limitKeys
      BY <2>1 DEF Conserved, MissingUnused, HoldsBy
    <3>2. \A u \in User, t \in TicketType :
            <<u, t>> \notin limitKeys' => HoldsBy(u, t)' = {} /\ gone'[u][t] = 0
      BY <1>2, <2>1, <3>1 DEF Conserved, MissingUnused, HoldsBy, StoreTypeOK
    <3> QED
      BY <1>2, <3>2 DEF Conserved, MissingUnused
  <2>4. ASSUME NEW u \in User, NEW t \in TicketType PROVE Conserves(u, t)'
    <3>1. /\ HeldOf(t)' = IF r.type = t THEN HeldOf(t) - r.qty ELSE HeldOf(t)
          /\ HeldBy(u, t)' = IF r.user = u /\ r.type = t THEN HeldBy(u, t) - r.qty
                                ELSE HeldBy(u, t)
      BY <1>2, <2>2, HeldLess
    <3>2. HeldOf(t) \in Nat /\ HeldBy(u, t) \in Nat /\ GoneOf(t) \in Nat
      BY <2>2, HoldsFinite, GoneNat
    <3>3. GoneOf(t)' = IF r.type = t THEN GoneOf(t) + r.qty ELSE GoneOf(t)
      BY <1>2, <2>1, GoneMore
    <3>4. gone'[u][t] = IF r.user = u /\ r.type = t THEN gone[u][t] + r.qty ELSE gone[u][t]
      BY <1>2, <2>1 DEF StoreTypeOK
    <3>5. /\ stock[t] \in Nat /\ supply[t] \in Nat /\ base[u][t] \in Int
          /\ userLimit[u][t] \in Int /\ gone[u][t] \in Nat
      BY DEF StoreTypeOK
    <3>6. Conserves(u, t)
      BY DEF Conserved, CountersConserved, Conserves
    <3> QED
      BY <1>2, <2>1, <3>1, <3>2, <3>3, <3>4, <3>5, <3>6 DEF Conserves
  <2> QED
    BY <2>1, <2>2, <2>3, <2>4 DEF Conserved, CountersConserved, Conserves
<1> QED
  BY <1>1, <1>2 DEF Forget

LEMMA ConservedInit == StoreInit => Conserved
<1> SUFFICES ASSUME StoreInit PROVE Conserved
  OBVIOUS
<1>1. IsFiniteSet(reservation)
  BY FS_EmptySet DEF StoreInit
<1>2. MissingUnused
  BY DEF StoreInit, MissingUnused, HoldsBy
<1>3. ASSUME NEW u \in User, NEW t \in TicketType PROVE Conserves(u, t)
  <2>1. HoldsOf(t) = {} /\ HoldsBy(u, t) = {}
    BY DEF StoreInit, HoldsOf, HoldsBy
  <2>2. HeldOf(t) = 0 /\ HeldBy(u, t) = 0
    BY <2>1, SumEmpty DEF HeldOf, HeldBy, SumOfHolds
  <2>3. GoneOf(t) = 0
    <3> DEFINE f == [v \in User |-> gone[v][t]]
    <3>1. \A v \in User : f[v] = 0
      BY DEF StoreInit
    <3>2. IsFiniteSet(User)
      BY StoreAssumption DEF StoreAssumption
    <3> HIDE DEF f
    <3>3. SumFunctionOnSet(f, User) = 0
      BY <3>1, <3>2, SumZero
    <3> QED
      BY <3>3 DEF GoneOf, f
  <2>4. stock[t] \in Nat
    BY StoreAssumption DEF StoreInit, StoreAssumption
  <2> QED
    BY <2>2, <2>3, <2>4 DEF StoreInit, Conserves
<1>4. User = {} => \A t \in TicketType : stock[t] + HeldOf(t) + GoneOf(t) = supply[t]
  <2> SUFFICES ASSUME User = {}, NEW t \in TicketType
               PROVE  stock[t] + HeldOf(t) + GoneOf(t) = supply[t]
    OBVIOUS
  <2>1. HoldsOf(t) = {}
    BY DEF StoreInit, HoldsOf
  <2>2. HeldOf(t) = 0 /\ GoneOf(t) = 0
    BY <2>1, SumEmpty DEF HeldOf, SumOfHolds, GoneOf
  <2>3. stock[t] \in Nat
    BY StoreAssumption DEF StoreInit, StoreAssumption
  <2> QED
    BY <2>2, <2>3 DEF StoreInit
<1> QED
  BY <1>1, <1>2, <1>3, <1>4 DEF Conserved, CountersConserved, Conserves

(***************************************************************************)
(* No ticket is lost or made by the two scripts, lazy seeding, TTLs and    *)
(* DEL, in any order, for any number of users, orders and types.           *)
(***************************************************************************)
THEOREM ConservationHolds == StoreSpec => []CountersConserved
<1>1. StoreTypeOK /\ Conserved /\ [StoreNext]_storeVars => Conserved'
  <2> SUFFICES ASSUME StoreTypeOK, Conserved, [StoreNext]_storeVars PROVE Conserved'
    OBVIOUS
  <2>1. CASE UNCHANGED storeVars
    BY <2>1, ConservedStays
  <2> QED
    BY <2>1, ConservedSeed, ConservedReserve, ConservedRelease, ConservedForget DEF StoreNext
<1>2. Conserved => CountersConserved
  BY DEF Conserved
<1> QED
  BY <1>1, <1>2, ConservedInit, StoreTypeCorrect, PTL DEF StoreSpec

=============================================================================
