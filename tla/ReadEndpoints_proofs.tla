-------------------------- MODULE ReadEndpoints_proofs --------------------------
(***************************************************************************)
(* Theorems about the endpoints that read: RateLimit, EventQuery, which is *)
(* one of the things that can happen behind the limit, and ContractStatus. *)
(***************************************************************************)
EXTENDS EventQuery, ContractStatus, FiniteSetTheorems, TLAPS

-----------------------------------------------------------------------------
(* The requests that passed are finitely many, at most all of them.        *)
LEMMA PassedFinite ==
  /\ IsFiniteSet(Passed)
  /\ Cardinality(Passed) \in Nat
  /\ Cardinality(Requests) \in Nat \ {0}
  /\ Cardinality(Passed) <= Cardinality(Requests)
<1>1. Passed \subseteq Requests
  BY DEF Passed
<1>2. Cardinality(Requests) \in Nat \ {0}
  BY LimitAssumption, FS_CardinalityType, FS_EmptySet
<1> QED
  BY <1>1, <1>2, LimitAssumption, FS_Subset, FS_CardinalityType

(* The same in the next state.                                             *)
LEMMA PassedFinitePrime ==
  /\ IsFiniteSet(Passed')
  /\ Cardinality(Passed') \in Nat
  /\ Cardinality(Passed') <= Cardinality(Requests)
<1>1. Passed' \subseteq Requests
  BY DEF Passed
<1> QED
  BY <1>1, LimitAssumption, FS_Subset, FS_CardinalityType

(* The counter of a user, and what its requests are at, stay well formed.  *)
THEOREM LimitTypeCorrect == Spec => []TypeOK
<1>1. Init => TypeOK
  <2> SUFFICES ASSUME Init
               PROVE  TypeOK
    OBVIOUS
  <2>1. faults \in 0 .. MaxFaults /\ count \in Nat
    BY LimitAssumption DEF Init
  <2>2. pc \in [Requests -> {"idle", "serve", "count", "expire"}]
    BY DEF Init
  <2> QED
    BY <2>1, <2>2, Zenon DEF Init, TypeOK
<1>2. TypeOK /\ [Next]_limitVars => TypeOK'
  <2> SUFFICES ASSUME TypeOK, [Next]_limitVars
               PROVE  TypeOK'
    OBVIOUS
  <2> USE LimitAssumption DEF TypeOK, Goto, Fault
  <2>1. ASSUME NEW r \in Requests, Check(r)
        PROVE  TypeOK'
    BY <2>1 DEF Check
  <2>2. ASSUME NEW r \in Requests, Reject(r)
        PROVE  TypeOK'
    BY <2>2 DEF Reject
  <2>3. ASSUME NEW r \in Requests, Incr(r)
        PROVE  TypeOK'
    <3>1. count' \in Nat /\ count' # 0
      BY <2>3 DEF Incr
    <3>2. pc' \in [Requests -> {"idle", "serve", "count", "expire"}]
      BY <2>3 DEF Incr
    <3> QED
      BY <2>3, <3>1, <3>2, Zenon DEF Incr
  <2>8. ASSUME NEW r \in Requests, IncrFails(r) \/ ExpireFails(r)
        PROVE  TypeOK'
    <3>1. count' \in Nat /\ faults' \in 0 .. MaxFaults
      BY <2>8 DEF IncrFails, ExpireFails
    <3>2. pc' \in [Requests -> {"idle", "serve", "count", "expire"}]
      BY <2>8 DEF IncrFails, ExpireFails
    <3>3. (count' = 0 => ~armed') /\ armed' \in BOOLEAN /\ unarmed' \in BOOLEAN
      <4>1. CASE IncrFails(r)
        BY <4>1, Zenon DEF IncrFails
      <4>2. CASE ExpireFails(r)
        BY <4>2, Zenon DEF ExpireFails
      <4> QED
        BY <2>8, <4>1, <4>2
    <3> QED
      BY <3>1, <3>2, <3>3
  <2>7. ASSUME NEW r \in Requests, Expire(r)
        PROVE  TypeOK'
    <3>1. (count > 0) \in BOOLEAN /\ (count = 0 => ~(count > 0))
      OBVIOUS
    <3>2. pc' \in [Requests -> {"idle", "serve", "count", "expire"}]
      BY <2>7 DEF Expire
    <3> QED
      BY <2>7, <3>1, <3>2, Zenon DEF Expire
  <2>4. ASSUME NEW r \in Requests, NEW success \in BOOLEAN, Respond(r, success)
        PROVE  TypeOK'
    BY <2>4 DEF Respond
  <2>5. CASE WindowEnds
    BY <2>5 DEF WindowEnds
  <2>6. CASE UNCHANGED limitVars
    BY <2>6 DEF limitVars
  <2> QED
    BY <2>1, <2>2, <2>3, <2>4, <2>5, <2>6, <2>7, <2>8 DEF Next, Counting
<1> QED
  BY <1>1, <1>2, PTL DEF Spec

(* Every step keeps the excess over the limit bounded.  A request that     *)
(* passes saw the counter below the limit, so all requests at once do not  *)
(* matter; an increment takes its request out of those that passed.        *)
LEMMA OvershootStep == TypeOK /\ OvershootBound /\ [Next]_limitVars => OvershootBound'
<1> SUFFICES ASSUME TypeOK, OvershootBound, [Next]_limitVars
             PROVE  OvershootBound'
  OBVIOUS
<1> USE LimitAssumption, PassedFinite, PassedFinitePrime DEF TypeOK, OvershootBound
<1>1. ASSUME count' = 0
      PROVE  OvershootBound'
  BY <1>1
<1>2. ASSUME count' < Limit, count' \in Nat
      PROVE  OvershootBound'
  BY <1>2
<1>3. ASSUME count' = count, Passed' \subseteq Passed
      PROVE  OvershootBound'
  <2>1. Cardinality(Passed') <= Cardinality(Passed)
    BY <1>3, FS_Subset
  <2> QED
    BY <2>1, <1>3
<1>4. ASSUME NEW r \in Requests, Check(r)
      PROVE  OvershootBound'
  BY <1>2, <1>4 DEF Check
<1>5. ASSUME NEW r \in Requests, Reject(r)
      PROVE  OvershootBound'
  BY <1>3, <1>5 DEF Reject, Passed
<1>6. ASSUME NEW r \in Requests, Incr(r)
      PROVE  OvershootBound'
  <2>1. r \in Passed /\ Passed' = Passed \ {r}
    BY <1>6 DEF Incr, Goto, Passed
  <2>2. Cardinality(Passed') = Cardinality(Passed) - 1
    BY <2>1, FS_RemoveElement
  <2> QED
    BY <2>2, <1>6 DEF Incr
<1>7. ASSUME NEW r \in Requests, IncrFails(r) \/ Expire(r) \/ ExpireFails(r)
      PROVE  OvershootBound'
  BY <1>3, <1>7 DEF IncrFails, Expire, ExpireFails, Goto, Passed
<1>8. ASSUME NEW r \in Requests, NEW success \in BOOLEAN, Respond(r, success)
      PROVE  OvershootBound'
  BY <1>3, <1>8 DEF Respond, Goto, Passed
<1>9. CASE WindowEnds
  BY <1>1, <1>9 DEF WindowEnds
<1>10. CASE UNCHANGED limitVars
  BY <1>3, <1>10 DEF limitVars, Passed
<1> QED
  BY <1>4, <1>5, <1>6, <1>7, <1>8, <1>9, <1>10 DEF Next, Counting

(* The limit is exceeded by less than the number of requests one user can  *)
(* have under way, for any limit and any number of them                    *)
(* (successBasedRateLimitMiddleware reads and increments in two calls).    *)
THEOREM Overshoot == Spec => []OvershootBound
<1>1. Init => OvershootBound
  <2> SUFFICES ASSUME Init
               PROVE  OvershootBound
    OBVIOUS
  <2>1. Passed = {}
    BY DEF Init, Passed
  <2> QED
    BY <2>1, LimitAssumption, PassedFinite, FS_EmptySet DEF Init, OvershootBound
<1> QED
  BY <1>1, OvershootStep, LimitTypeCorrect, PTL DEF Spec

(* Paging through events over HTTP and gRPC is, for the counter, requests  *)
(* of a user: GetEvents does nothing the middleware does not allow for.    *)
THEOREM QueriesAreLimited == QuerySpec => Spec
<1>1. QueryInit => Init
  BY DEF QueryInit
<1>2. [QueryNext]_vars => [Next]_limitVars
  <2> SUFFICES ASSUME [QueryNext]_vars
               PROVE  [Next]_limitVars
    OBVIOUS
  <2> USE QueryAssumption
  <2>1. CASE Begin \/ Store
    BY <2>1 DEF Begin, Store
  <2>2. CASE HttpPage
    BY <2>2 DEF HttpPage, Next
  <2>3. CASE GrpcPage
    BY <2>3 DEF GrpcPage, QueryFails, Next, Reject, limitVars
  <2>4. CASE Quiet
    BY <2>4 DEF Quiet, Next
  <2>5. ASSUME NEW r \in Requests, OtherRequest(r) \/ Counts(r)
        PROVE  Next
    BY <2>5 DEF OtherRequest, Counts, Next
  <2>6. CASE UNCHANGED vars
    BY <2>6 DEF vars
  <2> QED
    BY <2>1, <2>2, <2>3, <2>4, <2>5, <2>6 DEF QueryNext
<1> QED
  BY <1>1, <1>2, PTL DEF QuerySpec, Spec

(* So the bound holds for the endpoint.                                    *)
THEOREM QueryOvershoot == QuerySpec => []OvershootBound
  BY QueriesAreLimited, Overshoot

-----------------------------------------------------------------------------
(* Walking through the events of a contract.                               *)

(* Rows in a higher block come before e in every page order.               *)
Above(e, R) == {r \in R : BlockOf[r] > BlockOf[e]}

OnlyOfBlock(e, R) == \A other \in R \ {e} : BlockOf[other] # BlockOf[e]

WalkType ==
  /\ stored \subseteq Events
  /\ walk \in {"new", "walking", "done"}
  /\ found \in Contracts \union {NoContract}
  /\ skip \in Nat
  /\ got \subseteq Events /\ atBegin \subseteq Events
  /\ used \subseteq Contracts

(* A walk that has not begun has no page, one that ended asks for none, and *)
(* events are never deleted.                                               *)
WalkOrder ==
  /\ walk = "new" => skip = 0 /\ used = {}
  /\ found # NoContract => walk = "walking"
  /\ atBegin \subseteq stored

(* What the walk, if its pages come from contract k, has not got of what   *)
(* was there when it began: while it goes on, an event alone in its block  *)
(* has as many rows above it as the walk has gone past.                    *)
NoneBehind ==
  \A k \in Contracts :
    \A e \in atBegin \intersect RowsOf(k) :
      used \subseteq {k} /\ OnlyOfBlock(e, RowsOf(k)) =>
        /\ walk = "walking" => e \in got \/ skip <= Cardinality(Above(e, RowsOf(k)))
        /\ walk = "done" /\ used = {k} => e \in got

WalkInv == WalkType /\ WalkOrder /\ NoneBehind

(* More rows, more above: a count of rows can only grow.                   *)
LEMMA AboveGrows ==
  ASSUME NEW R \in SUBSET Events, NEW T \in SUBSET Events, R \subseteq T, NEW e
  PROVE  /\ IsFiniteSet(Above(e, R)) /\ Cardinality(Above(e, R)) \in Nat
         /\ Cardinality(Above(e, R)) <= Cardinality(Above(e, T))
<1>1. Above(e, R) \subseteq Above(e, T) /\ Above(e, T) \subseteq Events
  BY DEF Above
<1>2. IsFiniteSet(Above(e, T))
  BY <1>1, QueryAssumption, FS_Subset
<1> QED
  BY <1>1, <1>2, FS_Subset, FS_CardinalityType

(* What a page that starts after fewer rows than are above e does to e: it *)
(* contains e, or it is full and all of it is above e.                     *)
LEMMA PageReaches ==
  ASSUME NEW R \in SUBSET Events, NEW S \in SUBSET R, IsPage(S, R),
         skip \in Nat, NEW e \in R, OnlyOfBlock(e, R),
         skip <= Cardinality(Above(e, R)), e \notin S
  PROVE  /\ Cardinality(S) = Take
         /\ skip + Take <= Cardinality(Above(e, R))
<1> DEFINE A == Above(e, R)
<1>1. PICK B \in SUBSET (R \ S) :
        /\ Cardinality(B) = Lesser(skip, Cardinality(R))
        /\ Cardinality(S) = Lesser(Take, Cardinality(R) - Cardinality(B))
        /\ \A d \in B, other \in R \ B : BlockOf[d] >= BlockOf[other]
        /\ \A d \in S, other \in R \ (B \union S) : BlockOf[d] >= BlockOf[other]
  BY DEF IsPage
<1>2. /\ IsFiniteSet(R) /\ IsFiniteSet(A) /\ IsFiniteSet(B) /\ IsFiniteSet(S)
      /\ Cardinality(R) \in Nat /\ Cardinality(A) \in Nat
      /\ Cardinality(B) \in Nat /\ Cardinality(S) \in Nat
  <2>1. A \subseteq Events /\ R \subseteq Events /\ B \subseteq Events /\ S \subseteq Events
    BY DEF Above
  <2>2. \A D : D \subseteq Events => IsFiniteSet(D) /\ Cardinality(D) \in Nat
    BY QueryAssumption, FS_Subset, FS_CardinalityType
  <2> HIDE DEF A
  <2> QED
    BY <2>1, <2>2
<1>3. \A d \in R : BlockOf[d] \in Nat
  BY QueryAssumption
<1>4. A \subseteq R \ {e}
  BY <1>3 DEF Above
<1>5. Cardinality(A) <= Cardinality(R) - 1
  <2>1. IsFiniteSet(R \ {e}) /\ Cardinality(R \ {e}) = Cardinality(R) - 1
    BY <1>2, FS_RemoveElement
  <2> QED
    BY <1>4, <2>1, FS_Subset
<1>6. Cardinality(B) = skip
  BY <1>1, <1>2, <1>5 DEF Lesser
<1>7. e \notin B
  <2> SUFFICES ASSUME e \in B
               PROVE  FALSE
    OBVIOUS
  <2>1. A \subseteq B \ {e}
    BY <1>1, <1>3, <1>4 DEF Above
  <2>2. IsFiniteSet(B \ {e}) /\ Cardinality(B \ {e}) = Cardinality(B) - 1
    BY <1>2, FS_RemoveElement
  <2>3. Cardinality(A) <= Cardinality(B \ {e})
    BY <2>1, <2>2, FS_Subset
  <2> QED
    BY <2>2, <2>3, <1>2, <1>6
<1>8. B \union S \subseteq A
  <2>1. \A d \in B \union S : d \in R /\ d # e /\ BlockOf[d] >= BlockOf[e]
    BY <1>1, <1>7
  <2>2. \A d \in B \union S : BlockOf[d] > BlockOf[e]
    BY <2>1, <1>3 DEF OnlyOfBlock
  <2> QED
    BY <2>1, <2>2 DEF Above
<1>9. Cardinality(B) + Cardinality(S) <= Cardinality(A)
  <2>1. B \intersect S = {} /\ Cardinality(B \intersect S) = 0
    BY FS_EmptySet, Zenon
  <2>2. Cardinality(B \union S) =
          Cardinality(B) + Cardinality(S) - Cardinality(B \intersect S)
    BY <1>2, FS_Union, Zenon
  <2>3. Cardinality(B \union S) = Cardinality(B) + Cardinality(S)
    BY <1>2, <2>1, <2>2
  <2>4. Cardinality(B \union S) <= Cardinality(A)
    BY <1>2, <1>8, FS_Subset
  <2> QED
    BY <2>3, <2>4
<1>10. Cardinality(S) = Take
  BY <1>1, <1>2, <1>5, <1>6, <1>9, QueryAssumption DEF Lesser
<1> QED
  BY <1>6, <1>9, <1>10

LEMMA WalkInit == QueryInit => WalkInv
<1> SUFFICES ASSUME QueryInit
             PROVE  WalkInv
  OBVIOUS
<1> QED
  BY QueryAssumption DEF QueryInit, WalkInv, WalkType, WalkOrder, NoneBehind

(* Storing an event, of whatever block, only adds to what is above others. *)
LEMMA StoreWalks == WalkInv /\ Store => WalkInv'
<1> SUFFICES ASSUME WalkInv, Store
             PROVE  WalkInv'
  OBVIOUS
<1> USE DEF WalkInv, client
<1>1. WalkType' /\ WalkOrder'
  BY DEF Store, WalkType, WalkOrder
<1>2. ASSUME NEW k \in Contracts, NEW e \in atBegin' \intersect RowsOf(k)',
             used' \subseteq {k}, OnlyOfBlock(e, RowsOf(k)')
      PROVE  /\ walk' = "walking" => e \in got' \/ skip' <= Cardinality(Above(e, RowsOf(k)'))
             /\ walk' = "done" /\ used' = {k} => e \in got'
  <2>1. UNCHANGED client /\ stored \subseteq stored' /\ stored' \subseteq Events
    BY <1>1 DEF Store, WalkType
  <2>2. RowsOf(k) \subseteq RowsOf(k)' /\ RowsOf(k)' \subseteq Events
    BY <2>1 DEF RowsOf
  <2>3. e \in atBegin \intersect RowsOf(k)
    BY <1>2, <2>1 DEF RowsOf, WalkOrder
  <2>4. OnlyOfBlock(e, RowsOf(k))
    BY <1>2, <2>2 DEF OnlyOfBlock
  <2>5. /\ Cardinality(Above(e, RowsOf(k))) \in Nat
        /\ Cardinality(Above(e, RowsOf(k)')) \in Nat
        /\ Cardinality(Above(e, RowsOf(k))) <= Cardinality(Above(e, RowsOf(k)'))
    BY <2>2, AboveGrows
  <2> QED
    BY <1>2, <2>1, <2>3, <2>4, <2>5 DEF NoneBehind, WalkType
<1> QED
  BY <1>1, <1>2 DEF NoneBehind

(* A page: an event that is alone in its block is in it, or is as far from *)
(* the client as it was.                                                   *)
LEMMA PageWalks == WalkInv /\ FindEvents => WalkInv'
<1> SUFFICES ASSUME WalkInv, FindEvents
             PROVE  WalkInv'
  OBVIOUS
<1> USE DEF WalkInv
<1>1. PICK S \in SUBSET RowsOf(found) :
        /\ IsPage(S, RowsOf(found))
        /\ got' = got \union S
        /\ walk' = IF Cardinality(S) < Take THEN "done" ELSE walk
  BY DEF FindEvents
<1>2. /\ found \in Contracts /\ walk = "walking" /\ RowsOf(found) \subseteq Events
      /\ skip' = skip + Take /\ used' = used \union {found}
      /\ UNCHANGED <<stored, atBegin>>
  BY DEF FindEvents, WalkType, WalkOrder, RowsOf
<1>3. WalkType' /\ WalkOrder'
  BY <1>1, <1>2, QueryAssumption DEF FindEvents, WalkType, WalkOrder
<1>4. ASSUME NEW k \in Contracts, NEW e \in atBegin' \intersect RowsOf(k)',
             used' \subseteq {k}, OnlyOfBlock(e, RowsOf(k)'), e \notin got'
      PROVE  walk' = "walking" /\ skip' <= Cardinality(Above(e, RowsOf(k)'))
  <2>1. k = found /\ used \subseteq {k} /\ RowsOf(k)' = RowsOf(k) /\ e \notin S /\ e \notin got
    BY <1>1, <1>2, <1>4 DEF RowsOf
  <2>2. e \in atBegin \intersect RowsOf(k) /\ OnlyOfBlock(e, RowsOf(k))
    BY <1>2, <1>4, <2>1
  <2>3. skip <= Cardinality(Above(e, RowsOf(k)))
    BY <1>2, <2>1, <2>2 DEF NoneBehind
  <2>4. /\ Cardinality(S) = Take
        /\ skip + Take <= Cardinality(Above(e, RowsOf(k)))
    BY <1>1, <1>2, <2>1, <2>2, <2>3, PageReaches DEF WalkType
  <2> QED
    BY <1>1, <1>2, <2>1, <2>4, QueryAssumption
<1> QED
  BY <1>3, <1>4 DEF NoneBehind

LEMMA WalkStep == WalkInv /\ [QueryNext]_vars => WalkInv'
<1> SUFFICES ASSUME WalkInv, [QueryNext]_vars
             PROVE  WalkInv'
  OBVIOUS
<1>1. CASE Begin
  <2>1. WalkType' /\ WalkOrder'
    BY <1>1 DEF Begin, WalkInv, WalkType, WalkOrder
  <2>2. \A k \in Contracts : \A e : Cardinality(Above(e, RowsOf(k)')) \in Nat
    <3>1. \A k \in Contracts : RowsOf(k)' \subseteq Events
      BY <2>1 DEF RowsOf, WalkType
    <3> QED
      BY <3>1, AboveGrows
  <2>3. walk' = "walking" /\ skip' = 0
    BY <1>1 DEF Begin, WalkInv, WalkOrder
  <2> QED
    BY <2>1, <2>2, <2>3 DEF WalkInv, NoneBehind
<1>2. CASE Store
  BY <1>2, StoreWalks
<1>3. CASE FindEvents
  BY <1>3, PageWalks
<1>4. ASSUME UNCHANGED <<stored, walk, skip, got, used, atBegin>>,
             found' \in Contracts \union {NoContract},
             found' # NoContract => walk = "walking"
      PROVE  WalkInv'
  BY <1>4 DEF WalkInv, WalkType, WalkOrder, NoneBehind, RowsOf
<1>5. CASE FindContract \/ QueryFails
  BY <1>4, <1>5 DEF FindContract, QueryFails
<1>6. CASE UNCHANGED <<stored, client>>
  BY <1>4, <1>6 DEF client, WalkInv, WalkType, WalkOrder
<1> QED
  BY <1>1, <1>2, <1>3, <1>5, <1>6 DEF QueryNext, HttpPage, GrpcPage, OtherRequest, Counts,
     Quiet, vars

(* The inductive invariant of a walk.                                      *)
THEOREM WalkInvariance == QuerySpec => []WalkInv
  BY WalkInit, WalkStep, PTL DEF QuerySpec

(* A walk's position and what it has got stay well formed, with the        *)
(* requests of the user behind the limit.                                  *)
THEOREM QueryTypeCorrect == QuerySpec => []QueryTypeOK
<1>1. TypeOK /\ WalkInv => QueryTypeOK
  BY DEF WalkInv, WalkType, QueryTypeOK
<1> QED
  BY <1>1, QueriesAreLimited, LimitTypeCorrect, WalkInvariance, PTL

(* GetEvents loses no event to skip and take that has its block to itself, *)
(* for any page size, any events and any order in which they are stored.   *)
THEOREM WalkComplete == QuerySpec => []MissedOnlyInTies
<1>1. WalkInv => MissedOnlyInTies
  BY DEF WalkInv, NoneBehind, OnlyOfBlock, MissedOnlyInTies
<1> QED
  BY <1>1, WalkInvariance, PTL

-----------------------------------------------------------------------------
(* What GetContractStatus tells, for any height of the chain and any       *)
(* number of restarts.                                                     *)

USE StatusAssumption DEF Blocks

(* What polling and backfill have promised so far.                         *)
CursorKept ==
  /\ base + 1 .. lastBlocks \subseteq asked \union passed
  /\ starting => passed = {}

StatusKept == status # None => StartBlock .. status - 1 \subseteq fetched

CompletedKept == \A end \in completed : StartBlock .. end - 1 \subseteq fetched

(* What a request has read stays true until it answers, and after: the     *)
(* cursor's base changes only while there is no cursor to read.            *)
ReadKept == last # None => seeded /\ base + 1 .. last \subseteq asked \union passed

AnswerKept ==
  answer # None =>
    /\ seeded
    /\ IF answer.backfill
         THEN StartBlock .. answer.current - 1 \subseteq fetched
         ELSE base + 1 .. answer.current \subseteq asked \union passed

StatusInv == StatusTypeOK /\ CursorKept /\ StatusKept /\ CompletedKept /\ ReadKept /\ AnswerKept

-----------------------------------------------------------------------------
LEMMA NothingAbove ==
  ASSUME NEW n \in Nat, NEW m, m = n
  PROVE  m + 1 .. n = {}
OBVIOUS

LEMMA StatusInitInv == StatusInit => StatusInv
<1> SUFFICES ASSUME StatusInit
             PROVE  StatusInv
  OBVIOUS
<1> USE DEF StatusInit, Polling!Init, Progress!Init
<1>1. StatusTypeOK
  <2>1. seeded \in BOOLEAN
    OBVIOUS
  <2>2. starting \in BOOLEAN
    OBVIOUS
  <2>3. passed \subseteq Blocks
    OBVIOUS
  <2>4. lastBlocks \in Blocks /\ base \in Blocks
    OBVIOUS
  <2>5. asked \subseteq Blocks /\ fetched \subseteq Blocks /\ completed \subseteq Blocks
    OBVIOUS
  <2>6. boots \in 1 .. MaxBoots
    OBVIOUS
  <2> QED
    BY <2>1, <2>2, <2>3, <2>4, <2>5, <2>6, Zenon DEF StatusTypeOK
<1>2. CursorKept
  <2>1. base + 1 .. lastBlocks = {}
    BY NothingAbove
  <2> QED
    BY <2>1 DEF CursorKept
<1> QED
  BY <1>1, <1>2 DEF StatusInv, StatusKept, CompletedKept, ReadKept, AnswerKept

(* A step of Start or of the chain's goroutines.                           *)
LEMMA ChainStep ==
  StatusInv /\ (Seed \/ Overwrite \/ StartGivesUp \/ Ask \/ Move) => StatusInv'
<1> SUFFICES ASSUME StatusInv, Seed \/ Overwrite \/ StartGivesUp \/ Ask \/ Move
             PROVE  StatusInv'
  OBVIOUS
<1> USE DEF StatusInv, backfill, request
<1>1. CASE Seed
  <2> USE <1>1 DEF Seed, Polling!Seed
  <2>1. StatusTypeOK'
    BY DEF StatusTypeOK
  <2>2. CursorKept'
    <3>1. base' + 1 .. lastBlocks' = {}
      BY <2>1, NothingAbove DEF StatusTypeOK
    <3>2. starting => passed' = {}
      BY DEF CursorKept
    <3>3. starting' => passed' = {}
      BY <3>2
    <3> QED
      BY <3>1, <3>3, Zenon DEF CursorKept
  <2> QED
    BY <2>1, <2>2 DEF StatusKept, CompletedKept, ReadKept, AnswerKept
<1>2. CASE Ask
  <2> USE <1>2 DEF Ask, Polling!Ask
  <2>1. StatusTypeOK'
    BY DEF StatusTypeOK
  <2> QED
    BY <2>1 DEF CursorKept, StatusKept, CompletedKept, ReadKept, AnswerKept
<1>3. CASE Move
  <2> USE <1>3 DEF Move, Polling!Move
  <2>1. StatusTypeOK'
    BY DEF StatusTypeOK
  <2> QED
    BY <2>1 DEF CursorKept, StatusKept, CompletedKept, ReadKept, AnswerKept
<1>4. CASE Overwrite
  <2> USE <1>4 DEF Overwrite, Polling!Overwrite
  <2>1. passed = {} /\ passed' = lastBlocks + 1 .. lastBlocks'
    BY DEF CursorKept
  <2>2. lastBlocks \in Nat /\ lastBlocks' \in Blocks /\ base \in Nat
    BY DEF StatusTypeOK
  <2>3. StatusTypeOK'
    <3>1. starting' \in BOOLEAN
      OBVIOUS
    <3>2. passed' \subseteq Blocks
      BY <2>1, <2>2
    <3> QED
      BY <2>2, <3>1, <3>2, Zenon DEF StatusTypeOK
  <2>4. CursorKept'
    BY <2>1, <2>2 DEF CursorKept
  <2> QED
    BY <2>1, <2>3, <2>4 DEF StatusKept, CompletedKept, ReadKept, AnswerKept
<1>5. CASE StartGivesUp
  <2> USE <1>5 DEF StartGivesUp, Polling!StartGivesUp
  <2>1. StatusTypeOK'
    BY DEF StatusTypeOK
  <2> QED
    BY <2>1 DEF CursorKept, StatusKept, CompletedKept, ReadKept, AnswerKept
<1> QED
  BY <1>1, <1>2, <1>3, <1>4, <1>5

(* A step of the backfill.                                                 *)
LEMMA BackfillStep == StatusInv /\ (Fetch \/ Report \/ Complete) => StatusInv'
<1> SUFFICES ASSUME StatusInv, Fetch \/ Report \/ Complete
             PROVE  StatusInv'
  OBVIOUS
<1> USE DEF StatusInv, chain, request
<1>1. CASE Fetch
  <2> USE <1>1 DEF Fetch, Progress!Fetch
  <2>1. StatusTypeOK'
    BY DEF StatusTypeOK
  <2> QED
    BY <2>1 DEF CursorKept, StatusKept, CompletedKept, ReadKept, AnswerKept
<1>2. CASE Report
  <2> USE <1>2 DEF Report, Progress!Report
  <2>1. StatusTypeOK'
    BY DEF StatusTypeOK
  <2> QED
    BY <2>1 DEF CursorKept, StatusKept, CompletedKept, ReadKept, AnswerKept
<1>3. CASE Complete
  <2> USE <1>3 DEF Complete, Progress!Complete
  <2>1. StatusTypeOK'
    BY DEF StatusTypeOK
  <2>2. CompletedKept'
    BY DEF CompletedKept
  <2> QED
    BY <2>1, <2>2 DEF CursorKept, StatusKept, ReadKept, AnswerKept
<1> QED
  BY <1>1, <1>2, <1>3

(* A restart, and a step of a request.                                     *)
LEMMA RequestStep == StatusInv /\ (Restart \/ ReadCursor \/ ReadStatus) => StatusInv'
<1> SUFFICES ASSUME StatusInv, Restart \/ ReadCursor \/ ReadStatus
             PROVE  StatusInv'
  OBVIOUS
<1> USE DEF StatusInv, chain, backfill, request
<1>1. CASE Restart
  <2> USE <1>1 DEF Restart
  <2>1. StatusTypeOK'
    <3>1. passed' \subseteq Blocks /\ starting' \in BOOLEAN /\ seeded' \in BOOLEAN
      OBVIOUS
    <3>2. boots' \in 1 .. MaxBoots /\ base' \in Blocks /\ lastBlocks' \in Blocks
      BY DEF StatusTypeOK
    <3> QED
      BY <3>1, <3>2 DEF StatusTypeOK
  <2>2. CursorKept'
    <3>1. base' + 1 .. lastBlocks' = {}
      BY NothingAbove
    <3> QED
      BY <3>1 DEF CursorKept
  <2> QED
    BY <2>1, <2>2 DEF StatusKept, CompletedKept, ReadKept, AnswerKept
<1>2. CASE ReadCursor
  <2> USE <1>2 DEF ReadCursor
  <2>1. StatusTypeOK'
    BY DEF StatusTypeOK
  <2> QED
    BY <2>1 DEF CursorKept, StatusKept, CompletedKept, ReadKept, AnswerKept
<1>3. CASE ReadStatus
  <2> USE <1>3 DEF ReadStatus
  <2>1. StatusTypeOK'
    BY DEF StatusTypeOK
  <2>2. AnswerKept'
    BY DEF AnswerKept, StatusKept, ReadKept
  <2> QED
    BY <2>1, <2>2 DEF CursorKept, StatusKept, CompletedKept, ReadKept
<1> QED
  BY <1>1, <1>2, <1>3

(* The inductive invariant of the status endpoint.                         *)
THEOREM StatusInvariance == StatusSpec => []StatusInv
<1>1. StatusInv /\ UNCHANGED statusVars => StatusInv'
  BY DEF StatusInv, statusVars, chain, backfill, request, StatusTypeOK, CursorKept, StatusKept,
         CompletedKept, ReadKept, AnswerKept
<1>2. StatusInv /\ [StatusNext]_statusVars => StatusInv'
  BY <1>1, ChainStep, BackfillStep, RequestStep DEF StatusNext
<1> QED
  BY StatusInitInv, <1>2, PTL DEF StatusSpec

(* The block of a backfill is one up to which the contract is stored.      *)
THEOREM Reported == StatusSpec => []ReportedIsCovered
<1>1. StatusInv => ReportedIsCovered
  BY DEF StatusInv, AnswerKept, ReportedIsCovered
<1> QED
  BY <1>1, StatusInvariance, PTL

(* After a backfill only the gap between its head and the seed of the      *)
(* cursor, and what Start passed over when it replaced an early seed, may  *)
(* be missing below the block that is reported.                            *)
THEOREM GapAtHandOver == StatusSpec => []GapOnlyAtHandOver
<1>1. StatusInv => GapOnlyAtHandOver
  <2> SUFFICES ASSUME StatusInv, answer # None,
                      NEW end \in completed,
                      NEW b \in StartBlock .. answer.current - 1
               PROVE  b \in fetched \union asked \union passed \/ (end <= b /\ b <= base)
    BY DEF GapOnlyAtHandOver
  <2> USE DEF StatusInv, StatusTypeOK
  <2>1. end \in Nat /\ b \in Nat /\ base \in Nat /\ answer.current \in Nat
    OBVIOUS
  <2>2. CASE answer.backfill
    BY <2>2 DEF AnswerKept
  <2>3. CASE ~answer.backfill /\ b > base
    BY <2>1, <2>3 DEF AnswerKept
  <2>4. CASE b <= base /\ b < end
    BY <2>1, <2>4 DEF CompletedKept
  <2> QED
    BY <2>1, <2>2, <2>3, <2>4
<1> QED
  BY <1>1, StatusInvariance, PTL
=============================================================================
