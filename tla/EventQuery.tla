----------------------------- MODULE EventQuery -----------------------------
(***************************************************************************)
(* Reading events page by page while they are being stored: GetEvents of   *)
(* internal/api/contract.go, behind the rate limit, and GetEvents of       *)
(* pkg/grpc/server.go, which has none.  A client walks through the events  *)
(* of an address with skip and take; every page is two queries of its own, *)
(* and the events are sorted by block number only.  Other requests of the  *)
(* same user count for its limit.                                          *)
(***************************************************************************)
EXTENDS RateLimit

CONSTANTS
  Walker,      \* the request the client makes over HTTP, one at a time
  Events,      \* events of the address that are or will be stored
  BlockOf,     \* the block number of each
  ContractOf,  \* the contract of each: an address has one per event signature
  Take,        \* events in a page
  NoContract   \* no contract found yet

Contracts == {ContractOf[e] : e \in Events}

ASSUME QueryAssumption ==
  /\ Walker \in Requests
  /\ BlockOf \in [Events -> Nat] /\ ContractOf \in [Events -> Contracts]
  /\ IsFiniteSet(Events) /\ Take \in Nat \ {0}
  /\ NoContract \notin Contracts

VARIABLES
  stored,   \* the events in the table
  walk,     \* whether the client's walk has begun or ended
  found,    \* the contract its request has found
  skip,     \* the events it has gone past
  got,      \* the events it has got
  used,     \* the contracts its pages came from
  atBegin   \* history: the events stored when it began

client == <<walk, found, skip, got, used, atBegin>>
vars == <<limitVars, stored, client>>

QueryTypeOK ==
  /\ TypeOK
  /\ stored \subseteq Events
  /\ walk \in {"new", "walking", "done"}
  /\ found \in Contracts \union {NoContract}
  /\ skip \in Nat
  /\ got \subseteq Events /\ atBegin \subseteq Events
  /\ used \subseteq Contracts

QueryInit ==
  /\ Init
  /\ stored \in SUBSET Events
  /\ walk = "new" /\ found = NoContract /\ skip = 0
  /\ got = {} /\ atBegin = {} /\ used = {}

(* A monitor or a backfill stores an event, of whatever block.             *)
Store ==
  /\ \E e \in Events \ stored : stored' = stored \union {e}
  /\ UNCHANGED <<limitVars, client>>

Begin ==
  /\ walk = "new"
  /\ walk' = "walking"
  /\ atBegin' = stored
  /\ UNCHANGED <<limitVars, stored, found, skip, got, used>>

-----------------------------------------------------------------------------
(* FindFirst on chain and address: no order, so any contract of theirs.    *)
FindContract ==
  /\ walk = "walking" /\ found = NoContract
  /\ found' \in Contracts
  /\ UNCHANGED <<stored, walk, skip, got, used, atBegin>>

Lesser(m, n) == IF m < n THEN m ELSE n

(* Fault: FindMany without an order.                                       *)
UnorderedPage(S, R) ==
  \E B \in SUBSET (R \ S) :
    /\ Cardinality(B) = Lesser(skip, Cardinality(R))
    /\ Cardinality(S) = Lesser(Take, Cardinality(R) - Cardinality(B))

(* S is the next page of the rows R: what follows the first ones, B, in    *)
(* some order by falling block number.                                     *)
IsPage(S, R) ==
  \E B \in SUBSET (R \ S) :
    /\ Cardinality(B) = Lesser(skip, Cardinality(R))
    /\ Cardinality(S) = Lesser(Take, Cardinality(R) - Cardinality(B))
    /\ \A e \in B, other \in R \ B : BlockOf[e] >= BlockOf[other]
    /\ \A e \in S, other \in R \ (B \union S) : BlockOf[e] >= BlockOf[other]

RowsOf(k) == {e \in stored : ContractOf[e] = k}

(* FindMany with Skip and Take; the client stops after a short page.       *)
FindEvents ==
  /\ found # NoContract
  /\ \E S \in SUBSET RowsOf(found) :
       /\ IsPage(S, RowsOf(found))
       /\ got' = got \union S
       /\ walk' = IF Cardinality(S) < Take THEN "done" ELSE walk
  /\ skip' = skip + Take
  /\ used' = used \union {found}
  /\ found' = NoContract
  /\ UNCHANGED <<stored, atBegin>>

(* One of the two queries fails; the client asks for the page again.       *)
QueryFails ==
  /\ walk = "walking"
  /\ Fault
  /\ found' = NoContract
  /\ UNCHANGED <<stored, walk, skip, got, used, atBegin>>

-----------------------------------------------------------------------------
(* A page over HTTP: the rate limit around the two queries.                *)
HttpPage ==
  \/ /\ walk = "walking" /\ found = NoContract
     /\ Check(Walker) \/ Reject(Walker)
     /\ UNCHANGED <<stored, client>>
  \/ pc[Walker] = "serve" /\ FindContract /\ UNCHANGED limitVars
  \/ FindEvents /\ Respond(Walker, TRUE)
  \/ QueryFails /\ Respond(Walker, FALSE)

(* A page over gRPC.                                                       *)
GrpcPage ==
  /\ pc[Walker] = "idle"
  /\ \/ FindContract /\ UNCHANGED limitVars
     \/ FindEvents /\ UNCHANGED limitVars
     \/ QueryFails /\ UNCHANGED <<count, armed, pc, unarmed>>

(* Other requests of the user, whatever they are answered.                 *)
OtherRequest(r) ==
  /\ \/ Check(r) \/ Reject(r)
     \/ \E success \in BOOLEAN : Respond(r, success)
  /\ UNCHANGED <<stored, client>>

Counts(r) == Counting(r) /\ UNCHANGED <<stored, client>>
Quiet == WindowEnds /\ UNCHANGED <<stored, client>>

QueryNext ==
  \/ Begin \/ HttpPage \/ GrpcPage \/ Store \/ Quiet
  \/ \E r \in Requests \ {Walker} : OtherRequest(r)
  \/ \E r \in Requests : Counts(r)

QuerySpec == QueryInit /\ [][QueryNext]_vars

(* Calls return, and the window of a key passes.                           *)
FairSpec ==
  /\ QuerySpec
  /\ \A r \in Requests : WF_vars(Counts(r))
  /\ WF_vars(Quiet)

-----------------------------------------------------------------------------
(* A walk that has ended, and whose pages came from one contract, has      *)
(* every event of it that was stored when the walk began and is the only   *)
(* one of its block, whatever was stored meanwhile above or below the      *)
(* client's position.  Events that share a block with others may fall      *)
(* between two pages, because nothing orders them.                         *)
MissedOnlyInTies ==
  \A k \in Contracts :
    walk = "done" /\ used = {k} =>
      \A e \in atBegin \intersect RowsOf(k) :
        (\A other \in RowsOf(k) \ {e} : BlockOf[other] # BlockOf[e]) => e \in got
=============================================================================
