------------------------ MODULE TrackerClient_proofs ------------------------
(***************************************************************************)
(* Theorems about the tracker client, for every project, team and state,   *)
(* any number of callers and every page size.                              *)
(*                                                                         *)
(* What a fetch returns is right because of what holds between two pages:  *)
(* nothing behind the cursor has been read, and every issue before it that *)
(* stayed active has.  What a query asks for is unknown because only a     *)
(* query fills the cache and it has the lock.                              *)
(***************************************************************************)
EXTENDS TrackerClient, LockQueue_proofs, WellFoundedInduction, FiniteSetTheorems

InTransition(c) == at[c] \notin {"idle", "done"}

LockOK ==
  /\ at \in [Caller -> {"idle", "lock", "query", "update", "moved", "refused", "done"}]
  /\ queue \in Seq(Caller) /\ IsInjective(queue)
  /\ \A c \in Caller : c \in ToSet(queue) <=> at[c] \in {"lock", "query"}
  /\ \A c \in Caller : at[c] = "query" => Head(queue) = c

CallsOK ==
  /\ cache \in [Team -> SUBSET Name]
  /\ call \in [Caller -> Calls \cup {NoCall}]
  /\ \A c \in Caller : InTransition(c) => call[c] \in Calls
  /\ \A c \in Caller : at[c] = "query" => Cached(call[c].name) = {}

LinearOK == state \in [Issue -> Name] /\ states \in [Team -> SUBSET Name]

Fetches ==
  [at : {"idle", "page", "returned"}, after : 0..Issues, found : SUBSET Issue,
   again : BOOLEAN, kept : SUBSET Issue]

ReadUpToCursor ==
  fetch.at = "page" =>
    /\ fetch.found \subseteq 1..fetch.after
    /\ \A i \in fetch.kept : i <= fetch.after => i \in fetch.found

FetchOK ==
  /\ fetch \in Fetches
  /\ \A i \in fetch.kept : IsActive(i)
  /\ fetch.at = "page" => ~fetch.again
  /\ ReadUpToCursor /\ FetchComplete

IInv == LockOK /\ CallsOK /\ LinearOK /\ FetchOK

-----------------------------------------------------------------------------
(* A page is the first part of what is beyond the cursor. *)

LEMMA LeastElement ==
  ASSUME NEW T \in SUBSET Nat, T # {}
  PROVE  \E x \in T : \A y \in T : x <= y
<1> DEFINE R == {ss \in Nat \X Nat : ss[1] < ss[2]}
<1>1. OpToRel(<, Nat) = R
  BY DEF OpToRel
<1>2. IsWellFoundedOn(R, Nat)
  BY <1>1, NatLessThanWellFounded
<1>3. \A y, z \in Nat : <<y, z>> \in R <=> y < z
  OBVIOUS
<1> HIDE DEF R
<1>4. PICK x \in T : \A y \in T : ~(<<y, x>> \in R)
  BY <1>2, WFMin
<1>5. ASSUME NEW y \in T PROVE x <= y
  <2>1. x \in Nat /\ y \in Nat
    OBVIOUS
  <2>2. ~(<<y, x>> \in R)
    BY <1>4
  <2>3. ~(y < x)
    BY <1>3, <2>1, <2>2
  <2>4. QED
    BY <2>1, <2>3
<1>6. QED
  BY <1>5

LEMMA GreatestElement ==
  ASSUME NEW N \in Nat, NEW T \in SUBSET (0..N), T # {}
  PROVE  Max(T) \in T /\ \A y \in T : y <= Max(T)
<1> DEFINE D == {N - i : i \in T}
<1>1. D \in SUBSET Nat
  OBVIOUS
<1>2. D # {}
  <2>1. PICK t \in T : TRUE
    OBVIOUS
  <2>2. N - t \in D
    OBVIOUS
  <2>3. QED
    BY <2>2
<1>3. PICK d \in D : \A e \in D : d <= e
  BY <1>1, <1>2, LeastElement
<1>4. PICK x \in T : d = N - x
  BY <1>3
<1>5. ASSUME NEW y \in T PROVE x >= y
  <2>1. d <= N - y
    BY <1>3
  <2>2. QED
    BY <2>1, <1>4
<1>6. \E z \in T : \A y \in T : z >= y
  BY <1>5
<1>7. QED
  BY <1>6 DEF Max

LEMMA BeyondFinite ==
  ASSUME NEW S \in SUBSET Beyond
  PROVE  IsFiniteSet(S) /\ Cardinality(S) \in Nat
<1>1. IsFiniteSet(Issue)
  BY ClientAssumption, FS_Interval DEF Issue
<1>2. S \in SUBSET Issue
  BY DEF Beyond
<1>3. QED
  BY <1>1, <1>2, FS_Subset, FS_CardinalityType

\* A page is empty only when nothing is left.
LEMMA PageNotEmpty ==
  ASSUME FetchOK, Beyond # {}
  PROVE  Page # {}
<1>1. Beyond \in SUBSET Nat
  BY ClientAssumption DEF Beyond, Issue
<1>2. PICK x \in Beyond : \A y \in Beyond : x <= y
  BY <1>1, LeastElement
<1>3. {j \in Beyond : j < x} = {}
  <2>1. \A y \in Beyond : y \in Nat /\ x \in Nat /\ x <= y
    BY <1>1, <1>2
  <2>2. \A y \in Beyond : ~(y < x)
    BY <2>1
  <2>3. QED
    BY <2>2
<1>4. Cardinality({j \in Beyond : j < x}) < PageSize
  <2>1. Cardinality({j \in Beyond : j < x}) = 0
    BY <1>3, FS_EmptySet, Zenon
  <2>2. 0 < PageSize
    BY ClientAssumption
  <2>3. QED
    BY <2>1, <2>2
<1>5. x \in Page
  BY <1>4 DEF Page
<1>6. QED
  BY <1>5

\* Whatever is beyond the cursor and before an issue of the page is in it too.
LEMMA PageIsPrefix ==
  ASSUME FetchOK, NEW p \in Page, NEW i \in Beyond, i <= p
  PROVE  i \in Page
<1> DEFINE before(k) == {j \in Beyond : j < k}
<1>1. p \in Nat /\ i \in Nat /\ Beyond \subseteq Nat
  BY ClientAssumption DEF Page, Beyond, Issue
<1>2. before(i) \subseteq before(p)
  <2>1. \A j \in Beyond : j < i => j < p
    BY <1>1
  <2>2. QED
    BY <2>1
<1>3. before(i) \in SUBSET Beyond /\ before(p) \in SUBSET Beyond
  OBVIOUS
<1>4. Cardinality(before(i)) <= Cardinality(before(p))
  BY <1>2, <1>3, BeyondFinite, FS_Subset
<1>5. Cardinality(before(p)) < PageSize
  BY DEF Page
<1>6. Cardinality(before(i)) < PageSize
  <2>1. Cardinality(before(i)) \in Nat /\ Cardinality(before(p)) \in Nat /\ PageSize \in Nat
    BY <1>3, BeyondFinite, ClientAssumption
  <2> HIDE DEF before
  <2>2. QED
    BY <1>4, <1>5, <2>1
<1>7. QED
  BY <1>6 DEF Page

\* The cursor of the next page: all of this page is at or before it, and it is
\* in the page.
LEMMA CursorMoves ==
  ASSUME FetchOK, Page # {}
  PROVE  EndCursor \in Page /\ \A i \in Page : i <= EndCursor
<1> DEFINE T == Page \cup {0}
<1>1. T \in SUBSET (0..Issues) /\ T # {} /\ Issues \in Nat
  BY ClientAssumption DEF Page, Beyond, Issue
<1>2. Max(T) \in T /\ \A y \in T : y <= Max(T)
  BY <1>1, GreatestElement
<1>3. \A i \in Page : i > 0
  BY ClientAssumption DEF Page, Beyond, Issue
<1>4. EndCursor = Max(T)
  BY DEF EndCursor, LastOf
<1> HIDE DEF T
<1>5. PICK i \in Page : i \in T
  BY DEF T
<1>6. i > 0 /\ i <= Max(T) /\ Max(T) \in 0..Issues /\ i \in 0..Issues
  BY <1>1, <1>2, <1>3, <1>5
<1>7. Max(T) # 0
  BY <1>1, <1>6
<1>8. Max(T) \in Page
  BY <1>2, <1>7 DEF T
<1>9. QED
  BY <1>2, <1>4, <1>8 DEF T
-----------------------------------------------------------------------------
(* The lock. *)

LEMMA JoinLock ==
  ASSUME LockOK, NEW c \in Caller, ~InTransition(c), MoveTo(c, "lock"), queue' = Append(queue, c)
  PROVE  LockOK'
<1>1. c \notin ToSet(queue)
  BY DEF LockOK, InTransition
<1>2. /\ queue' \in Seq(Caller) /\ IsInjective(queue')
      /\ ToSet(queue') = ToSet(queue) \cup {c}
      /\ queue # <<>> => Head(queue') = Head(queue)
  BY <1>1, Joined DEF LockOK
<1>3. \A d \in Caller : at[d] = "query" => queue # <<>>
  BY DEF LockOK, ToSet
<1>4. QED
  BY <1>1, <1>2, <1>3 DEF LockOK, MoveTo

LEMMA LeaveLock ==
  ASSUME LockOK, NEW c \in Caller, Leave(c),
         NEW place \in {"idle", "update"}, MoveTo(c, place)
  PROVE  LockOK'
<1>1. PICK k \in DOMAIN queue : queue[k] = c /\ queue' = RemoveAt(queue, k)
  BY DEF Leave
<1>2. /\ queue' \in Seq(Caller) /\ IsInjective(queue')
      /\ ToSet(queue') = ToSet(queue) \ {c}
      /\ Head(queue) # c => Head(queue') = Head(queue)
  BY <1>1, Left DEF LockOK
<1>3. QED
  BY <1>2 DEF LockOK, MoveTo

\* A call outside the lock goes on without it.
LEMMA StayOutside ==
  ASSUME LockOK, NEW c \in Caller, at[c] \notin {"lock", "query"}, UNCHANGED queue,
         NEW place \in {"idle", "update", "moved", "refused", "done"}, MoveTo(c, place)
  PROVE  LockOK'
BY DEF LockOK, MoveTo

LEMMA OneQuery ==
  ASSUME LockOK, NEW c \in Caller, at[c] = "query", NEW d \in Caller, at[d] = "query"
  PROVE  c = d
BY DEF LockOK

LEMMA LockStep ==
  ASSUME LockOK, [Next]_vars
  PROVE  LockOK'
<1>1. ASSUME NEW c \in Caller, NEW i \in Issue, NEW name \in Name, Transition(c, i, name)
      PROVE  LockOK'
  <2>1. CASE MoveTo(c, "update") /\ UNCHANGED queue
    BY <1>1, <2>1, StayOutside DEF Transition
  <2>2. CASE MoveTo(c, "lock") /\ queue' = Append(queue, c)
    BY <1>1, <2>2, JoinLock DEF Transition, InTransition
  <2>3. QED
    BY <1>1, <2>1, <2>2 DEF Transition
<1>2. ASSUME NEW c \in Caller, LockAcquired(c) PROVE LockOK'
  <2>1. CASE MoveTo(c, "update") /\ Leave(c)
    BY <2>1, LeaveLock
  <2>2. CASE MoveTo(c, "query") /\ UNCHANGED queue
    BY <1>2, <2>2 DEF LockAcquired, LockOK, MoveTo
  <2>3. QED
    BY <1>2, <2>1, <2>2 DEF LockAcquired, UseIdOf
<1>3. ASSUME NEW c \in Caller, StatesArrive(c) PROVE LockOK'
  BY <1>3, LeaveLock DEF StatesArrive, UseIdOf, Raise
<1>4. ASSUME NEW c \in Caller, QueryFails(c) PROVE LockOK'
  BY <1>4, LeaveLock DEF QueryFails, Raise
<1>5. ASSUME NEW c \in Caller, UpdateArrives(c) PROVE LockOK'
  BY <1>5, StayOutside DEF UpdateArrives
<1>6. ASSUME NEW c \in Caller, UpdateAnswered(c) PROVE LockOK'
  BY <1>6, StayOutside DEF UpdateAnswered
<1>7. ASSUME NEW c \in Caller, UpdateFails(c) PROVE LockOK'
  BY <1>7, StayOutside DEF UpdateFails, Raise
<1>8. ASSUME NEW c \in Caller, Cancel(c) PROVE LockOK'
  BY <1>8, LeaveLock, StayOutside DEF Cancel, Raise
<1>9. ASSUME UNCHANGED calls PROVE LockOK'
  BY <1>9 DEF calls, LockOK
<1>10. QED
  BY <1>1, <1>2, <1>3, <1>4, <1>5, <1>6, <1>7, <1>8, <1>9
  DEF Next, StartFetch, PageArrives, PageFails, UserMoves, ChangeStates, vars

-----------------------------------------------------------------------------
(* What the calls know. *)

LEMMA CallsStep ==
  ASSUME LockOK, CallsOK, LinearOK, [Next]_vars
  PROVE  CallsOK'
<1> USE DEF InTransition, LockOK, CallsOK, MoveTo
<1>0. NoCall \in Calls \cup {NoCall}
  OBVIOUS
<1>1. ASSUME NEW c \in Caller, NEW i \in Issue, NEW name \in Name, Transition(c, i, name)
      PROVE  CallsOK'
  BY <1>1 DEF Transition, Calls, Cached
<1>2. ASSUME NEW c \in Caller, LockAcquired(c) PROVE CallsOK'
  BY <1>2 DEF LockAcquired, UseIdOf, Recheck, Cached, Calls
<1>3. ASSUME NEW c \in Caller, StatesArrive(c) PROVE CallsOK'
  <2> DEFINE t == team[call[c].issue]
  <2>1. call[c] \in Calls /\ t \in Team /\ at[c] = "query"
    BY <1>3, ClientAssumption DEF StatesArrive, Calls, Issue
  <2>2. cache' \in [Team -> SUBSET Name]
    BY <1>3, <2>1 DEF StatesArrive, LinearOK
  <2>3. \A d \in Caller : at'[d] # "query"
    BY <1>3, <2>1, OneQuery DEF StatesArrive, UseIdOf, Raise
  <2>4. CASE UseIdOf(c, t)
    <3>1. call' \in [Caller -> Calls \cup {NoCall}] /\ call'[c] \in Calls
      <4>1. [call[c] EXCEPT !.team = t] \in Calls
        BY <2>1 DEF Calls
      <4>2. call' = [call EXCEPT ![c] = [call[c] EXCEPT !.team = t]]
        BY <2>4 DEF UseIdOf
      <4>3. QED
        BY <4>1, <4>2
    <3>2. QED
      BY <2>2, <2>3, <2>4, <3>1 DEF UseIdOf
  <2>5. CASE Raise(c)
    BY <2>2, <2>3, <2>5 DEF Raise, Forget
  <2>6. QED
    BY <1>3, <2>4, <2>5 DEF StatesArrive
<1>4. ASSUME NEW c \in Caller, QueryFails(c) PROVE CallsOK'
  BY <1>4 DEF QueryFails, Raise, Forget, Cached
<1>5. ASSUME NEW c \in Caller, UpdateArrives(c) PROVE CallsOK'
  BY <1>5 DEF UpdateArrives, Cached
<1>6. ASSUME NEW c \in Caller, UpdateAnswered(c) PROVE CallsOK'
  BY <1>6 DEF UpdateAnswered, Forget, Cached
<1>7. ASSUME NEW c \in Caller, UpdateFails(c) PROVE CallsOK'
  BY <1>7 DEF UpdateFails, Raise, Forget, Cached
<1>8. ASSUME NEW c \in Caller, Cancel(c) PROVE CallsOK'
  BY <1>8 DEF Cancel, Raise, Forget, Cached
<1>9. ASSUME UNCHANGED calls PROVE CallsOK'
  BY <1>9 DEF calls, Cached
<1>10. QED
  BY <1>1, <1>2, <1>3, <1>4, <1>5, <1>6, <1>7, <1>8, <1>9
  DEF Next, StartFetch, PageArrives, PageFails, UserMoves, ChangeStates, vars

-----------------------------------------------------------------------------
(* The fetch. *)

\* Issue i moves to another state while the fetch runs or does not.
LEMMA Moved ==
  ASSUME LinearOK, FetchOK, NEW i \in Issue, NEW name \in Name,
         state' = [state EXCEPT ![i] = name], UNCHANGED states,
         fetch' = [fetch EXCEPT !.kept = {j \in @ : state'[j] \in Active}]
  PROVE  LinearOK' /\ FetchOK'
<1>1. LinearOK'
  BY DEF LinearOK
<1>2. /\ fetch'.at = fetch.at /\ fetch'.after = fetch.after /\ fetch'.found = fetch.found
      /\ fetch'.again = fetch.again /\ fetch'.kept = {j \in fetch.kept : state'[j] \in Active}
      /\ fetch' \in Fetches
  BY DEF FetchOK, Fetches
<1>3. \A j \in fetch'.kept : j \in fetch.kept /\ state'[j] \in Active
  BY <1>2
<1>4. QED
  BY <1>1, <1>2, <1>3 DEF FetchOK, ReadUpToCursor, FetchComplete, IsActive

LEMMA PageStep ==
  ASSUME LinearOK, FetchOK, PageArrives
  PROVE  FetchOK'
<1> DEFINE found == fetch.found \cup Page
<1>0. /\ fetch \in Fetches /\ fetch.at = "page" /\ ~fetch.again
      /\ \A i \in fetch.kept : i \in Issue /\ IsActive(i)
      /\ fetch.found \subseteq 1..fetch.after
      /\ \A i \in fetch.kept : i <= fetch.after => i \in fetch.found
      /\ fetch.after \in 0..Issues
  BY DEF FetchOK, PageArrives, ReadUpToCursor, Fetches
<1>1. Page \subseteq Beyond /\ Beyond \subseteq Issue /\ \A i \in Beyond : i > fetch.after
  BY DEF Page, Beyond
<1>2. Issue = 1..Issues /\ Issues \in Nat
  BY ClientAssumption DEF Issue
<1>3. fetch.found \cap Page = {}
  BY <1>0, <1>1, <1>2
<1>4. \A i \in fetch.kept : i > fetch.after => i \in Beyond
  BY <1>0 DEF Beyond
<1>5. found \in SUBSET Issue
  BY <1>0, <1>1 DEF Fetches
<1>6. UNCHANGED state
  BY DEF PageArrives, linear
<1>7. CASE Page = Beyond
  <2>1. fetch' = [fetch EXCEPT !.at = "returned", !.found = found, !.again = FALSE]
    BY <1>0, <1>3, <1>7 DEF PageArrives
  <2>2. fetch.kept \subseteq found
    BY <1>0, <1>2, <1>4, <1>7
  <2>3. /\ fetch' \in Fetches /\ fetch'.at = "returned" /\ fetch'.kept = fetch.kept
        /\ fetch'.found = found /\ ~fetch'.again
    BY <1>0, <1>5, <2>1 DEF Fetches
  <2>4. QED
    BY <1>0, <1>6, <2>2, <2>3 DEF FetchOK, ReadUpToCursor, FetchComplete, IsActive
<1>8. CASE Page # Beyond
  <2>1. Beyond # {}
    BY <1>1, <1>8
  <2>2. EndCursor \in Page /\ \A i \in Page : i <= EndCursor
    BY <2>1, PageNotEmpty, CursorMoves
  <2>3. EndCursor \in 0..Issues /\ EndCursor > fetch.after
    BY <1>1, <1>2, <2>2
  <2>4. fetch' = [fetch EXCEPT !.at = "page", !.after = EndCursor, !.found = found, !.again = FALSE]
    BY <1>0, <1>3, <1>8 DEF PageArrives
  <2>5. /\ fetch' \in Fetches /\ fetch'.at = "page" /\ fetch'.kept = fetch.kept
        /\ fetch'.found = found /\ ~fetch'.again /\ fetch'.after = EndCursor
    BY <1>0, <1>5, <2>3, <2>4 DEF Fetches
  <2>6. ASSUME NEW i \in found PROVE i \in 1..EndCursor
    <3>1. CASE i \in fetch.found
      BY <1>0, <1>2, <2>3, <3>1
    <3>2. CASE i \in Page
      <4>1. i \in 1..Issues /\ i <= EndCursor
        BY <1>1, <1>2, <2>2, <3>2
      <4>2. QED
        BY <1>2, <2>3, <4>1
    <3>3. QED
      BY <3>1, <3>2
  <2>7. ASSUME NEW i \in fetch.kept, i <= EndCursor PROVE i \in found
    <3>1. CASE i <= fetch.after
      BY <1>0, <3>1
    <3>2. CASE i > fetch.after
      BY <1>4, <2>2, <2>7, <3>2, PageIsPrefix
    <3>3. QED
      BY <1>0, <1>2, <3>1, <3>2
  <2>8. QED
    BY <1>0, <1>6, <2>5, <2>6, <2>7 DEF FetchOK, ReadUpToCursor, FetchComplete, IsActive
<1>9. QED
  BY <1>7, <1>8

LEMMA FetchStep ==
  ASSUME CallsOK, LinearOK, FetchOK, [Next]_vars
  PROVE  LinearOK' /\ FetchOK'
<1> DEFINE Goal == LinearOK /\ FetchOK
<1>1. ASSUME NEW c \in Caller, UpdateArrives(c) PROVE Goal'
  <2>1. call[c] \in Calls
    BY <1>1 DEF UpdateArrives, CallsOK, InTransition
  <2>2. call[c].issue \in Issue /\ call[c].name \in Name
    BY <2>1 DEF Calls
  <2>3. CASE UNCHANGED <<state, fetch>>
    BY <1>1, <2>3 DEF UpdateArrives, LinearOK, FetchOK, ReadUpToCursor, FetchComplete, IsActive
  <2>4. CASE /\ state' = [state EXCEPT ![call[c].issue] = call[c].name]
             /\ fetch' = [fetch EXCEPT !.kept = {i \in @ : state'[i] \in Active}]
    BY <1>1, <2>2, <2>4, Moved DEF UpdateArrives
  <2>5. QED
    BY <1>1, <2>3, <2>4 DEF UpdateArrives
<1>2. ASSUME NEW i \in Issue, NEW name \in Name, UserMoves(i, name) PROVE Goal'
  BY <1>2, Moved DEF UserMoves
<1>3. CASE StartFetch
  <2>1. /\ fetch' = [at |-> "page", after |-> 0, found |-> {}, again |-> FALSE,
                     kept |-> {i \in Issue : IsActive(i)}]
        /\ UNCHANGED linear
    BY <1>3 DEF StartFetch, NoFetch
  <2>2. /\ fetch' \in Fetches /\ fetch'.at = "page" /\ fetch'.found = {} /\ ~fetch'.again
        /\ fetch'.after = 0 /\ fetch'.kept = {i \in Issue : IsActive(i)}
    BY <2>1, ClientAssumption DEF Fetches
  <2>3. \A i \in fetch'.kept : i \in Issue /\ ~(i <= 0)
    BY <2>2, ClientAssumption DEF Issue
  <2>4. QED
    BY <2>1, <2>2, <2>3 DEF LinearOK, FetchOK, ReadUpToCursor, FetchComplete, IsActive, linear
<1>4. CASE PageArrives
  BY <1>4, PageStep DEF PageArrives, LinearOK, linear
<1>5. CASE PageFails
  <2>1. /\ fetch' = [fetch EXCEPT !.at = "idle"] /\ UNCHANGED linear
    BY <1>5 DEF PageFails, AfterError
  <2>2. fetch' \in Fetches /\ fetch'.at = "idle" /\ fetch'.kept = fetch.kept
    BY <2>1 DEF FetchOK, Fetches
  <2>3. QED
    BY <2>1, <2>2 DEF LinearOK, FetchOK, ReadUpToCursor, FetchComplete, IsActive, linear
<1>6. ASSUME NEW t \in Team, NEW name \in Name, ChangeStates(t, name) PROVE Goal'
  BY <1>6 DEF ChangeStates, LinearOK, FetchOK, ReadUpToCursor, FetchComplete, IsActive
<1>7. ASSUME UNCHANGED <<linear, fetch>> PROVE Goal'
  BY <1>7 DEF linear, LinearOK, FetchOK, ReadUpToCursor, FetchComplete, IsActive
<1>8. QED
  BY <1>1, <1>2, <1>3, <1>4, <1>5, <1>6, <1>7
  DEF Next, Transition, LockAcquired, StatesArrive, QueryFails, UpdateAnswered, UpdateFails,
      Cancel, vars

-----------------------------------------------------------------------------
LEMMA ClientInit == Init => IInv
<1> SUFFICES ASSUME Init PROVE IInv
  OBVIOUS
<1>1. queue \in Seq(Caller) /\ DOMAIN queue = {}
  BY DEF Init
<1>2. LockOK
  BY <1>1 DEF Init, LockOK, IsInjective, ToSet
<1>3. CallsOK /\ LinearOK
  BY DEF Init, CallsOK, LinearOK, InTransition
<1>4. FetchOK
  BY ClientAssumption
  DEF Init, FetchOK, Fetches, NoFetch, ReadUpToCursor, FetchComplete, Issue
<1>5. QED
  BY <1>2, <1>3, <1>4 DEF IInv

LEMMA ClientStep == IInv /\ [Next]_vars => IInv'
BY LockStep, CallsStep, FetchStep DEF IInv

\* The lock has one holder, StatesForIssue is asked by it alone, and only for a
\* name the cache does not have.
THEOREM CacheInvariant == Spec => []CacheInv
<1>1. IInv => CacheInv
  BY OneQuery DEF IInv, LockOK, CallsOK, LinearOK, FetchOK, Fetches, CacheInv, TypeOK,
     NoNeedlessQuery
<1>2. QED
  BY <1>1, ClientInit, ClientStep, PTL DEF Spec

\* A fetch that returns has read every issue that stayed active, none twice.
THEOREM FetchesComplete == Spec => []FetchComplete
<1>1. IInv => FetchComplete
  BY DEF IInv, FetchOK
<1>2. QED
  BY <1>1, ClientInit, ClientStep, PTL DEF Spec

-----------------------------------------------------------------------------
(* The team of an id.  A name cached for any team answers for all, but the *)
(* cache is only filled for teams that have an issue in the project.       *)

ProjectTeams == {team[i] : i \in Issue}

IdsOfProject ==
  /\ \A t \in Team : cache[t] # {} => t \in ProjectTeams
  /\ \A c \in Caller : at[c] = "update" => call[c].team \in ProjectTeams

LEMMA IdsStep ==
  ASSUME IInv, IdsOfProject, [Next]_vars
  PROVE  IdsOfProject'
<1> USE DEF IInv, LockOK, CallsOK, IdsOfProject, MoveTo
<1>0. \A name : \A t \in Cached(name) : t \in ProjectTeams
  BY DEF Cached
<1>1. ASSUME NEW c \in Caller, NEW i \in Issue, NEW name \in Name, Transition(c, i, name)
      PROVE  IdsOfProject'
  BY <1>0, <1>1 DEF Transition
<1>2. ASSUME NEW c \in Caller, UNCHANGED cache, NEW t \in ProjectTeams, UseIdOf(c, t)
      PROVE  IdsOfProject'
  <2>1. call[c] \in Calls \cup {NoCall}
    OBVIOUS
  <2>2. [call[c] EXCEPT !.team = t].team = t
    BY <2>1 DEF Calls, NoCall
  <2>3. QED
    BY <1>2, <2>2 DEF UseIdOf
<1>3. ASSUME NEW c \in Caller, LockAcquired(c) PROVE IdsOfProject'
  BY <1>0, <1>2, <1>3 DEF LockAcquired, Recheck
<1>4. ASSUME NEW c \in Caller, StatesArrive(c) PROVE IdsOfProject'
  <2> DEFINE t == team[call[c].issue]
  <2>1. t \in ProjectTeams
    BY <1>4 DEF StatesArrive, InTransition, Calls, ProjectTeams
  <2>2. \A u \in Team : cache'[u] # {} => u \in ProjectTeams
    BY <1>4, <2>1 DEF StatesArrive
  <2>3. \A d \in Caller : at'[d] = "update" => call'[d].team \in ProjectTeams
    <3>1. CASE UseIdOf(c, t)
      <4>1. [call[c] EXCEPT !.team = t].team = t
        BY DEF Calls, NoCall
      <4>2. QED
        BY <2>1, <3>1, <4>1 DEF UseIdOf
    <3>2. CASE Raise(c)
      BY <3>2 DEF Raise, Forget
    <3>3. QED
      BY <1>4, <3>1, <3>2 DEF StatesArrive
  <2>4. QED
    BY <2>2, <2>3
<1>5. ASSUME NEW c \in Caller,
             \/ QueryFails(c) \/ UpdateArrives(c) \/ UpdateAnswered(c)
             \/ UpdateFails(c) \/ Cancel(c)
      PROVE  IdsOfProject'
  BY <1>5 DEF QueryFails, UpdateArrives, UpdateAnswered, UpdateFails, Cancel, Raise, Forget
<1>6. ASSUME UNCHANGED calls PROVE IdsOfProject'
  BY <1>6 DEF calls
<1>7. QED
  BY <1>1, <1>3, <1>4, <1>5, <1>6
  DEF Next, StartFetch, PageArrives, PageFails, UserMoves, ChangeStates, vars

\* As long as the issues of the project are all of one team, the id that
\* _resolve_state_id returns is a state of the issue's team, as its docstring
\* says: only a second team breaks OwnTeam.
THEOREM OneTeamResolves ==
  ASSUME \A i, j \in Issue : team[i] = team[j]
  PROVE  Spec => []OwnTeam
<1>1. Init => IdsOfProject
  BY DEF Init, IdsOfProject
<1>2. IInv /\ IdsOfProject => OwnTeam
  <2> SUFFICES ASSUME IInv, IdsOfProject, NEW c \in Caller, at[c] = "update"
               PROVE  call[c].team = team[call[c].issue]
    BY DEF OwnTeam
  <2>1. call[c].issue \in Issue
    BY DEF IInv, CallsOK, InTransition, Calls
  <2>2. PICK i \in Issue : call[c].team = team[i]
    BY DEF IdsOfProject, ProjectTeams
  <2>3. QED
    BY <2>1, <2>2
<1>3. QED
  BY <1>1, <1>2, ClientInit, ClientStep, IdsStep, PTL DEF Spec
=============================================================================
