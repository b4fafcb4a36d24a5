-------------------------- MODULE Workspace_proofs --------------------------
(***************************************************************************)
(* Theorems about the workspace manager, for every set of callers and any  *)
(* number of cancellations, failures and restarts.                         *)
(*                                                                         *)
(* SharingInv is not inductive.  It also takes that a process nobody waits *)
(* for makes the directory a damaged one, and how far the directory is     *)
(* while one caller prepares it, and while none does.                      *)
(***************************************************************************)
EXTENDS Workspace, LockQueue_proofs

OrphansDamage == orphans # {} => damaged

Settled == \A c \in Caller : at[c] \notin Preparing

DirectoryAsFarAsCaller ==
  ~damaged =>
    /\ \A c \in Caller : at[c] = "clone" => dir \in {"absent", "partial"}
    /\ \A c \in Caller : at[c] = "after_create" => dir = "populated"
    /\ Settled => dir \in {"absent", "ready"}

IInv == TypeOK /\ OrphansDamage /\ DirectoryAsFarAsCaller

-----------------------------------------------------------------------------
\* The queue and the places of the callers as the lock keeps them.
LockOK ==
  /\ at \in [Caller -> {"idle", "using"} \cup Waiting \cup Holding]
  /\ queue \in Seq(Caller) /\ IsInjective(queue)
  /\ \A c \in Caller : c \in ToSet(queue) <=> at[c] \in Waiting \cup Holding
  /\ \A c \in Caller : at[c] \in Holding => Head(queue) = c

LEMMA OneHolder ==
  ASSUME LockOK, NEW c \in Caller, HasLock(c), NEW d \in Caller, at[d] \in Holding
  PROVE  c = d
BY DEF LockOK, HasLock

\* The three ways a caller moves: behind the lock, out of it, and inside it.
LEMMA CallLock ==
  ASSUME LockOK, NEW c \in Caller, NEW operation \in Waiting, Call(c, operation)
  PROVE  LockOK'
<1>1. c \notin ToSet(queue)
  BY DEF LockOK, Call, Waiting, Holding
<1>2. /\ queue' \in Seq(Caller) /\ IsInjective(queue')
      /\ ToSet(queue') = ToSet(queue) \cup {c}
      /\ queue # <<>> => Head(queue') = Head(queue)
  BY <1>1, Joined DEF LockOK, Call
<1>3. \A d \in Caller : at[d] \in Holding => queue # <<>>
  BY DEF LockOK, ToSet
<1>4. QED
  BY <1>1, <1>2, <1>3 DEF LockOK, Call, MoveTo, Waiting, Holding

LEMMA LeaveLock ==
  ASSUME LockOK, NEW c \in Caller, NEW place \in {"idle", "using"}, Leave(c, place)
  PROVE  LockOK'
<1>1. PICK k \in DOMAIN queue : queue[k] = c /\ queue' = RemoveAt(queue, k)
  BY DEF Leave
<1>2. /\ queue' \in Seq(Caller) /\ IsInjective(queue')
      /\ ToSet(queue') = ToSet(queue) \ {c}
      /\ Head(queue) # c => Head(queue') = Head(queue)
  BY <1>1, Left DEF LockOK
<1>3. QED
  BY <1>2 DEF LockOK, Leave, MoveTo, Waiting, Holding

LEMMA MoveLock ==
  ASSUME LockOK, NEW c \in Caller, c \in ToSet(queue), HasLock(c),
         NEW place \in Holding, MoveTo(c, place), UNCHANGED queue
  PROVE  LockOK'
BY DEF LockOK, HasLock, MoveTo, Waiting, Holding

\* Everything but the lock.
RestOK ==
  /\ settings \in Settings /\ dir \in {"absent", "partial", "populated", "ready"}
  /\ orphans \subseteq Preparing /\ damaged \in BOOLEAN

LEMMA TypeParts == TypeOK <=> LockOK /\ RestOK
BY DEF TypeOK, LockOK, RestOK

LEMMA Queued ==
  ASSUME LockOK, NEW c \in Caller, at[c] \in Waiting \cup Holding
  PROVE  c \in ToSet(queue) /\ (at[c] \in Holding => HasLock(c))
BY DEF LockOK, HasLock

LEMMA SharingInit == Init => IInv
<1> SUFFICES ASSUME Init PROVE IInv
  OBVIOUS
<1>1. queue \in Seq(Caller) /\ DOMAIN queue = {}
  BY DEF Init
<1>2. LockOK
  BY <1>1 DEF Init, LockOK, IsInjective, ToSet, Waiting, Holding
<1>3. RestOK /\ OrphansDamage /\ DirectoryAsFarAsCaller
  BY DEF Init, RestOK, OrphansDamage, DirectoryAsFarAsCaller
<1>4. QED
  BY <1>2, <1>3, TypeParts DEF IInv

\* Each of the manager's steps leaves the lock in order.
LEMMA LockStep ==
  ASSUME LockOK, [Next]_vars
  PROVE  LockOK'
<1>1. ASSUME NEW c \in Caller, Call(c, "ensure") \/ Call(c, "cleanup") PROVE LockOK'
  BY <1>1, CallLock DEF Waiting
<1>2. ASSUME NEW c \in Caller, StopUsing(c) PROVE LockOK'
  BY <1>2 DEF StopUsing, MoveTo, LockOK, Waiting, Holding
<1>3. ASSUME NEW c \in Caller, CancelEnsure(c) PROVE LockOK'
  BY <1>3, LeaveLock DEF CancelEnsure
<1>4. ASSUME NEW c \in Caller, EnsureExisting(c) PROVE LockOK'
  BY <1>4, LeaveLock DEF EnsureExisting
<1>5. ASSUME NEW c \in Caller, at[c] \in Waiting \cup Holding, HasLock(c), RunAfterCreate(c)
      PROVE  LockOK'
  <2>1. c \in ToSet(queue)
    BY <1>5, Queued
  <2>2. QED
    BY <1>5, <2>1, LeaveLock, MoveLock DEF RunAfterCreate, Holding
<1>6. ASSUME NEW c \in Caller, EnsureNew(c) PROVE LockOK'
  <2>1. at[c] \in Waiting /\ HasLock(c) /\ c \in ToSet(queue)
    BY <1>6, Queued DEF EnsureNew, Waiting
  <2>2. CASE RunAfterCreate(c)
    BY <1>5, <2>1, <2>2
  <2>3. CASE MoveTo(c, "clone") /\ UNCHANGED queue
    BY <2>1, <2>3, MoveLock DEF Holding
  <2>4. QED
    BY <1>6, <2>2, <2>3 DEF EnsureNew
<1>7. ASSUME NEW c \in Caller, CloneEnds(c) PROVE LockOK'
  <2>1. at[c] \in Holding /\ HasLock(c)
    BY <1>7, Queued DEF CloneEnds, Holding
  <2>2. QED
    BY <1>5, <1>7, <2>1, LeaveLock DEF CloneEnds
<1>8. ASSUME NEW c \in Caller, AfterCreateEnds(c) PROVE LockOK'
  BY <1>8, LeaveLock DEF AfterCreateEnds
<1>9. ASSUME NEW c \in Caller, CleanUp(c) PROVE LockOK'
  <2>1. at[c] \in Waiting /\ HasLock(c) /\ c \in ToSet(queue)
    BY <1>9, Queued DEF CleanUp, Waiting
  <2>2. QED
    BY <1>9, <2>1, LeaveLock, MoveLock DEF CleanUp, RemoveTree, Holding
<1>10. ASSUME NEW c \in Caller, BeforeRemoveEnds(c) PROVE LockOK'
  BY <1>10, LeaveLock DEF BeforeRemoveEnds, RemoveTree
<1>11. CASE Restart
  <2>1. queue' \in Seq(Caller) /\ DOMAIN queue' = {}
    BY <1>11 DEF Restart
  <2>2. QED
    BY <1>11, <2>1 DEF Restart, LockOK, IsInjective, ToSet, Waiting, Holding
<1>12. CASE GitMakesDirectory \/ (\E p \in Preparing : OrphanEnds(p)) \/ UNCHANGED vars
  BY <1>12 DEF GitMakesDirectory, OrphanEnds, vars, LockOK
<1>13. QED
  BY <1>1, <1>2, <1>3, <1>4, <1>6, <1>7, <1>8, <1>9, <1>10, <1>11, <1>12 DEF Next

\* No step leaves the directory behind, or ahead of, the caller that holds the
\* lock, unless it marks it damaged.
LEMMA DirectoryStep ==
  ASSUME IInv, [Next]_vars
  PROVE  RestOK' /\ OrphansDamage' /\ DirectoryAsFarAsCaller'
<1> DEFINE Goal == RestOK /\ OrphansDamage /\ DirectoryAsFarAsCaller
<1>0. LockOK /\ RestOK /\ OrphansDamage /\ DirectoryAsFarAsCaller
  BY TypeParts DEF IInv
<1> USE <1>0 DEF RestOK, OrphansDamage, DirectoryAsFarAsCaller, Settled, Preparing
<1>a. \A c \in Caller : HasLock(c) => \A d \in Caller \ {c} : at[d] \notin Preparing
  BY OneHolder DEF Holding
<1>b. \A c \in Caller : at[c] \in Preparing \cup {"before_remove"} => HasLock(c)
  BY Queued DEF Holding
<1>c. at \in [Caller -> {"idle", "using"} \cup Waiting \cup Holding]
  BY DEF LockOK
<1>1. ASSUME NEW c \in Caller, Call(c, "ensure") \/ Call(c, "cleanup") PROVE Goal'
  BY <1>1, <1>c DEF Call, MoveTo
<1>2. ASSUME NEW c \in Caller, StopUsing(c) PROVE Goal'
  BY <1>2, <1>c DEF StopUsing, MoveTo
<1>3. ASSUME NEW c \in Caller, CancelEnsure(c) PROVE Goal'
  BY <1>3, <1>c DEF CancelEnsure, Leave, MoveTo
<1>4. ASSUME NEW c \in Caller, EnsureExisting(c) PROVE Goal'
  BY <1>4, <1>a, <1>b, <1>c DEF EnsureExisting, Leave, MoveTo
<1>5. ASSUME NEW c \in Caller, EnsureNew(c) PROVE Goal'
  BY <1>5, <1>a, <1>b, <1>c DEF EnsureNew, RunAfterCreate, Leave, MoveTo
<1>6. ASSUME NEW c \in Caller, CloneEnds(c) PROVE Goal'
  BY <1>6, <1>a, <1>b, <1>c DEF CloneEnds, RunAfterCreate, Unwind, Leave, MoveTo
<1>7. ASSUME NEW c \in Caller, AfterCreateEnds(c) PROVE Goal'
  BY <1>7, <1>a, <1>b, <1>c DEF AfterCreateEnds, Unwind, Leave, MoveTo
<1>8. ASSUME NEW c \in Caller, CleanUp(c) PROVE Goal'
  <2>1. HasLock(c) /\ at[c] \notin Preparing
    BY <1>8, <1>b DEF CleanUp
  <2>2. \E place \in {"idle", "before_remove"} : MoveTo(c, place)
    BY <1>8 DEF CleanUp, RemoveTree, Leave
  <2>3. \A d \in Caller : at[d] \notin Preparing /\ at'[d] \notin Preparing
    BY <2>1, <2>2, <1>a, <1>c DEF MoveTo
  <2>4. /\ UNCHANGED <<settings, orphans>>
        /\ \/ dir' \in {dir, "absent"} /\ UNCHANGED damaged
           \/ dir' = "partial" /\ damaged' = TRUE
    BY <1>8 DEF CleanUp, RemoveTree
  <2>5. CASE dir' \in {dir, "absent"} /\ UNCHANGED damaged
    BY <2>3, <2>4, <2>5
  <2>6. CASE dir' = "partial" /\ damaged' = TRUE
    BY <2>4, <2>6
  <2>7. QED
    BY <2>4, <2>5, <2>6
<1>9. ASSUME NEW c \in Caller, BeforeRemoveEnds(c) PROVE Goal'
  <2>1. HasLock(c) /\ at[c] \notin Preparing
    BY <1>9, <1>b DEF BeforeRemoveEnds
  <2>2. \E place \in {"idle", "before_remove"} : MoveTo(c, place)
    BY <1>9 DEF BeforeRemoveEnds, RemoveTree, Leave
  <2>3. \A d \in Caller : at[d] \notin Preparing /\ at'[d] \notin Preparing
    BY <2>1, <2>2, <1>a, <1>c DEF MoveTo
  <2>4. /\ UNCHANGED <<settings, orphans>>
        /\ \/ dir' \in {dir, "absent"} /\ UNCHANGED damaged
           \/ dir' = "partial" /\ damaged' = TRUE
    BY <1>9 DEF BeforeRemoveEnds, RemoveTree
  <2>5. CASE dir' \in {dir, "absent"} /\ UNCHANGED damaged
    BY <2>3, <2>4, <2>5
  <2>6. CASE dir' = "partial" /\ damaged' = TRUE
    BY <2>4, <2>6
  <2>7. QED
    BY <2>4, <2>5, <2>6
<1>10. CASE Restart
  BY <1>10, <1>c DEF Restart
<1>11. CASE GitMakesDirectory
  BY <1>11, <1>c DEF GitMakesDirectory, Cloning
<1>12. ASSUME NEW p \in Preparing, OrphanEnds(p) PROVE Goal'
  BY <1>12 DEF OrphanEnds
<1>13. CASE UNCHANGED vars
  BY <1>13 DEF vars
<1>14. QED
  BY <1>1, <1>2, <1>3, <1>4, <1>5, <1>6, <1>7, <1>8, <1>9, <1>10, <1>11, <1>12, <1>13
  DEF Next

LEMMA SharingStep == IInv /\ [Next]_vars => IInv'
<1> SUFFICES ASSUME IInv, [Next]_vars PROVE IInv'
  OBVIOUS
<1>1. LockOK' /\ RestOK' => TypeOK'
  BY DEF TypeOK, LockOK, RestOK
<1>2. QED
  BY <1>1, LockStep, DirectoryStep, TypeParts DEF IInv

-----------------------------------------------------------------------------
\* One caller at a time is inside the lock, and a directory that is ready and
\* undamaged is prepared by nobody: after_create runs once.
THEOREM SharingInvariant == Spec => []SharingInv
<1>1. IInv => SharingInv
  BY DEF IInv, SharingInv, PreparedOnce, DirectoryAsFarAsCaller, Preparing
<1>2. QED
  BY <1>1, SharingInit, SharingStep, PTL DEF Spec

\* What ensure_for_issue returns has been prepared, after_create included,
\* unless the directory was damaged before.
THEOREM PreparedWhenGiven == Spec => PreparedWhenReturned
<1>1. ASSUME IInv, [Next]_vars, NEW c \in Caller, Returns(c) PROVE dir' = "ready" \/ damaged'
  <2> USE <1>1 DEF Returns
  <2>0. /\ at \in [Caller -> {"idle", "using"} \cup Waiting \cup Holding]
        /\ RestOK /\ OrphansDamage /\ DirectoryAsFarAsCaller
    BY TypeParts DEF IInv, LockOK
  <2>1. ASSUME NEW d \in Caller, EnsureExisting(d) PROVE dir' = "ready" \/ damaged'
    <3>1. Settled
      BY <2>0, <2>1, OneHolder, TypeParts DEF EnsureExisting, Settled, Preparing, Holding, IInv
    <3>2. QED
      BY <2>0, <2>1, <3>1 DEF EnsureExisting, DirectoryAsFarAsCaller, RestOK
  <2>2. ASSUME NEW d \in Caller, EnsureNew(d) PROVE dir' = "ready" \/ damaged'
    BY <2>0, <2>2 DEF EnsureNew, RunAfterCreate, MoveTo
  <2>3. ASSUME NEW d \in Caller, CloneEnds(d) PROVE dir' = "ready" \/ damaged'
    BY <2>0, <2>3 DEF CloneEnds, RunAfterCreate, Leave, MoveTo
  <2>4. ASSUME NEW d \in Caller, AfterCreateEnds(d) PROVE dir' = "ready" \/ damaged'
    BY <2>0, <2>4 DEF AfterCreateEnds, Leave, MoveTo
  <2>5. ASSUME NEW d \in Caller,
               Call(d, "ensure") \/ Call(d, "cleanup") \/ StopUsing(d) \/ CancelEnsure(d)
                 \/ CleanUp(d) \/ BeforeRemoveEnds(d)
        PROVE  FALSE
    BY <2>0, <2>5 DEF Call, StopUsing, CancelEnsure, CleanUp, BeforeRemoveEnds, RemoveTree,
       Leave, MoveTo
  <2>6. ~Restart /\ ~GitMakesDirectory /\ ~UNCHANGED vars /\ ~\E p \in Preparing : OrphanEnds(p)
    BY <2>0 DEF Restart, GitMakesDirectory, OrphanEnds, vars
  <2>7. QED
    BY <2>1, <2>2, <2>3, <2>4, <2>5, <2>6 DEF Next
<1>2. IInv /\ [Next]_vars => [\A c \in Caller : Returns(c) => dir' = "ready" \/ damaged']_vars
  BY <1>1
<1>3. QED
  BY <1>2, SharingInit, SharingStep, PTL DEF Spec, PreparedWhenReturned

\* What a caller was given is taken away by a cleanup that holds the lock, never
\* by the failure or the cancellation of another caller.
THEOREM NobodyElseUnwinds == Spec => ReadyUntilCleaned
<1>1. ASSUME IInv, [Next]_vars, dir = "ready", dir' # "ready", ~damaged
      PROVE  \E c \in Caller : at[c] \in {"cleanup", "before_remove"} /\ HasLock(c)
  <2> USE <1>1
  <2>1. LockOK /\ OrphansDamage /\ DirectoryAsFarAsCaller
    BY TypeParts DEF IInv
  <2>2. \A c \in Caller : at[c] \notin {"clone", "after_create"}
    BY <2>1 DEF DirectoryAsFarAsCaller
  <2>3. ASSUME NEW c \in Caller, CleanUp(c) \/ BeforeRemoveEnds(c)
        PROVE  at[c] \in {"cleanup", "before_remove"} /\ HasLock(c)
    BY <2>1, <2>3, Queued DEF CleanUp, BeforeRemoveEnds, Holding
  <2>4. ASSUME NEW c \in Caller,
               Call(c, "ensure") \/ Call(c, "cleanup") \/ StopUsing(c) \/ CancelEnsure(c)
                 \/ EnsureExisting(c) \/ EnsureNew(c) \/ CloneEnds(c) \/ AfterCreateEnds(c)
        PROVE  FALSE
    BY <2>2, <2>4 DEF Call, StopUsing, CancelEnsure, EnsureExisting, EnsureNew, CloneEnds,
       AfterCreateEnds
  <2>5. ~Restart /\ ~GitMakesDirectory /\ ~UNCHANGED vars /\ ~\E p \in Preparing : OrphanEnds(p)
    BY <2>1 DEF Restart, GitMakesDirectory, OrphanEnds, OrphansDamage, vars
  <2>6. QED
    BY <2>3, <2>4, <2>5 DEF Next
<1>2. IInv /\ [Next]_vars =>
        [dir = "ready" /\ dir' # "ready" /\ ~damaged =>
           \E c \in Caller : at[c] \in {"cleanup", "before_remove"} /\ HasLock(c)]_vars
  BY <1>1
<1>3. QED
  BY <1>2, SharingInit, SharingStep, PTL DEF Spec, ReadyUntilCleaned
=============================================================================
