----------------------------- MODULE Workspace -----------------------------
(***************************************************************************)
(* workspace/manager.py for one issue identifier: tasks that call          *)
(* ensure_for_issue and cleanup_for_issue, the asyncio.Lock they share,    *)
(* the directory, and the git and hook processes that work in it.          *)
(* Identifiers do not interact: each has its lock and its directory.       *)
(*                                                                         *)
(* A caller is suspended where at says; queue is the lock's FIFO, its head *)
(* the holder.  A process whose caller is gone goes on by itself.          *)
(***************************************************************************)
EXTENDS Naturals, Sequences, SequencesExt

CONSTANT Caller  \* tasks: worker attempts, the gate, cleanups

VARIABLES
  settings, \* workspace.repository and hooks when the manager was built
  at,       \* [Caller -> where the task is]
  queue,    \* the holder of the lock and those who wait for it
  dir,      \* the directory: populated is before after_create has succeeded
  orphans,  \* processes that prepare the directory for nobody
  damaged   \* history: preparing or removing this directory was cut short

vars == <<settings, at, queue, dir, orphans, damaged>>

Settings == [repository : BOOLEAN, hooks : SUBSET {"after_create", "before_remove"}]

Waiting == {"ensure", "cleanup"}
Holding == {"clone", "after_create", "before_remove"}
Preparing == {"clone", "after_create"}

TypeOK ==
  /\ settings \in Settings
  /\ at \in [Caller -> {"idle", "using"} \cup Waiting \cup Holding]
  /\ queue \in Seq(Caller) /\ IsInjective(queue)
  /\ \A c \in Caller : c \in ToSet(queue) <=> at[c] \in Waiting \cup Holding
  /\ \A c \in Caller : at[c] \in Holding => Head(queue) = c
  /\ dir \in {"absent", "partial", "populated", "ready"}
  /\ orphans \subseteq Preparing /\ damaged \in BOOLEAN

-----------------------------------------------------------------------------
\* async with the lock: FIFO.  Slip: no lock.
NoLock(c) == TRUE
HasLock(c) == Head(queue) = c

MoveTo(c, place) == at' = [at EXCEPT ![c] = place]

\* The end of the with block, or of the wait for it.  Slip: the lock is kept.
LeaveLocked(c, place) == MoveTo(c, place) /\ UNCHANGED queue
Leave(c, place) ==
  /\ MoveTo(c, place)
  /\ \E k \in DOMAIN queue : queue[k] = c /\ queue' = RemoveAt(queue, k)

\* A task is idle again once it has finished with what it was given.
Call(c, operation) ==
  /\ at[c] \in {"idle", "using"}
  /\ MoveTo(c, operation) /\ queue' = Append(queue, c)
  /\ UNCHANGED <<settings, dir, orphans, damaged>>
StopUsing(c) ==
  /\ at[c] = "using" /\ MoveTo(c, "idle")
  /\ UNCHANGED <<settings, queue, dir, orphans, damaged>>

-----------------------------------------------------------------------------
(* ensure_for_issue *)

EnsureExisting(c) ==
  /\ at[c] = "ensure" /\ HasLock(c) /\ dir # "absent"
  /\ Leave(c, "using") /\ UNCHANGED <<settings, dir, orphans, damaged>>

\* _maybe_run_after_create, once the directory is populated.
RunAfterCreate(c) ==
  \/ /\ "after_create" \in settings.hooks /\ dir' = "populated"
     /\ MoveTo(c, "after_create") /\ UNCHANGED queue
  \/ "after_create" \notin settings.hooks /\ dir' = "ready" /\ Leave(c, "using")

\* The lock is ours and there is no directory: mkdir, or git clone, which makes
\* the directory as it goes.
EnsureNew(c) ==
  /\ at[c] = "ensure" /\ HasLock(c) /\ dir = "absent"
  /\ damaged' = (orphans # {})
  /\ \/ settings.repository /\ MoveTo(c, "clone") /\ UNCHANGED <<queue, dir>>
     \/ ~settings.repository /\ RunAfterCreate(c)
  /\ UNCHANGED <<settings, orphans>>

\* except Exception in ensure_for_issue: rmtree, which may leave a remainder it
\* does not report.  Slip: nothing is removed.
UnwindNothing == UNCHANGED <<dir, damaged>>
Unwind ==
  \/ dir' = "absent" /\ UNCHANGED damaged
  \/ dir # "absent" /\ dir' = "partial" /\ damaged' = TRUE

CloneEnds(c) ==
  /\ at[c] = "clone"
  /\ \/ dir = "partial" /\ RunAfterCreate(c) /\ UNCHANGED damaged
     \/ Unwind /\ Leave(c, "idle")
  /\ UNCHANGED <<settings, orphans>>

\* run_hook returns, or kills the script after its timeout.
AfterCreateEnds(c) ==
  /\ at[c] = "after_create"
  /\ \/ dir' = "ready" /\ Leave(c, "using") /\ UNCHANGED damaged
     \/ Unwind /\ Leave(c, "idle")
  /\ UNCHANGED <<settings, orphans>>

-----------------------------------------------------------------------------
(* cleanup_for_issue *)

\* rmtree(ignore_errors=False): an error leaves the rest of the tree.
RemoveTree(c) ==
  /\ Leave(c, "idle")
  /\ \/ dir' = "absent" /\ UNCHANGED damaged
     \/ dir # "absent" /\ dir' = "partial" /\ damaged' = TRUE

CleanUp(c) ==
  /\ at[c] = "cleanup" /\ HasLock(c)
  /\ \/ dir = "absent" /\ Leave(c, "idle") /\ UNCHANGED <<dir, damaged>>
     \/ /\ dir # "absent" /\ "before_remove" \in settings.hooks
        /\ MoveTo(c, "before_remove") /\ UNCHANGED <<queue, dir, damaged>>
     \/ dir # "absent" /\ "before_remove" \notin settings.hooks /\ RemoveTree(c)
  /\ UNCHANGED <<settings, orphans>>

\* Whatever before_remove returned; an exception of run_hook itself, as when the
\* shell cannot be started, leaves cleanup_for_issue with the tree untouched.
BeforeRemoveEnds(c) ==
  /\ at[c] = "before_remove"
  /\ RemoveTree(c) \/ (Leave(c, "idle") /\ UNCHANGED <<dir, damaged>>)
  /\ UNCHANGED <<settings, orphans>>

-----------------------------------------------------------------------------
(* Cancellation, the end of the program, and processes. *)

\* CancelledError is no Exception: nothing is unwound and nobody ends the
\* process.
CancelEnsure(c) ==
  /\ at[c] \in {"ensure"} \cup Preparing
  /\ Leave(c, "idle")
  /\ orphans' = orphans \cup ({at[c]} \cap Preparing)
  /\ damaged' = (damaged \/ at[c] \in Preparing)
  /\ UNCHANGED <<settings, dir>>

\* The program stops, at once or by cancelling everything, and starts again.
Restart ==
  LET begun == {at[c] : c \in Caller} \cap Preparing IN
  /\ at' = [c \in Caller |-> "idle"] /\ queue' = <<>>
  /\ orphans' = orphans \cup begun /\ damaged' = (damaged \/ begun # {})
  /\ UNCHANGED <<settings, dir>>

Cloning == "clone" \in orphans \/ \E c \in Caller : at[c] = "clone"
GitMakesDirectory ==
  /\ Cloning /\ dir = "absent" /\ dir' = "partial"
  /\ UNCHANGED <<settings, at, queue, orphans, damaged>>

\* git removes what it made when it fails; a hook may fail half-way.
OrphanEnds(p) ==
  /\ p \in orphans /\ orphans' = orphans \ {p}
  /\ \/ UNCHANGED dir
     \/ p = "clone" /\ dir = "partial"
        /\ dir' = IF "after_create" \in settings.hooks THEN "populated" ELSE "ready"
     \/ p = "clone" /\ dir' = "absent"
     \/ p = "after_create" /\ dir = "populated" /\ dir' = "ready"
  /\ UNCHANGED <<settings, at, queue, damaged>>

-----------------------------------------------------------------------------
Init ==
  /\ settings \in Settings
  /\ at = [c \in Caller |-> "idle"] /\ queue = <<>> /\ dir = "absent"
  /\ orphans = {} /\ damaged = FALSE

Manager(c) ==
  \/ EnsureExisting(c) \/ EnsureNew(c) \/ CloneEnds(c) \/ AfterCreateEnds(c)
  \/ CleanUp(c) \/ BeforeRemoveEnds(c)

Next ==
  \/ \E c \in Caller :
       \/ Call(c, "ensure") \/ Call(c, "cleanup") \/ StopUsing(c) \/ CancelEnsure(c)
       \/ EnsureExisting(c) \/ EnsureNew(c) \/ CloneEnds(c) \/ AfterCreateEnds(c)
       \/ CleanUp(c) \/ BeforeRemoveEnds(c)
  \/ Restart \/ GitMakesDirectory
  \/ \E p \in Preparing : OrphanEnds(p)

Spec == Init /\ [][Next]_vars

\* Hooks have a timeout, git clone is assumed to end, and the lock wakes the
\* first waiter.  Nobody is obliged to call, cancel or restart.
FairSpec == Spec /\ \A c \in Caller : WF_vars(Manager(c))

-----------------------------------------------------------------------------
(* Properties. *)

\* ensure_for_issue returns a workspace that is prepared, after_create
\* included, however callers interleave and fail, unless a preparation or a
\* removal of it was cut short before.
Returns(c) == at[c] # "using" /\ at'[c] = "using"
PreparedWhenReturned ==
  [][\A c \in Caller : Returns(c) => dir' = "ready" \/ damaged']_vars

\* A prepared workspace is taken away by a cleanup only: no other caller's
\* failure unwinds what somebody was given.
ReadyUntilCleaned ==
  [][dir = "ready" /\ dir' # "ready" /\ ~damaged =>
       \E c \in Caller : at[c] \in {"cleanup", "before_remove"} /\ HasLock(c)]_vars

\* While a workspace is prepared, no process still prepares it: after_create
\* runs once.
PreparedOnce ==
  dir = "ready" /\ ~damaged => \A c \in Caller : at[c] \notin Preparing

\* What holds of every state: the types, who has the lock, and one preparation.
SharingInv == TypeOK /\ PreparedOnce

\* Every call comes back, whoever fails or is cancelled inside the lock.
CallsReturn ==
  \A c \in Caller : at[c] \in Waiting ~> at[c] \in {"idle", "using"}
=============================================================================
