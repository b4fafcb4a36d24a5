--------------------------- MODULE TrackerClient ---------------------------
(***************************************************************************)
(* tracker/client.py over linear_transport.py: workers that move issues by *)
(* state name while they share the cache of state ids and its lock, the    *)
(* dispatcher's paginated fetch of the active issues, and Linear, where    *)
(* users move issues and administrators change a team's states meanwhile.  *)
(*                                                                         *)
(* Linear lists issues in a fixed order, their number.  A state id is the  *)
(* pair of its team and its name.  Nothing retries a request: every error  *)
(* of execute, and every malformed reply, is raised to the caller.         *)
(***************************************************************************)
EXTENDS Naturals, FiniteSets, Sequences, SequencesExt, FiniteSetsExt

CONSTANTS
  Issues,    \* number of issues of the project
  Team, Name,
  team,      \* [1..Issues -> Team]: the team each issue belongs to
  Active,    \* tracker.active_states
  Caller,    \* tasks that call transition_state
  PageSize,
  None

ASSUME ClientAssumption ==
  Issues \in Nat /\ PageSize \in Nat \ {0} /\ Active \subseteq Name
  /\ team \in [1..Issues -> Team]

VARIABLES
  state,         \* Linear: of each issue
  states,        \* Linear: the names of each team's workflow states
  cache,         \* _state_id_cache: names known per team
  queue,         \* _state_cache_lock: its holder and those who wait
  at,            \* where each call of transition_state is
  call,          \* its issue and state name, and the team of its state id
  fetch          \* fetch_candidate_issues

linear == <<state, states>>
calls == <<cache, queue, at, call>>
vars == <<linear, calls, fetch>>

Issue == 1..Issues
Calls == [issue : Issue, name : Name, team : Team \cup {None}]
NoCall == [issue |-> 0, name |-> None, team |-> None]

IsActive(i) == state[i] \in Active

TypeOK ==
  /\ state \in [Issue -> Name]
  /\ states \in [Team -> SUBSET Name] /\ cache \in [Team -> SUBSET Name]
  /\ queue \in Seq(Caller) /\ IsInjective(queue)
  /\ at \in [Caller -> {"idle", "lock", "query", "update", "moved", "refused", "done"}]
  /\ \A c \in Caller : c \in ToSet(queue) <=> at[c] \in {"lock", "query"}
  /\ \A c \in Caller : call[c] \in Calls \cup {NoCall}
  /\ fetch.at \in {"idle", "page", "returned"} /\ fetch.after \in 0..Issues
  /\ fetch.found \subseteq Issue /\ fetch.kept \subseteq Issue

-----------------------------------------------------------------------------
(* transition_state *)

\* Any team's map that has the name will do, whatever team the issue is of.
\* Slip: the cache is not looked at again.
Cached(name) == {t \in Team : name \in cache[t]}
NeverCached(name) == {}
Recheck(name) == Cached(name)

MoveTo(c, place) == at' = [at EXCEPT ![c] = place]
UseIdOf(c, t) == MoveTo(c, "update") /\ call' = [call EXCEPT ![c].team = t]
Forget(c) == call' = [call EXCEPT ![c] = NoCall]
Raise(c) == MoveTo(c, "idle") /\ Forget(c)

\* The end of the async with block.  Slip: an error keeps the lock.
KeepLock(c) == UNCHANGED queue
Leave(c) == \E k \in DOMAIN queue : queue[k] = c /\ queue' = RemoveAt(queue, k)

\* The fast path, without the lock.
Transition(c, i, name) ==
  /\ at[c] \in {"idle", "done"}
  /\ \/ \E t \in Cached(name) :
          /\ MoveTo(c, "update") /\ UNCHANGED queue
          /\ call' = [call EXCEPT ![c] = [issue |-> i, name |-> name, team |-> t]]
     \/ /\ Cached(name) = {} /\ MoveTo(c, "lock") /\ queue' = Append(queue, c)
        /\ call' = [call EXCEPT ![c] = [issue |-> i, name |-> name, team |-> None]]
  /\ UNCHANGED <<linear, cache, fetch>>

LockAcquired(c) ==
  /\ at[c] = "lock" /\ Head(queue) = c
  /\ \/ \E t \in Recheck(call[c].name) : UseIdOf(c, t) /\ Leave(c)
     \/ Recheck(call[c].name) = {} /\ MoveTo(c, "query") /\ UNCHANGED <<queue, call>>
  /\ UNCHANGED <<linear, cache, fetch>>

\* StatesForIssue: the map of the issue's team is replaced; without the name in
\* it LinearStateNotFound is raised.
StatesArrive(c) ==
  LET t == team[call[c].issue] IN
  /\ at[c] = "query" /\ Leave(c)
  /\ cache' = [cache EXCEPT ![t] = states[t]]
  /\ \/ call[c].name \in states[t] /\ UseIdOf(c, t)
     \/ call[c].name \notin states[t] /\ Raise(c)
  /\ UNCHANGED <<linear, fetch>>

QueryFails(c) ==
  /\ at[c] = "query" /\ Leave(c) /\ Raise(c)
  /\ UNCHANGED <<linear, cache, fetch>>

\* Linear executes issueUpdate, or refuses an id that is no state of the team.
Valid(c) == call[c].team = team[call[c].issue] /\ call[c].name \in states[call[c].team]
UpdateArrives(c) ==
  /\ at[c] = "update"
  /\ \/ /\ Valid(c) /\ MoveTo(c, "moved")
        /\ state' = [state EXCEPT ![call[c].issue] = call[c].name]
        /\ fetch' = [fetch EXCEPT !.kept = {i \in @ : state'[i] \in Active}]
     \/ ~Valid(c) /\ MoveTo(c, "refused") /\ UNCHANGED <<state, fetch>>
  /\ UNCHANGED <<states, cache, queue, call>>

\* success=false is raised.
UpdateAnswered(c) ==
  /\ \/ at[c] = "moved" /\ MoveTo(c, "done")
     \/ at[c] = "refused" /\ MoveTo(c, "idle")
  /\ Forget(c)
  /\ UNCHANGED <<linear, cache, queue, fetch>>

\* The request or its reply is lost.
UpdateFails(c) ==
  /\ at[c] \in {"update", "moved", "refused"} /\ Raise(c)
  /\ UNCHANGED <<linear, cache, queue, fetch>>

\* The worker's task is cancelled while it waits.
Cancel(c) ==
  /\ at[c] \notin {"idle", "done"} /\ Raise(c)
  /\ IF at[c] \in {"lock", "query"} THEN Leave(c) ELSE UNCHANGED queue
  /\ UNCHANGED <<linear, cache, fetch>>

-----------------------------------------------------------------------------
(* fetch_candidate_issues: _paginate_issues *)

NoFetch == [at |-> "idle", after |-> 0, found |-> {}, again |-> FALSE, kept |-> {}]

StartFetch ==
  /\ fetch.at # "page"
  /\ fetch' = [NoFetch EXCEPT !.at = "page", !.kept = {i \in Issue : IsActive(i)}]
  /\ UNCHANGED <<linear, calls>>

\* The issues after the cursor, and the page cut from them.
Beyond == {i \in Issue : i > fetch.after /\ IsActive(i)}
Page == {i \in Beyond : Cardinality({j \in Beyond : j < i}) < PageSize}
LastOf(page) == Max(page \cup {0})

\* The cursor of the next page.
EndCursor == LastOf(Page)

PageArrives ==
  /\ fetch.at = "page"
  /\ fetch' = [fetch EXCEPT
       !.at = IF Page = Beyond THEN "returned" ELSE "page",
       !.after = IF Page = Beyond THEN @ ELSE EndCursor,
       !.found = @ \cup Page,
       !.again = @ \/ (fetch.found \cap Page # {})]
  /\ UNCHANGED <<linear, calls>>

\* A request fails, or a page is malformed or lacks its endCursor: nothing is
\* returned.  Slip: what has been read is.
StopEarly == "returned"
AfterError == "idle"
PageFails ==
  /\ fetch.at = "page" /\ fetch' = [fetch EXCEPT !.at = AfterError]
  /\ UNCHANGED <<linear, calls>>

-----------------------------------------------------------------------------
(* Linear's other users. *)

UserMoves(i, name) ==
  /\ name \in states[team[i]] /\ state' = [state EXCEPT ![i] = name]
  /\ fetch' = [fetch EXCEPT !.kept = {j \in @ : state'[j] \in Active}]
  /\ UNCHANGED <<states, calls>>

\* A state that no issue is in is removed, or comes back.
ChangeStates(t, name) ==
  /\ \A i \in Issue : team[i] = t => state[i] # name
  /\ \/ name \in states[t] /\ states' = [states EXCEPT ![t] = @ \ {name}]
     \/ name \notin states[t] /\ states' = [states EXCEPT ![t] = @ \cup {name}]
  /\ UNCHANGED <<state, calls, fetch>>

-----------------------------------------------------------------------------
Init ==
  /\ states \in [Team -> SUBSET Name]
  /\ state \in [Issue -> Name] /\ \A i \in Issue : state[i] \in states[team[i]]
  /\ cache = [t \in Team |-> {}] /\ queue = <<>>
  /\ at = [c \in Caller |-> "idle"] /\ call = [c \in Caller |-> NoCall]
  /\ fetch = NoFetch

Next ==
  \/ \E c \in Caller :
       \/ \E i \in Issue, name \in Name : Transition(c, i, name)
       \/ LockAcquired(c) \/ StatesArrive(c) \/ QueryFails(c)
       \/ UpdateArrives(c) \/ UpdateAnswered(c) \/ UpdateFails(c) \/ Cancel(c)
  \/ StartFetch \/ PageArrives \/ PageFails
  \/ \E i \in Issue, name \in Name : UserMoves(i, name)
  \/ \E t \in Team, name \in Name : ChangeStates(t, name)

Spec == Init /\ [][Next]_vars

-----------------------------------------------------------------------------
(* Properties. *)

\* A fetch that returns has every issue that was active from its first request
\* to its last page, and none twice, however issues move between the pages: a
\* list cut short would hide candidates, and a double one dispatches twice.
FetchComplete ==
  fetch.at = "returned" => fetch.kept \subseteq fetch.found /\ ~fetch.again

\* StatesForIssue is asked by one call at a time, and for no name that is known:
\* "concurrent transitions don't issue duplicate StatesForIssue queries"
\* (LinearClient.__init__).
NoNeedlessQuery ==
  /\ \A c, d \in Caller : at[c] = "query" /\ at[d] = "query" => c = d
  /\ \A c \in Caller : at[c] = "query" => Cached(call[c].name) = {}

\* What holds of the cache and its lock: who has it, who waits, who asks.
CacheInv == TypeOK /\ NoNeedlessQuery

\* "Return the workflow stateId for state_name on the issue's team"
\* (_resolve_state_id).
OwnTeam == \A c \in Caller : at[c] = "update" => call[c].team = team[call[c].issue]
=============================================================================
