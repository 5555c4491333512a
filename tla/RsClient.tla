------------------------------ MODULE RsClient ------------------------------
(***************************************************************************)
(* The life of a Rust SDK client (crates/akribes-sdk): the handles that    *)
(* share one Inner, registration (init), the heartbeat task it starts,     *)
(* destroy(), the Drop of the last handle, and the contract state that     *)
(* run() consults, for one script.  Handles live on different threads of   *)
(* a tokio runtime: a step here is one atomic operation or one section     *)
(* under a mutex of Inner.                                                 *)
(*                                                                         *)
(* The server is external: it bumps the script's schema version, answers   *)
(* a registration with the version it binds, and notifies subscribers.     *)
(***************************************************************************)
EXTENDS Integers, FiniteSets

CONSTANTS
  Clients,    \* AkribesClient handles: their Drop looks at strong_count
  Subs,       \* other holders of Inner, with no Drop: scopes, sub-clients,
              \*   the closures of event subscriptions
  Inits,      \* calls of init(), each with the heartbeat task it spawns
  First,      \* the handle the builder returned
  None,       \* no heartbeat in the slot
  MaxVersion  \* bound of the model: schema versions of the script

ASSUME RsClientAssumption ==
  /\ IsFiniteSet(Clients) /\ IsFiniteSet(Subs)
  /\ Clients \cap Subs = {}
  /\ First \in Clients
  /\ None \notin Inits
  /\ MaxVersion \in Nat \ {0}

VARIABLES
  holder,    \* per handle: "free", "held", or where its Drop is: "sole" or
             \*   "shared" (what it read), "freeing" (its Arc is released next)
  strong,    \* Arc::strong_count(&inner)
  shutdown,  \* Inner::shutdown
  slot,      \* Inner::heartbeat_handle
  beat,      \* per heartbeat task: "none", "ticking", "sending", "stopped"
  init,      \* per init(): "idle", "sent", "answered", "cached", "cleared",
             \*   "spawned", "done", "failed"
  bound,     \* per init(): the schema version its answer carries
  destroying,\* a destroy() is between its two steps
  version,   \* server: the script's schema version
  noticed,   \* the newest version on_script_schema_change was told of
  cache,     \* schema_cache: the version it describes, 0 for no entry
  broken,    \* broken_scripts contains the script
  raced      \* history: an init overlapped another, or a notice

handleVars == <<holder, strong>>
beatVars == <<shutdown, slot, beat, destroying>>
initVars == <<init, bound>>
contractVars == <<version, noticed, cache, broken, raced>>
vars == <<handleVars, beatVars, initVars, contractVars>>

Handles == Clients \cup Subs

TypeOK ==
  /\ holder \in [Handles -> {"free", "held", "sole", "shared", "freeing"}]
  /\ strong \in 0..Cardinality(Handles)
  /\ shutdown \in BOOLEAN
  /\ slot \in Inits \cup {None}
  /\ beat \in [Inits -> {"none", "ticking", "sending", "stopped"}]
  /\ destroying \in BOOLEAN
  /\ init \in [Inits -> {"idle", "sent", "answered", "cached", "cleared", "spawned", "done", "failed"}]
  /\ bound \in [Inits -> 0..MaxVersion]
  /\ version \in 1..MaxVersion
  /\ noticed \in 1..MaxVersion
  /\ cache \in 0..MaxVersion
  /\ broken \in BOOLEAN
  /\ raced \in BOOLEAN

Init ==
  /\ holder = [h \in Handles |-> IF h = First THEN "held" ELSE "free"]
  /\ strong = 1
  /\ shutdown = FALSE
  /\ slot = None
  /\ beat = [b \in Inits |-> "none"]
  /\ destroying = FALSE
  /\ init = [i \in Inits |-> "idle"]
  /\ bound = [i \in Inits |-> 0]
  /\ version = 1
  /\ noticed = 1
  /\ cache = 0
  /\ broken = FALSE
  /\ raced = FALSE

Running(b) == beat[b] \in {"ticking", "sending"}

Initializing(i) == init[i] \notin {"idle", "done", "failed"}

\* A sub-client is borrowed by the calls in progress on it.
Borrowed == destroying \/ \E i \in Inits : Initializing(i)

-----------------------------------------------------------------------------
(* Handles. *)

\* clone(), project(), registered_clients(), client(), a subscription: any
\* held handle gives another.
Share(h) ==
  /\ holder[h] = "free"
  /\ \E g \in Handles : holder[g] = "held"
  /\ holder' = [holder EXCEPT ![h] = "held"]
  /\ strong' = strong + 1
  /\ UNCHANGED <<beatVars, initVars, contractVars>>

\* Mutant of DropChecks: the test allows for a reference of the heartbeat task.
DropChecksTwo(c) ==
  /\ c \in Clients
  /\ holder[c] = "held"
  /\ holder' = [holder EXCEPT ![c] = IF strong <= 2 THEN "sole" ELSE "shared"]
  /\ UNCHANGED <<strong, beatVars, initVars, contractVars>>

\* AkribesClient::drop reads the count ...
DropChecks(c) ==
  /\ c \in Clients
  /\ holder[c] = "held"
  /\ holder' = [holder EXCEPT ![c] = IF strong = 1 THEN "sole" ELSE "shared"]
  /\ UNCHANGED <<strong, beatVars, initVars, contractVars>>

\* AbortHandle::abort, on what the slot holds.
AbortSlot == beat' = [b \in Inits |-> IF b = slot THEN "stopped" ELSE beat[b]]

\* ... and, when it was the only one, stops the heartbeat: nobody else can
\* reach Inner by then.
DropStops(c) ==
  /\ holder[c] = "sole"
  /\ holder' = [holder EXCEPT ![c] = "freeing"]
  /\ shutdown' = TRUE
  /\ AbortSlot
  /\ slot' = None
  /\ UNCHANGED <<strong, destroying, initVars, contractVars>>

\* Mutant of Release: the handle goes, its reference stays (a forgotten Arc).
ReleaseForgets(h) ==
  /\ holder' = [holder EXCEPT ![h] = "free"]
  /\ UNCHANGED strong

Release(h) ==
  /\ holder' = [holder EXCEPT ![h] = "free"]
  /\ strong' = strong - 1

\* After Drop::drop, the field `inner' is dropped.
DropReleases(c) ==
  /\ holder[c] \in {"shared", "freeing"}
  /\ Release(c)
  /\ UNCHANGED <<beatVars, initVars, contractVars>>

\* A holder with no Drop of its own just releases its reference.
SubReleases(s) ==
  /\ s \in Subs
  /\ holder[s] = "held"
  /\ Borrowed => \E t \in Subs \ {s} : holder[t] = "held"
  /\ Release(s)
  /\ UNCHANGED <<beatVars, initVars, contractVars>>

-----------------------------------------------------------------------------
(* RegisteredClientsClient::init. *)

\* Mutant of InitSends: the contract state is reset before the request.
InitSendsCleared(i) ==
  /\ init[i] = "idle"
  /\ \E s \in Subs : holder[s] = "held"
  /\ init' = [init EXCEPT ![i] = "sent"]
  /\ raced' = (raced \/ \E j \in Inits : Initializing(j))
  /\ broken' = FALSE
  /\ UNCHANGED <<handleVars, beatVars, bound, version, noticed, cache>>

InitSends(i) ==
  /\ init[i] = "idle"
  /\ \E s \in Subs : holder[s] = "held"
  /\ init' = [init EXCEPT ![i] = "sent"]
  /\ raced' = (raced \/ \E j \in Inits : Initializing(j))
  /\ UNCHANGED <<handleVars, beatVars, bound, version, noticed, cache, broken>>

\* The server binds the version of the moment; its answer travels back.
InitAnswered(i) ==
  /\ init[i] = "sent"
  /\ init' = [init EXCEPT ![i] = "answered"]
  /\ bound' = [bound EXCEPT ![i] = version]
  /\ UNCHANGED <<handleVars, beatVars, contractVars>>

\* The POST fails, or the caller drops the future at its only await.
InitFails(i) ==
  /\ init[i] \in {"sent", "answered"}
  /\ init' = [init EXCEPT ![i] = "failed"]
  /\ UNCHANGED <<handleVars, beatVars, bound, contractVars>>

\* Under the schema_cache mutex.
InitCaches(i) ==
  /\ init[i] = "answered"
  /\ init' = [init EXCEPT ![i] = "cached"]
  /\ cache' = bound[i]
  /\ UNCHANGED <<handleVars, beatVars, bound, version, noticed, broken, raced>>

\* Under the broken_scripts mutex.
InitClears(i) ==
  /\ init[i] = "cached"
  /\ init' = [init EXCEPT ![i] = "cleared"]
  /\ broken' = FALSE
  /\ UNCHANGED <<handleVars, beatVars, bound, version, noticed, cache, raced>>

InitSpawns(i) ==
  /\ init[i] = "cleared"
  /\ init' = [init EXCEPT ![i] = "spawned"]
  /\ beat' = [beat EXCEPT ![i] = "ticking"]
  /\ UNCHANGED <<handleVars, shutdown, slot, destroying, bound, contractVars>>

\* Mutant of InitInstalls: the previous task is not aborted.
InitInstallsOver(i) ==
  /\ init[i] = "spawned"
  /\ init' = [init EXCEPT ![i] = "done"]
  /\ slot' = i
  /\ UNCHANGED <<handleVars, shutdown, beat, destroying, bound, contractVars>>

\* Under the heartbeat_handle mutex: abort the previous task, keep this one.
InitInstalls(i) ==
  /\ init[i] = "spawned"
  /\ init' = [init EXCEPT ![i] = "done"]
  /\ AbortSlot
  /\ slot' = i
  /\ UNCHANGED <<handleVars, shutdown, destroying, bound, contractVars>>

Registration(i) ==
  \/ InitSends(i) \/ InitAnswered(i) \/ InitFails(i)
  \/ InitCaches(i) \/ InitClears(i) \/ InitSpawns(i) \/ InitInstalls(i)

-----------------------------------------------------------------------------
(* The heartbeat task. *)

\* Mutant of Tick: the task relies on being aborted.
TickBlindly(b) ==
  /\ beat[b] = "ticking"
  /\ beat' = [beat EXCEPT ![b] = "sending"]
  /\ UNCHANGED <<handleVars, shutdown, slot, destroying, initVars, contractVars>>

\* A tick of the interval (the first is immediate): stop, or send.
Tick(b) ==
  /\ beat[b] = "ticking"
  /\ beat' = [beat EXCEPT ![b] = IF shutdown THEN "stopped" ELSE "sending"]
  /\ UNCHANGED <<handleVars, shutdown, slot, destroying, initVars, contractVars>>

\* The request is over, one way or the other (a failure adds a backoff).
Sent(b) ==
  /\ beat[b] = "sending"
  /\ beat' = [beat EXCEPT ![b] = "ticking"]
  /\ UNCHANGED <<handleVars, shutdown, slot, destroying, initVars, contractVars>>

-----------------------------------------------------------------------------
(* destroy(), on any held sub-client. *)

DestroyFlags ==
  /\ ~destroying
  /\ \E s \in Subs : holder[s] = "held"
  /\ destroying' = TRUE
  /\ shutdown' = TRUE
  /\ UNCHANGED <<handleVars, slot, beat, initVars, contractVars>>

DestroyAborts ==
  /\ destroying
  /\ destroying' = FALSE
  /\ AbortSlot
  /\ slot' = None
  /\ UNCHANGED <<handleVars, shutdown, initVars, contractVars>>

-----------------------------------------------------------------------------
(* The script's schema changes. *)

\* Server: a new version is published or bound.
Update ==
  /\ version < MaxVersion
  /\ version' = version + 1
  /\ UNCHANGED <<handleVars, beatVars, initVars, noticed, cache, broken, raced>>

\* on_script_schema_change: a ScriptUpdated event reaches its callback, with
\* nothing to say which version the cache already describes.
Notify ==
  /\ strong > 0
  /\ noticed < version
  /\ noticed' = noticed + 1
  /\ broken' = TRUE
  /\ raced' = (raced \/ \E i \in Inits : Initializing(i))
  /\ UNCHANGED <<handleVars, beatVars, initVars, version, cache>>

\* What run() asks before it POSTs.
Validates == ~broken

-----------------------------------------------------------------------------

Next ==
  \/ \E h \in Handles : Share(h)
  \/ \E c \in Clients : DropChecks(c) \/ DropStops(c) \/ DropReleases(c)
  \/ \E s \in Subs : SubReleases(s)
  \/ \E i \in Inits : Registration(i) \/ Tick(i) \/ Sent(i)
  \/ DestroyFlags \/ DestroyAborts
  \/ Update \/ Notify

(***************************************************************************)
(* Threads and tasks run; a request ends; a call once begun goes on to its *)
(* end.  Nobody has to call init or destroy or to drop a handle.           *)
(***************************************************************************)
Fairness ==
  /\ \A i \in Inits :
       /\ WF_vars(Tick(i)) /\ WF_vars(Sent(i))
       /\ WF_vars(InitAnswered(i) \/ InitFails(i) \/ InitCaches(i) \/ InitClears(i) \/ InitSpawns(i) \/ InitInstalls(i))
  /\ \A c \in Clients : WF_vars(DropStops(c) \/ DropReleases(c))
  /\ WF_vars(DestroyAborts)

Spec == Init /\ [][Next]_vars

FairSpec == Spec /\ Fairness

-----------------------------------------------------------------------------
(* Properties. *)

(***************************************************************************)
(* At most one heartbeat per client beyond those being installed, through  *)
(* overlapping calls of init and destroy: a running task is in the slot,   *)
(* or about to be put there, or sees the shutdown flag at its next tick.   *)
(* And a task in the slot is really running unless the client is shut down.*)
(***************************************************************************)
OneHeartbeat ==
  /\ \A b \in Inits : Running(b) => slot = b \/ init[b] = "spawned"
  /\ (slot # None /\ ~shutdown) => Running(slot)

(***************************************************************************)
(* A drop that stops the heartbeat is the last: from the count it read to  *)
(* the release of its reference, nobody else holds the client or is in a   *)
(* call on it ("a clone could appear between the count check and the       *)
(* abort", client.rs).                                                     *)
(***************************************************************************)
StopsAlone ==
  \A c \in Clients :
    holder[c] \in {"sole", "freeing"} =>
      ~Borrowed /\ \A h \in Handles \ {c} : holder[h] = "free"

(***************************************************************************)
(* "Set to `true` when the client is being dropped / destroyed so the      *)
(* heartbeat task can stop cleanly" (client.rs): whatever init was doing   *)
(* when destroy() was called, no heartbeat outlives it for ever.           *)
(***************************************************************************)
DestroyStops ==
  \A b \in Inits : (shutdown /\ Running(b)) ~> ~Running(b)

(***************************************************************************)
(* "marks the script as broken in the contract state so that subsequent    *)
(* `run()` calls raise before POSTing" (sub/events.rs): when init calls    *)
(* overlap neither each other nor a notice, run() never validates against  *)
(* a schema older than one it was told of, failed inits included.          *)
(***************************************************************************)
StaleRunRefused ==
  (~raced /\ cache # 0 /\ noticed > cache) => ~Validates

-----------------------------------------------------------------------------
(* The inductive invariant of the theorems in RsClientProofs. *)

\* The count counts, and a call in progress has its sub-client.
Counted ==
  /\ strong = Cardinality({h \in Handles : holder[h] # "free"})
  /\ \A s \in Subs : holder[s] \in {"free", "held"}
  /\ Borrowed => \E s \in Subs : holder[s] = "held"

\* The slot holds the task of a finished init; a task about to be installed
\* runs unless the client is shut down.
Installed ==
  /\ slot # None => init[slot] = "done"
  /\ \A i \in Inits : (init[i] = "spawned" /\ ~shutdown) => Running(i)

\* Without races one init at a time, which carries a version at least as new
\* as the last notice.
Unraced ==
  /\ noticed <= version
  /\ ~raced => \A i, j \in Inits : (Initializing(i) /\ Initializing(j)) => i = j
  /\ ~raced => \A i \in Inits :
       init[i] \in {"answered", "cached", "cleared", "spawned"} => bound[i] >= noticed
  /\ ~raced => \A i \in Inits : init[i] = "cached" => cache = bound[i]

IInv == TypeOK /\ Counted /\ StopsAlone /\ Installed /\ OneHeartbeat /\ Unraced /\ StaleRunRefused
=============================================================================
