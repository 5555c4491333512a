--------------------------- MODULE RsClientProofs ---------------------------
(***************************************************************************)
(* Proofs about RsClient, for any number of handles, init calls and schema *)
(* versions.  IInv of RsClient is inductive: one lemma per conjunct, each  *)
(* of which assumes the whole of IInv before the step.                     *)
(***************************************************************************)
EXTENDS RsClient, FiniteSetTheorems, TLAPS

Live == {h \in Handles : holder[h] # "free"}

(***************************************************************************)
(* The handles in use are finitely many.                                   *)
(***************************************************************************)
LEMMA LiveFinite ==
  /\ IsFiniteSet(Handles) /\ IsFiniteSet(Live)
  /\ Cardinality(Live) \in 0..Cardinality(Handles)
<1>1. IsFiniteSet(Handles)
  BY RsClientAssumption, FS_Union DEF Handles
<1>2. Live \in SUBSET Handles
  BY DEF Live
<1>3. IsFiniteSet(Live) /\ Cardinality(Live) <= Cardinality(Handles)
  BY <1>1, <1>2, FS_Subset
<1> QED
  BY <1>1, <1>3, FS_CardinalityType

(***************************************************************************)
(* Releasing a handle in use takes one from the count, using a free one    *)
(* adds one.                                                               *)
(***************************************************************************)
LEMMA LiveMinus ==
  ASSUME NEW h \in Handles, holder \in [Handles -> {"free", "held", "sole", "shared", "freeing"}],
         holder[h] # "free", holder' = [holder EXCEPT ![h] = "free"]
  PROVE  Cardinality(Live') = Cardinality(Live) - 1
<1>1. Live' = Live \ {h} /\ h \in Live
  BY DEF Live
<1> QED
  BY <1>1, LiveFinite, FS_RemoveElement

LEMMA LivePlus ==
  ASSUME NEW h \in Handles, holder \in [Handles -> {"free", "held", "sole", "shared", "freeing"}],
         holder[h] = "free", holder' = [holder EXCEPT ![h] = "held"]
  PROVE  Cardinality(Live') = Cardinality(Live) + 1
<1>1. Live' = Live \cup {h} /\ h \notin Live
  BY DEF Live
<1> QED
  BY <1>1, LiveFinite, FS_AddElement

(***************************************************************************)
(* A count of one leaves room for one handle.                              *)
(***************************************************************************)
LEMMA LiveOne ==
  ASSUME NEW c \in Handles, holder[c] # "free", Cardinality(Live) = 1
  PROVE  \A h \in Handles \ {c} : holder[h] = "free"
<1>1. PICK x : Live = {x}
  BY LiveFinite, FS_Singleton
<1> QED
  BY <1>1 DEF Live

LEMMA InitInvariant ==
  ASSUME Init
  PROVE  IInv
<1> USE RsClientAssumption
<1>1. First \in Handles
  BY DEF Handles
<1>2. Live = {First}
  BY <1>1 DEF Init, Live
<1>3. Cardinality(Live) = 1 /\ strong = 1
  BY <1>2, FS_Singleton DEF Init
<1>4. Counted
  BY <1>3 DEF Init, Counted, Live, Borrowed, Initializing, Handles
<1>5. TypeOK
  <2>1. strong \in 0..Cardinality(Handles)
    BY <1>3, LiveFinite
  <2>2. holder \in [Handles -> {"free", "held", "sole", "shared", "freeing"}]
    BY DEF Init
  <2>3. MaxVersion \in Nat /\ 1 \in 1..MaxVersion /\ 0 \in 0..MaxVersion
    BY DEF RsClientAssumption
  <2>4. bound \in [Inits -> 0..MaxVersion]
    BY <2>3 DEF Init
  <2>5. /\ beat \in [Inits -> {"none", "ticking", "sending", "stopped"}]
        /\ init \in [Inits -> {"idle", "sent", "answered", "cached", "cleared", "spawned", "done", "failed"}]
    BY DEF Init
  <2> QED
    BY <2>1, <2>2, <2>3, <2>4, <2>5 DEF Init, TypeOK
<1>6. StopsAlone
  BY DEF Init, StopsAlone, Handles
<1>7. Installed /\ OneHeartbeat /\ Unraced /\ StaleRunRefused
  BY DEF Init, Installed, OneHeartbeat, Unraced, StaleRunRefused, Running, Initializing
<1> QED
  BY <1>4, <1>5, <1>6, <1>7 DEF IInv

-----------------------------------------------------------------------------
(* The steps.  Each lemma preserves one conjunct of IInv. *)

(***************************************************************************)
(* Types, the count aside: it follows from what the count counts.          *)
(***************************************************************************)
LEMMA NextTypes ==
  ASSUME IInv, Next, strong' \in 0..Cardinality(Handles)
  PROVE  TypeOK'
<1> USE RsClientAssumption DEF IInv, TypeOK, handleVars, beatVars, initVars, contractVars
<1>1. MaxVersion \in Nat /\ 1 \in 1..MaxVersion
  BY DEF RsClientAssumption
<1>2. ASSUME NEW h \in Handles, Share(h) PROVE TypeOK'
  BY <1>2 DEF Share
<1>3. ASSUME NEW c \in Clients, DropChecks(c) \/ DropStops(c) \/ DropReleases(c) PROVE TypeOK'
  BY <1>3 DEF DropChecks, DropStops, DropReleases, Release, AbortSlot
<1>4. ASSUME NEW s \in Subs, SubReleases(s) PROVE TypeOK'
  BY <1>4 DEF SubReleases, Release
<1>5. ASSUME NEW i \in Inits, Registration(i) PROVE TypeOK'
  <2>1. CASE InitSends(i)
    BY <2>1, <1>5 DEF InitSends
  <2>2. CASE InitAnswered(i)
    BY <2>2, <1>1, <1>5 DEF InitAnswered
  <2>3. CASE InitFails(i)
    BY <2>3, <1>5 DEF InitFails
  <2>4. CASE InitCaches(i)
    BY <2>4, <1>5 DEF InitCaches
  <2>5. CASE InitClears(i)
    BY <2>5, <1>5 DEF InitClears
  <2>6. CASE InitSpawns(i)
    BY <2>6, <1>5 DEF InitSpawns
  <2>7. CASE InitInstalls(i)
    BY <2>7, <1>5 DEF InitInstalls, AbortSlot
  <2> QED
    BY <1>5, <2>1, <2>2, <2>3, <2>4, <2>5, <2>6, <2>7 DEF Registration
<1>6. ASSUME NEW i \in Inits, Tick(i) \/ Sent(i) PROVE TypeOK'
  BY <1>6 DEF Tick, Sent
<1>7. CASE DestroyFlags
  BY <1>7 DEF DestroyFlags
<1>8. CASE DestroyAborts
  BY <1>8 DEF DestroyAborts, AbortSlot
<1>9. CASE Update
  BY <1>9, <1>1 DEF Update
<1>10. CASE Notify
  BY <1>10, <1>1 DEF Notify
<1> QED
  BY <1>2, <1>3, <1>4, <1>5, <1>6, <1>7, <1>8, <1>9, <1>10 DEF Next

(***************************************************************************)
(* What the contract state and the registrations do to a notice.           *)
(***************************************************************************)
LEMMA NextUnraced ==
  ASSUME IInv, Next
  PROVE  Unraced' /\ StaleRunRefused'
<1> USE RsClientAssumption DEF IInv, TypeOK, Unraced, StaleRunRefused, Validates, Initializing,
                             handleVars, beatVars, initVars, contractVars
<1>1. MaxVersion \in Nat /\ version \in Nat /\ noticed \in Nat /\ cache \in Nat
      /\ \A i \in Inits : bound[i] \in Nat
  BY DEF RsClientAssumption
<1>2. CASE UNCHANGED <<initVars, contractVars>>
  BY <1>2
<1>3. ASSUME NEW i \in Inits, Registration(i) PROVE Unraced' /\ StaleRunRefused'
  <2>1. CASE InitSends(i)
    BY <2>1, <1>3 DEF InitSends
  <2>2. CASE InitAnswered(i)
    BY <2>2, <1>1, <1>3 DEF InitAnswered
  <2>3. CASE InitFails(i)
    BY <2>3, <1>3 DEF InitFails
  <2>4. CASE InitCaches(i)
    BY <2>4, <1>1, <1>3 DEF InitCaches
  <2>5. CASE InitClears(i)
    BY <2>5, <1>1, <1>3 DEF InitClears
  <2>6. CASE InitSpawns(i)
    BY <2>6, <1>3 DEF InitSpawns
  <2>7. CASE InitInstalls(i)
    BY <2>7, <1>3 DEF InitInstalls
  <2> QED
    BY <1>3, <2>1, <2>2, <2>3, <2>4, <2>5, <2>6, <2>7 DEF Registration
<1>4. CASE Update
  BY <1>4, <1>1 DEF Update
<1>5. CASE Notify
  <2>1. /\ noticed' = noticed + 1 /\ noticed < version /\ broken'
        /\ UNCHANGED <<init, bound, version, cache>>
        /\ raced' = (raced \/ \E i \in Inits : Initializing(i))
    BY <1>5 DEF Notify
  <2>2. StaleRunRefused'
    BY <2>1
  <2>3. noticed' <= version'
    BY <2>1, <1>1
  <2>4. ~raced' => \A i \in Inits : init[i] \in {"idle", "done", "failed"}
    BY <2>1
  <2> QED
    BY <2>1, <2>2, <2>3, <2>4
<1>6. CASE DestroyFlags \/ DestroyAborts
  BY <1>2, <1>6 DEF DestroyFlags, DestroyAborts
<1>7. ASSUME NEW h \in Handles, Share(h) PROVE Unraced' /\ StaleRunRefused'
  BY <1>2, <1>7 DEF Share
<1>8. ASSUME NEW c \in Clients, DropChecks(c) \/ DropStops(c) \/ DropReleases(c)
      PROVE  Unraced' /\ StaleRunRefused'
  BY <1>2, <1>8 DEF DropChecks, DropStops, DropReleases
<1>9. ASSUME NEW s \in Subs, SubReleases(s) PROVE Unraced' /\ StaleRunRefused'
  BY <1>2, <1>9 DEF SubReleases
<1>10. ASSUME NEW i \in Inits, Tick(i) \/ Sent(i) PROVE Unraced' /\ StaleRunRefused'
  BY <1>2, <1>10 DEF Tick, Sent
<1> QED
  BY <1>3, <1>4, <1>5, <1>6, <1>7, <1>8, <1>9, <1>10 DEF Next

(***************************************************************************)
(* One heartbeat, through overlapping inits, destroy and the last drop.    *)
(***************************************************************************)
LEMMA NextHeartbeat ==
  ASSUME IInv, Next
  PROVE  Installed' /\ OneHeartbeat'
<1> USE RsClientAssumption DEF IInv, TypeOK, Installed, OneHeartbeat, Running, AbortSlot,
                             handleVars, beatVars, initVars, contractVars
<1> DEFINE Goal == Installed' /\ OneHeartbeat'
<1>1. CASE UNCHANGED <<beatVars, init>>
  BY <1>1
<1>2. ASSUME NEW i \in Inits, Registration(i) PROVE Goal
  <2>1. CASE InitSends(i)
    BY <2>1, <1>2 DEF InitSends
  <2>2. CASE InitAnswered(i)
    BY <2>2, <1>2 DEF InitAnswered
  <2>3. CASE InitFails(i)
    BY <2>3, <1>2 DEF InitFails
  <2>4. CASE InitCaches(i)
    BY <2>4, <1>2 DEF InitCaches
  <2>5. CASE InitClears(i)
    BY <2>5, <1>2 DEF InitClears
  <2>6. CASE InitSpawns(i)
    BY <2>6, <1>2 DEF InitSpawns
  <2>7. CASE InitInstalls(i)
    BY <2>7, <1>2 DEF InitInstalls
  <2> QED
    BY <1>2, <2>1, <2>2, <2>3, <2>4, <2>5, <2>6, <2>7 DEF Registration
<1>3. ASSUME NEW b \in Inits, Tick(b) \/ Sent(b) PROVE Goal
  BY <1>3 DEF Tick, Sent
<1>4. CASE DestroyFlags
  BY <1>4 DEF DestroyFlags
<1>5. CASE DestroyAborts
  BY <1>5 DEF DestroyAborts
<1>6. ASSUME NEW c \in Clients, DropStops(c) PROVE Goal
  BY <1>6 DEF DropStops
<1>7. ASSUME NEW c \in Clients, DropChecks(c) \/ DropReleases(c) PROVE Goal
  BY <1>1, <1>7 DEF DropChecks, DropReleases
<1>8. ASSUME NEW h \in Handles, Share(h) PROVE Goal
  BY <1>1, <1>8 DEF Share
<1>9. ASSUME NEW s \in Subs, SubReleases(s) PROVE Goal
  BY <1>1, <1>9 DEF SubReleases
<1>10. CASE Update \/ Notify
  BY <1>1, <1>10 DEF Update, Notify
<1> QED
  BY <1>2, <1>3, <1>4, <1>5, <1>6, <1>7, <1>8, <1>9, <1>10 DEF Next

(***************************************************************************)
(* The count counts the handles in use, and a call in progress keeps the   *)
(* sub-client it borrows.                                                  *)
(***************************************************************************)
LEMMA NextCounted ==
  ASSUME IInv, Next
  PROVE  Counted' /\ strong' \in 0..Cardinality(Handles)
<1> USE DEF IInv, TypeOK, Counted, Borrowed, Initializing, Handles,
            handleVars, beatVars, initVars, contractVars
<1> DEFINE Count == strong' = Cardinality(Live')
           SubsOnly == \A s \in Subs : holder'[s] \in {"free", "held"}
           Lent == Borrowed' => \E s \in Subs : holder'[s] = "held"
           Goal == Count /\ SubsOnly /\ Lent
<1>0. strong = Cardinality(Live) /\ Clients \cap Subs = {}
  BY RsClientAssumption DEF Live
<1>1. ASSUME UNCHANGED handleVars PROVE Count /\ SubsOnly
  BY <1>0, <1>1 DEF Live
<1>2. ASSUME NEW h \in Handles, Share(h) PROVE Goal
  <2>1. Count
    BY <1>0, <1>2, LivePlus DEF Share
  <2> QED
    BY <1>2, <2>1 DEF Share
<1>3. ASSUME NEW c \in Clients, DropChecks(c) PROVE Goal
  <2>1. Live' = Live
    BY <1>3 DEF DropChecks, Live
  <2> QED
    BY <1>0, <1>3, <2>1 DEF DropChecks
<1>4. ASSUME NEW c \in Clients, DropStops(c) PROVE Goal
  <2>1. Live' = Live
    BY <1>4 DEF DropStops, Live
  <2> QED
    BY <1>0, <1>4, <2>1 DEF DropStops
<1>5. ASSUME NEW c \in Clients, DropReleases(c) PROVE Goal
  <2>1. Cardinality(Live') = Cardinality(Live) - 1
    BY <1>5, LiveMinus DEF DropReleases, Release
  <2> QED
    BY <1>0, <1>5, <2>1 DEF DropReleases, Release
<1>6. ASSUME NEW s \in Subs, SubReleases(s) PROVE Goal
  <2>1. Cardinality(Live') = Cardinality(Live) - 1
    BY <1>6, LiveMinus DEF SubReleases, Release
  <2> QED
    BY <1>0, <1>6, <2>1 DEF SubReleases, Release
<1>7. ASSUME NEW i \in Inits, Registration(i) PROVE Goal
  <2>1. UNCHANGED handleVars
    BY <1>7 DEF Registration, InitSends, InitAnswered, InitFails, InitCaches, InitClears, InitSpawns, InitInstalls
  <2>2. \/ Borrowed
        \/ \E s \in Subs : holder[s] = "held"
    BY <1>7 DEF Registration, InitSends, InitAnswered, InitFails, InitCaches, InitClears, InitSpawns, InitInstalls
  <2> QED
    BY <1>1, <2>1, <2>2
<1>8. ASSUME NEW b \in Inits, Tick(b) \/ Sent(b) PROVE Goal
  BY <1>1, <1>8 DEF Tick, Sent
<1>9. ASSUME DestroyFlags PROVE Goal
  BY <1>1, <1>9 DEF DestroyFlags
<1>10. ASSUME DestroyAborts PROVE Goal
  BY <1>1, <1>10 DEF DestroyAborts
<1>11. ASSUME Update \/ Notify PROVE Goal
  BY <1>1, <1>11 DEF Update, Notify
<1>12. Count => strong' \in 0..Cardinality(Handles)
  <2>1. Live' \in SUBSET Handles /\ IsFiniteSet(Handles)
    BY LiveFinite DEF Live
  <2>2. IsFiniteSet(Live') /\ Cardinality(Live') <= Cardinality(Handles)
    BY <2>1, FS_Subset
  <2> QED
    BY <2>1, <2>2, FS_CardinalityType
<1>13. Goal
  <2> HIDE DEF Goal
  <2> QED
    BY <1>2, <1>3, <1>4, <1>5, <1>6, <1>7, <1>8, <1>9, <1>10, <1>11 DEF Next
<1> QED
  BY <1>12, <1>13 DEF Live

(***************************************************************************)
(* A drop that stops the heartbeat stays the last.                         *)
(***************************************************************************)
LEMMA NextStopsAlone ==
  ASSUME IInv, Next
  PROVE  StopsAlone'
<1> USE DEF IInv, TypeOK, Counted, StopsAlone, Handles,
            handleVars, beatVars, initVars, contractVars
<1>0. Clients \cap Subs = {} /\ strong = Cardinality(Live)
  BY RsClientAssumption DEF Live
<1>1. SUFFICES ASSUME NEW c \in Clients, holder'[c] \in {"sole", "freeing"}
      PROVE  ~Borrowed' /\ \A h \in Handles \ {c} : holder'[h] = "free"
  OBVIOUS
<1>2. CASE holder[c] \in {"sole", "freeing"}
  <2>1. ~Borrowed /\ \A h \in Handles \ {c} : holder[h] = "free"
    BY <1>2
  <2>2. ~\E g \in Handles : holder[g] = "held"
    BY <1>2, <2>1
  <2>3. ASSUME NEW d \in Clients, DropChecks(d) \/ DropStops(d) \/ DropReleases(d)
        PROVE  UNCHANGED <<init, destroying>> /\ \A h \in Handles \ {c} : holder'[h] = "free"
    BY <2>1, <2>3 DEF DropChecks, DropStops, DropReleases, Release
  <2>4. ASSUME NEW i \in Inits, Registration(i) PROVE FALSE
    <3>1. ~Initializing(i)
      BY <2>1 DEF Borrowed
    <3> QED
      BY <2>2, <2>4, <3>1 DEF Registration, Initializing, InitSends, InitAnswered, InitFails, InitCaches, InitClears, InitSpawns, InitInstalls
  <2>5. ~DestroyFlags /\ ~DestroyAborts
    BY <2>1, <2>2 DEF DestroyFlags, DestroyAborts, Borrowed
  <2>6. ASSUME NEW h \in Handles, Share(h) PROVE FALSE
    BY <2>2, <2>6 DEF Share
  <2>7. ASSUME NEW s \in Subs, SubReleases(s) PROVE FALSE
    BY <2>2, <2>7 DEF SubReleases
  <2>8. ASSUME NEW i \in Inits, Tick(i) \/ Sent(i) PROVE UNCHANGED <<holder, init, destroying>>
    BY <2>8 DEF Tick, Sent
  <2>9. CASE Update \/ Notify
    BY <2>1, <2>9 DEF Update, Notify, Borrowed, Initializing
  <2> QED
    BY <2>1, <2>3, <2>4, <2>5, <2>6, <2>7, <2>8, <2>9 DEF Next, Borrowed, Initializing
<1>3. CASE holder[c] \notin {"sole", "freeing"}
  <2>1. DropChecks(c) /\ strong = 1
    BY <1>1, <1>3 DEF Next, Share, DropChecks, DropStops, DropReleases, SubReleases, Release, Registration, InitSends, InitAnswered, InitFails, InitCaches, InitClears, InitSpawns, InitInstalls, Tick, Sent, DestroyFlags, DestroyAborts, Update, Notify
  <2>2. \A h \in Handles \ {c} : holder[h] = "free"
    BY <1>0, <2>1, LiveOne DEF DropChecks
  <2>3. ~Borrowed
    BY <1>0, <2>2
  <2> QED
    BY <2>1, <2>2, <2>3 DEF DropChecks, Borrowed, Initializing
<1> QED
  BY <1>2, <1>3

-----------------------------------------------------------------------------
(* Theorems. *)

(***************************************************************************)
(* IInv holds in every reachable state.                                    *)
(***************************************************************************)
THEOREM Inductive == Spec => []IInv
<1>1. IInv /\ [Next]_vars => IInv'
  <2> SUFFICES ASSUME IInv, [Next]_vars PROVE IInv'
    OBVIOUS
  <2>1. CASE Next
    BY <2>1, NextCounted, NextTypes, NextStopsAlone, NextHeartbeat, NextUnraced DEF IInv
  <2>2. CASE UNCHANGED vars
    BY <2>2 DEF IInv, TypeOK, Counted, StopsAlone, Installed, OneHeartbeat, Unraced, StaleRunRefused,
                Borrowed, Initializing, Running, Validates,
                vars, handleVars, beatVars, initVars, contractVars
  <2> QED
    BY <2>1, <2>2
<1> QED
  BY InitInvariant, <1>1, PTL DEF Spec

(***************************************************************************)
(* Type correctness; in particular the reference count stays between none  *)
(* and one per handle, through clones and concurrent drops.                *)
(***************************************************************************)
THEOREM TypeCorrect == Spec => []TypeOK
  BY Inductive, PTL DEF IInv

(***************************************************************************)
(* Overlapping calls of init and destroy leave at most the heartbeat in    *)
(* the slot, and those on their way there.                                 *)
(***************************************************************************)
THEOREM SingleHeartbeat == Spec => []OneHeartbeat
<1>1. IInv => OneHeartbeat
  BY DEF IInv
<1> QED
  BY Inductive, <1>1, PTL

(***************************************************************************)
(* Without an overtaken init, run() refuses a script whose newest notice   *)
(* is newer than the cached schema.                                        *)
(***************************************************************************)
THEOREM StaleRefused == Spec => []StaleRunRefused
<1>1. IInv => StaleRunRefused
  BY DEF IInv
<1> QED
  BY Inductive, <1>1, PTL

(***************************************************************************)
(* A drop that found itself the last holder of the client stays alone with *)
(* it until it is gone, whatever the other threads do.                     *)
(***************************************************************************)
THEOREM LastDropAlone == Spec => []StopsAlone
<1>1. IInv => StopsAlone
  BY DEF IInv
<1> QED
  BY Inductive, <1>1, PTL
=============================================================================
