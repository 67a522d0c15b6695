------------------------------ MODULE WebLocks ------------------------------
(***************************************************************************)
(* navigator.locks: WebLockManager (one per document or worker, on that    *)
(* context's thread) and LocalWebLockRegistry (one per origin, on the main *)
(* thread), with the task queues between them.                             *)
(*                                                                         *)
(* A manager never calls the registry: MainThreadBridge posts every        *)
(* request, release, abort and departure to the main thread (mainQueue).   *)
(* The registry answers through ScriptExecutionContext::                   *)
(* ensureOnContextThread, which runs the answer at once when the client is *)
(* a document (its thread is the main thread), posts it (toContext) when   *)
(* the client is a worker, and drops it when the context is gone.  A       *)
(* grant is then queued once more, as an event loop task (tasks) that runs *)
(* the callback.  Until that task runs, the lock is held by a client that  *)
(* does not know it yet, and may abort, be stolen from, or go away.        *)
(*                                                                         *)
(* Registries of different origins share nothing, so one origin is         *)
(* modelled.  A PerOriginRegistry is destroyed when its last LockInfo      *)
(* goes, that is when it is empty, so its lifetime is invisible.           *)
(* Script errors that reject the promise before a WebLockIdentifier is     *)
(* made change nothing and are left out (the guards of Request).           *)
(***************************************************************************)
EXTENDS Naturals, SequencesExt, Selection

CONSTANTS
    Documents,      \* clients whose context thread is the main thread
    Workers,        \* clients with a thread of their own
    Names,          \* lock names
    Modes,          \* the WebLockModes scripts ask for
    Kinds,          \* the option combinations scripts use, see Option
    MaxRequests     \* bound on the requests made

Clients == Documents \cup Workers

(* "signal": an AbortSignal may abort the request.  steal and ifAvailable  *)
(* exclude each other and a signal, and steal is exclusive.                *)
ASSUME WebLocksAssumption ==
    /\ Documents \cap Workers = {}
    /\ Modes \subseteq {"exclusive", "shared"}
    /\ Kinds \subseteq {"signal", "steal", "ifAvailable"}
    /\ MaxRequests \in Nat

VARIABLES
    requests,               \* the requests made so far; an id is an index
    status,                 \* of each client's context
    pendingRequests,        \* m_pendingRequests of all managers, by id
    releasePromises,        \* m_releasePromises of all managers, by id
    aborted,                \* ids whose signal is aborted
    running,                \* ids whose callback's promise is not settled
    tasks,                  \* didCompleteLockRequest tasks of each client
    mainQueue,              \* what the bridges posted to the main thread
    toContext,              \* what the registry posted to each worker
    lockRequestQueueMap,    \* m_lockRequestQueueMap, by name
    heldLocks               \* m_heldLocks, by name

clientVars   == <<pendingRequests, releasePromises, tasks>>
scriptVars   == <<requests, status, aborted, running>>
registryVars == <<lockRequestQueueMap, heldLocks>>
vars == <<clientVars, scriptVars, registryVars, mainQueue, toContext>>

Option ==
    {o \in [client : Clients, name : Names, mode : Modes, kind : Kinds] :
        o.kind = "steal" => o.mode = "exclusive"}

Ids        == DOMAIN requests
ClientOf(id) == requests[id].client
NameOf(id)   == requests[id].name
IdsOf(c)   == {id \in Ids : ClientOf(id) = c}

TypeOK ==
    /\ requests \in Seq(Option) /\ Len(requests) <= MaxRequests
    /\ status \in [Clients -> {"active", "stopped", "destroyed"}]
    /\ pendingRequests \subseteq Ids /\ releasePromises \subseteq Ids
    /\ aborted \subseteq Ids /\ running \subseteq Ids
    /\ tasks \in [Clients -> Seq([type : {"granted", "denied"}, id : Ids])]
    /\ mainQueue \in Seq([type : {"request", "release", "abort"}, id : Ids]
                         \cup [type : {"goingAway"}, client : Clients])
    /\ toContext \in [Workers -> Seq([type : {"granted", "denied", "stolen",
                                        "aborted", "notAborted"}, id : Ids])]
    /\ lockRequestQueueMap \in [Names -> Seq(Ids)]
    /\ heldLocks \in [Names -> Seq(Ids)]

Init ==
    /\ requests = <<>>
    /\ status = [c \in Clients |-> "active"]
    /\ pendingRequests = {} /\ releasePromises = {}
    /\ aborted = {} /\ running = {}
    /\ tasks = [c \in Clients |-> <<>>]
    /\ mainQueue = <<>>
    /\ toContext = [c \in Workers |-> <<>>]
    /\ lockRequestQueueMap = [n \in Names |-> <<>>]
    /\ heldLocks = [n \in Names |-> <<>>]

-----------------------------------------------------------------------------
(* WebLockManager, on the client's thread                                  *)

CallOnMainThread(type, id) ==
    mainQueue' = Append(mainQueue, [type |-> type, id |-> id])

(* request(): the promise and the request are recorded under a new         *)
(* identifier and the request is posted.                                   *)
Request(o) ==
    /\ status[o.client] = "active"
    /\ Len(requests) < MaxRequests
    /\ LET id == Len(requests) + 1 IN
        /\ requests' = Append(requests, o)
        /\ releasePromises' = releasePromises \cup {id}
        /\ pendingRequests' = pendingRequests \cup {id}
        /\ CallOnMainThread("request", id)
    /\ UNCHANGED <<status, aborted, running, tasks, toContext, registryVars>>

(* AbortSignal::signalAbort and signalToAbortTheRequest: a request whose   *)
(* callback has not started is aborted in the registry as well, and its    *)
(* promise is rejected at once, whatever the registry will answer.         *)
SignalToAbortTheRequest(id) ==
    /\ requests[id].kind = "signal"
    /\ status[ClientOf(id)] = "active"
    /\ id \notin aborted
    /\ aborted' = aborted \cup {id}
    /\ \/ /\ id \in pendingRequests
          /\ CallOnMainThread("abort", id)
          /\ releasePromises' = releasePromises \ {id}
       \/ /\ id \notin pendingRequests
          /\ UNCHANGED <<mainQueue, releasePromises>>
    /\ UNCHANGED <<requests, status, running, pendingRequests, tasks,
                   toContext, registryVars>>

(* The task of didCompleteLockRequest, by cases on what it finds.          *)
Task(c, type) ==
    /\ tasks[c] # <<>>
    /\ Head(tasks[c]).type = type
    /\ tasks' = [tasks EXCEPT ![c] = Tail(@)]
    /\ UNCHANGED <<requests, status, aborted, toContext, registryVars>>

TakeRequest(c) ==
    /\ Head(tasks[c]).id \in pendingRequests
    /\ pendingRequests' = pendingRequests \ {Head(tasks[c]).id}

SettleReleasePromise(id) == releasePromises' = releasePromises \ {id}

(* m_pendingRequests.take() finds nothing: the client was stopped.         *)
TaskFindsNoRequest(c) ==
    /\ \E type \in {"granted", "denied"} : Task(c, type)
    /\ Head(tasks[c]).id \notin pendingRequests
    /\ UNCHANGED <<pendingRequests, releasePromises, running, mainQueue>>

(* Mutant: the aborted request is dropped and the lock kept.               *)
TaskAbortedKeepsLock(c) ==
    /\ Task(c, "granted")
    /\ TakeRequest(c)
    /\ Head(tasks[c]).id \in aborted
    /\ UNCHANGED <<releasePromises, running, mainQueue>>

(* Granted after the signal was aborted: give the lock back.               *)
TaskAborted(c) ==
    /\ Task(c, "granted")
    /\ TakeRequest(c)
    /\ Head(tasks[c]).id \in aborted
    /\ CallOnMainThread("release", Head(tasks[c]).id)
    /\ UNCHANGED <<releasePromises, running>>

(* The callback runs and returns a promise to wait for ...                 *)
TaskRunsCallback(c) ==
    /\ Task(c, "granted")
    /\ TakeRequest(c)
    /\ Head(tasks[c]).id \notin aborted
    /\ running' = running \cup {Head(tasks[c]).id}
    /\ UNCHANGED <<releasePromises, mainQueue>>

(* ... or throws, or returns no usable promise.                            *)
TaskCallbackFails(c) ==
    /\ Task(c, "granted")
    /\ TakeRequest(c)
    /\ Head(tasks[c]).id \notin aborted
    /\ CallOnMainThread("release", Head(tasks[c]).id)
    /\ SettleReleasePromise(Head(tasks[c]).id)
    /\ UNCHANGED running

(* Not available: the callback runs without a lock, and the promise is     *)
(* settled with whatever it returns.                                       *)
TaskDenied(c) ==
    /\ Task(c, "denied")
    /\ TakeRequest(c)
    /\ SettleReleasePromise(Head(tasks[c]).id)
    /\ UNCHANGED <<running, mainQueue>>

(* whenPromiseIsSettled: the callback's promise settles, the manager being *)
(* still there.                                                            *)
WaitingPromiseSettles(id) ==
    /\ id \in running
    /\ running' = running \ {id}
    /\ CallOnMainThread("release", id)
    /\ SettleReleasePromise(id)
    /\ UNCHANGED <<requests, status, aborted, pendingRequests, tasks,
                   toContext, registryVars>>

(* Mutant: the departure is announced only for requests still pending.     *)
StopForgetsPromises(c) ==
    /\ status[c] = "active"
    /\ status' = [status EXCEPT ![c] = "stopped"]
    /\ pendingRequests' = pendingRequests \ IdsOf(c)
    /\ releasePromises' = releasePromises \ IdsOf(c)
    /\ mainQueue' =
         IF IdsOf(c) \cap pendingRequests = {}
         THEN mainQueue
         ELSE Append(mainQueue, [type |-> "goingAway", client |-> c])
    /\ UNCHANGED <<requests, aborted, running, tasks, toContext, registryVars>>

(* stop(), which is clientIsGoingAway(): the registry is told only when    *)
(* the manager still has a request or a promise.                           *)
Stop(c) ==
    /\ status[c] = "active"
    /\ status' = [status EXCEPT ![c] = "stopped"]
    /\ pendingRequests' = pendingRequests \ IdsOf(c)
    /\ releasePromises' = releasePromises \ IdsOf(c)
    /\ mainQueue' =
         IF IdsOf(c) \cap (pendingRequests \cup releasePromises) = {}
         THEN mainQueue
         ELSE Append(mainQueue, [type |-> "goingAway", client |-> c])
    /\ UNCHANGED <<requests, aborted, running, tasks, toContext, registryVars>>

(* The context leaves the contexts map, with its tasks and its manager.    *)
ContextDestroyed(c) ==
    /\ status[c] = "stopped"
    /\ status' = [status EXCEPT ![c] = "destroyed"]
    /\ running' = running \ IdsOf(c)
    /\ tasks' = [tasks EXCEPT ![c] = <<>>]
    /\ toContext' = [w \in Workers |-> IF w = c THEN <<>> ELSE toContext[w]]
    /\ UNCHANGED <<requests, aborted, pendingRequests, releasePromises,
                   mainQueue, registryVars>>

-----------------------------------------------------------------------------
(* The registry's answers                                                  *)

Answer(type, ids) == [i \in DOMAIN ids |-> [type |-> type, id |-> ids[i]]]

(* The handlers that request() and signalToAbortTheRequest() left with the *)
(* bridge: queue the task for a grant or a denial, reject the promise of a *)
(* stolen lock, forget an aborted request.                                 *)
HandleAnswers(answers) ==
    /\ tasks' = [c \in Clients |-> tasks[c] \o Selected(answers,
            [type : {"granted", "denied"}, id : IdsOf(c)])]
    /\ releasePromises' = releasePromises \
            {a.id : a \in {a \in ToSet(answers) : a.type = "stolen"}}
    /\ pendingRequests' = pendingRequests \
            {a.id : a \in {a \in ToSet(answers) : a.type = "aborted"}}

(* The answers are named, so that TLC determines them once.                *)
EnsureOnContextThread(given) ==
    \E answers \in {given} :
        /\ HandleAnswers(Selected(answers, {a \in ToSet(answers) :
                ClientOf(a.id) \in Documents /\ status[ClientOf(a.id)] # "destroyed"}))
        /\ toContext' = [c \in Workers |->
                IF status[c] = "destroyed" THEN toContext[c]
                ELSE toContext[c] \o Selected(answers,
                                    {a \in ToSet(answers) : ClientOf(a.id) = c})]

(* A worker's thread runs the next answer posted to it.                    *)
WorkerRunsAnswer(c) ==
    /\ toContext[c] # <<>>
    /\ HandleAnswers(<<Head(toContext[c])>>)
    /\ toContext' = [toContext EXCEPT ![c] = Tail(@)]
    /\ UNCHANGED <<scriptVars, mainQueue, registryVars>>

-----------------------------------------------------------------------------
(* LocalWebLockRegistry, on the main thread                                *)

(* Mutant: a shared request is granted whoever holds the lock.             *)
SharedAlwaysGrantable(id, q, held) ==
    /\ q # <<>> => Head(q) = id
    /\ requests[id].mode = "exclusive" => held = <<>>

(* isGrantable(), the request's queue being q and the held locks held.     *)
IsGrantable(id, q, held) ==
    /\ q # <<>> => Head(q) = id
    /\ CASE requests[id].mode = "exclusive" -> held = <<>>
         [] requests[id].mode = "shared" ->
                held = <<>> \/ requests[Head(held)].mode # "exclusive"

(* How many requests the loop of processLockRequestQueue() grants: each is *)
(* the head of what is left, and counts as held for the next.              *)
NumberGranted(q, held) ==
    CHOOSE k \in 0..Len(q) :
        /\ \A i \in 1..k : IsGrantable(q[i], SubSeq(q, i, Len(q)),
                                       held \o SubSeq(q, 1, i - 1))
        /\ k < Len(q) => ~IsGrantable(q[k + 1], SubSeq(q, k + 1, Len(q)),
                                      held \o SubSeq(q, 1, k))

ProcessLockRequestQueue(q, held) ==
    LET k == NumberGranted(q, held) IN
    [queue   |-> SubSeq(q, k + 1, Len(q)),
     held    |-> held \o SubSeq(q, 1, k),
     granted |-> SubSeq(q, 1, k)]

(* Process the queue of name n from (q, held); answer before, then the     *)
(* grants, then after.                                                     *)
ProcessName(n, q, held, before, after) ==
    LET p == ProcessLockRequestQueue(q, held) IN
    /\ lockRequestQueueMap' = [lockRequestQueueMap EXCEPT ![n] = p.queue]
    /\ heldLocks' = [heldLocks EXCEPT ![n] = p.held]
    /\ EnsureOnContextThread(before \o Answer("granted", p.granted) \o after)

(* Mutant: every request is prepended.                                     *)
RequestJumpsQueue(id) ==
    LET n == NameOf(id)
        held == heldLocks[n] IN
    ProcessName(n, <<id>> \o lockRequestQueueMap[n],
                IF requests[id].kind = "steal" THEN <<>> ELSE held,
                Answer("stolen", IF requests[id].kind = "steal" THEN held ELSE <<>>),
                <<>>)

(* requestLock(): a thief empties the held locks and goes first; a request *)
(* that only wants an available lock is denied; any other waits its turn.  *)
RequestLock(id) ==
    LET n == NameOf(id)
        q == lockRequestQueueMap[n]
        held == heldLocks[n] IN
    CASE requests[id].kind = "steal" ->
            ProcessName(n, <<id>> \o q, <<>>, Answer("stolen", held), <<>>)
      [] requests[id].kind = "ifAvailable" /\ ~IsGrantable(id, q, held) ->
            /\ EnsureOnContextThread(Answer("denied", <<id>>))
            /\ UNCHANGED registryVars
      [] OTHER ->
            ProcessName(n, Append(q, id), held, <<>>, <<>>)

(* Mutant: whatever is held first is released, not the identifier.         *)
ReleaseFirstHeld(id) ==
    LET n == NameOf(id) IN
    \/ /\ heldLocks[n] = <<>>
       /\ UNCHANGED <<registryVars, clientVars, toContext>>
    \/ /\ heldLocks[n] # <<>>
       /\ ProcessName(n, lockRequestQueueMap[n], Tail(heldLocks[n]), <<>>, <<>>)

(* Mutant: the queue is not processed after the release.                   *)
ReleaseWithoutProcessing(id) ==
    LET n == NameOf(id) IN
    /\ heldLocks' = [heldLocks EXCEPT ![n] = RemoveFirst(@, id)]
    /\ UNCHANGED <<lockRequestQueueMap, clientVars, toContext>>

(* An identifier that is not held any more (stolen, or its client went     *)
(* away) is not found, and the queue is processed all the same, unless     *)
(* nothing at all is held under the name.                                  *)
ReleaseLock(id) ==
    LET n == NameOf(id) IN
    \/ /\ heldLocks[n] = <<>>
       /\ UNCHANGED <<registryVars, clientVars, toContext>>
    \/ /\ heldLocks[n] # <<>>
       /\ ProcessName(n, lockRequestQueueMap[n], RemoveFirst(heldLocks[n], id),
                      <<>>, <<>>)

(* Mutant: the queue is not processed when its head is aborted.            *)
AbortWithoutProcessing(id) ==
    LET n == NameOf(id)
        q == lockRequestQueueMap[n]
        found == Contains(q, id) IN
    /\ EnsureOnContextThread(Answer(IF found THEN "aborted" ELSE "notAborted", <<id>>))
    /\ lockRequestQueueMap' = [lockRequestQueueMap EXCEPT ![n] = RemoveFirst(q, id)]
    /\ UNCHANGED heldLocks

(* abortLockRequest(): only a queued request can be aborted; the next one  *)
(* may then be grantable.                                                  *)
AbortLockRequest(id) ==
    LET n == NameOf(id)
        q == lockRequestQueueMap[n] IN
    \/ /\ ~Contains(q, id)
       /\ EnsureOnContextThread(Answer("notAborted", <<id>>))
       /\ UNCHANGED registryVars
    \/ /\ Contains(q, id)
       /\ ProcessName(n, RemoveFirst(q, id), heldLocks[n], <<>>,
                      Answer("aborted", <<id>>))

(* clientsAreGoingAway(): drop what the client asked for and holds, then   *)
(* process the queues that changed, in the order of a HashSet.             *)
ClientIsGoingAway(c) ==
    LET Others(ids) == Selected(ids, Ids \ IdsOf(c))
        changed == {n \in Names : \/ Others(lockRequestQueueMap[n]) # lockRequestQueueMap[n]
                                  \/ Others(heldLocks[n]) # heldLocks[n]}
        p == [n \in changed |-> ProcessLockRequestQueue(
                    Others(lockRequestQueueMap[n]), Others(heldLocks[n]))] IN
    /\ lockRequestQueueMap' = [n \in Names |->
            IF n \in changed THEN p[n].queue ELSE lockRequestQueueMap[n]]
    /\ heldLocks' = [n \in Names |->
            IF n \in changed THEN p[n].held ELSE heldLocks[n]]
    /\ \E order \in SetToSeqs(changed) :
            EnsureOnContextThread(Answer("granted",
                FlattenSeq([i \in DOMAIN order |-> p[order[i]].granted])))

(* The main thread runs the next function posted to it.                    *)
MainThread(type) ==
    /\ mainQueue # <<>>
    /\ Head(mainQueue).type = type
    /\ mainQueue' = Tail(mainQueue)
    /\ UNCHANGED scriptVars

RunRequest   == MainThread("request") /\ RequestLock(Head(mainQueue).id)
RunRelease   == MainThread("release") /\ ReleaseLock(Head(mainQueue).id)
RunAbort     == MainThread("abort") /\ AbortLockRequest(Head(mainQueue).id)
RunGoingAway == MainThread("goingAway") /\ ClientIsGoingAway(Head(mainQueue).client)

-----------------------------------------------------------------------------
MainThreadNext == RunRequest \/ RunRelease \/ RunAbort \/ RunGoingAway

ManagerTask(c) ==
    \/ TaskFindsNoRequest(c)
    \/ TaskAborted(c)
    \/ TaskRunsCallback(c)
    \/ TaskCallbackFails(c)
    \/ TaskDenied(c)

(* What scripts and users do, at a time of their choosing.                 *)
Environment ==
    \/ \E o \in Option : Request(o)
    \/ \E id \in Ids : SignalToAbortTheRequest(id) \/ WaitingPromiseSettles(id)
    \/ \E c \in Clients : Stop(c) \/ ContextDestroyed(c)

(* Every context is gone and nothing is left to run.                       *)
Terminated ==
    /\ \A c \in Clients : status[c] = "destroyed"
    /\ mainQueue = <<>>
    /\ UNCHANGED vars

Next ==
    \/ MainThreadNext
    \/ \E c \in Workers : WorkerRunsAnswer(c)
    \/ \E c \in Clients : ManagerTask(c)
    \/ Environment
    \/ Terminated

Spec == Init /\ [][Next]_vars

(* The queues are drained: the main run loop, a worker's run loop and each *)
(* event loop keep running, and a callback's promise is settled in the     *)
(* end.  Nothing forces a script to make or abort a request.               *)
Fairness ==
    /\ WF_vars(MainThreadNext)
    /\ \A c \in Workers : WF_vars(WorkerRunsAnswer(c))
    /\ \A c \in Clients : WF_vars(ManagerTask(c))
    /\ \A id \in 1..MaxRequests : WF_vars(WaitingPromiseSettles(id))

LiveSpec == Spec /\ Fairness

-----------------------------------------------------------------------------
(* Properties                                                              *)

Posted(type, id) ==
    \E i \in DOMAIN mainQueue : mainQueue[i] = [type |-> type, id |-> id]

Departing(c) ==
    \E i \in DOMAIN mainQueue :
        mainQueue[i] = [type |-> "goingAway", client |-> c]

(* An answer about id that its client has not acted on yet.                *)
OnItsWay(type, id) ==
    LET a == [type |-> type, id |-> id] IN
    \/ Contains(tasks[ClientOf(id)], a)
    \/ ClientOf(id) \in Workers /\ Contains(toContext[ClientOf(id)], a)

Entries(c) ==
    {id \in IdsOf(c) : \E n \in Names : \/ Contains(lockRequestQueueMap[n], id)
                                        \/ Contains(heldLocks[n], id)}

(* Locks held under one name exclude each other unless all are shared, and *)
(* none is held twice, although isGrantable() looks at the mode of the     *)
(* first holder only.                                                      *)
HeldCompatible ==
    \A n \in Names : \A i, j \in DOMAIN heldLocks[n] :
        i # j => /\ heldLocks[n][i] # heldLocks[n][j]
                 /\ requests[heldLocks[n][i]].mode = "shared"
                 /\ requests[heldLocks[n][j]].mode = "shared"

(* Between two functions of the main thread no queue starts with a request *)
(* that could be granted: releasing, stealing, aborting and going away all *)
(* process the queues they may have unblocked.                             *)
NoGrantableWaits ==
    \A n \in Names : LET q == lockRequestQueueMap[n] IN
        q # <<>> => ~IsGrantable(Head(q), q, heldLocks[n])

(* Nothing stays in the registry that nobody will remove: a held lock has  *)
(* a live client about to run, or running, its callback, or its release or *)
(* its client's departure is posted; a queued request is still pending or  *)
(* its client's departure is posted.  (Stop() sends no departure when the  *)
(* manager has neither requests nor promises.)                             *)
NoOrphanedEntry ==
    \A n \in Names :
        /\ \A id \in ToSet(heldLocks[n]) :
            \/ id \in pendingRequests /\ OnItsWay("granted", id)
            \/ id \in running /\ id \in releasePromises
            \/ Posted("release", id)
            \/ Departing(ClientOf(id))
        /\ \A id \in ToSet(lockRequestQueueMap[n]) :
            id \in pendingRequests \/ Departing(ClientOf(id))

(* A script whose callback is running and whose promise is unsettled holds *)
(* the lock, unless it was stolen and the notice that rejects the promise  *)
(* is on the way (only to a worker: a document is told at once).           *)
RunningHoldsLock ==
    \A id \in running \cap releasePromises :
        \/ Contains(heldLocks[NameOf(id)], id)
        \/ OnItsWay("stolen", id)

(* First come, first served: a request that keeps waiting is overtaken by  *)
(* nobody that was not ahead of it in its queue, except by a thief.        *)
FirstComeFirstServed ==
    [][\A n \in Names :
        LET q == lockRequestQueueMap[n] IN
        \A i \in DOMAIN q :
            Contains(lockRequestQueueMap'[n], q[i]) =>
                \A id \in ToSet(heldLocks'[n]) \ ToSet(heldLocks[n]) :
                    \/ requests[id].kind = "steal"
                    \/ \E j \in 1..(i - 1) : q[j] = id]_vars

(* Every promise request() returned is settled, or its context goes away.  *)
PromisesSettle ==
    \A id \in 1..MaxRequests :
        (id \in releasePromises) ~> (id \notin releasePromises)

(* Once a client has stopped, the registry is rid of it for good, whatever *)
(* was on its way to the registry at that moment.                          *)
DepartedLeaveNothing ==
    \A c \in Clients : (status[c] # "active") ~> [](Entries(c) = {})

=============================================================================
