---------------------------- MODULE MessagePorts ----------------------------
(***************************************************************************)
(* The two ends of a MessageChannel in WebCore. A MessagePort object       *)
(* (dom/MessagePort.cpp) belongs to the thread of a context; the messages  *)
(* wait in a MessagePortChannel (dom/messageports), which only the main    *)
(* thread touches; and when an end is transferred, a new object with the   *)
(* same identifier replaces the old one, perhaps on another thread.        *)
(*                                                                         *)
(* Messages are posted at "port1" and go to "port2". What carries a port   *)
(* that is transferred (another channel, a worker's postMessage) is left   *)
(* out, but for its order with the disentangling of the port.              *)
(***************************************************************************)
EXTENDS Naturals, Sequences, SequencesExt

CONSTANTS
  Main,         \* a Document's context, on the main thread
  Workers,      \* contexts with threads of their own
  None,
  MaxPosts,     \* bound: messages posted
  MaxTransfers  \* bound: transfers of either port

ASSUME NamesAssumption == Main \notin Workers /\ None \notin Workers \cup {Main}

Ports == {"port1", "port2"}
Contexts == Workers \cup {Main}

VARIABLES
  context,    \* context[p]: the context of p's present object, None once it is disentangled
  object,     \* object[p]: which object that is
  alive,      \* the objects of port2 that are not destroyed
  detached,   \* the objects <<p, o>> with m_isDetached
  started,    \* m_started of port2's present object
  entry,      \* port2's entry in allMessagePorts and in portToContextIdentifier
  channel,    \* the MessagePortChannel
  mainQueue,  \* tasks the workers have posted to the main thread
  inbox,      \* inbox[w]: tasks the main thread has posted to w
  soon,       \* soon[c]: m_willprocessMessageWithMessagePortsSoon
  events,     \* events[c]: the message events in c's event loop
  suspended,  \* the Document's m_activeDOMObjectsAreSuspended
  crashed,
  posted, transfers,
  delivered   \* history: the messages whose events port2 has dispatched

portVars == <<context, object, alive, detached, started, entry>>
threadVars == <<inbox, soon, events>>
boundVars == <<suspended, posted, transfers>>
vars == <<portVars, channel, mainQueue, threadVars, boundVars, crashed, delivered>>

(* Script has made a MessageChannel in any of the contexts.                *)
Init ==
  \E c \in Contexts :
    /\ context = [p \in Ports |-> c]
    /\ object = [p \in Ports |-> 0]
    /\ alive = {0}
    /\ detached = {}
    /\ started = FALSE
    /\ entry = [object |-> 0, context |-> c]
    /\ channel = [open |-> c = Main, entangled |-> [p \in Ports |-> c = Main],
                  transferring |-> [p \in Ports |-> FALSE],
                  pending |-> <<>>, protected |-> FALSE, inFlight |-> 0]
    /\ mainQueue = IF c = Main THEN <<>> ELSE <<[type |-> "create"]>>
    /\ inbox = [w \in Workers |-> <<>>]
    /\ soon = [d \in Contexts |-> FALSE]
    /\ events = [d \in Contexts |-> <<>>]
    /\ suspended = FALSE
    /\ crashed = FALSE
    /\ posted = 0
    /\ transfers = 0
    /\ delivered = <<>>

RunsScript(c) == c = Main => ~suspended

IsDetached(p) == <<p, object[p]>> \in detached

(* Whether object o of port2 is the present one, and has a context. *)
IsPresent(o) == o = object["port2"] /\ context["port2"] # None

-----------------------------------------------------------------------------
(*                            The main thread                              *)

(* Once nothing refers to the channel, it removes itself from the registry. *)
Referenced(ch) ==
  \/ \E p \in Ports : ch.entangled[p] \/ ch.transferring[p]
  \/ ch.protected
  \/ ch.inFlight > 0

AfterRelease(ch) == [ch EXCEPT !.open = Referenced(ch)]

(* processMessageWithMessagePortsSoon *)
ProcessSoon(c) == soon' = [soon EXCEPT ![c] = TRUE]

(* messageAvailable of the object in allMessagePorts. *)
MessageAvailable ==
  IF entry # None /\ IsPresent(entry.object) /\ RunsScript(context["port2"])
  THEN ProcessSoon(context["port2"])
  ELSE UNCHANGED soon

NotifyMessageAvailable ==
  IF entry # None /\ entry.context \in Workers
  THEN /\ inbox' = [inbox EXCEPT ![entry.context] = Append(@, [type |-> "notify"])]
       /\ UNCHANGED <<soon, events>>
  ELSE MessageAvailable /\ UNCHANGED <<inbox, events>>

(* dispatchMessages' messagesTakenHandler for object o, in its context c: *)
(* an event for every message, unless the object has lost its context.    *)
MessagesTaken(c, o, messages) ==
  events' = [events EXCEPT ![c] =
    IF IsPresent(o) THEN @ \o [i \in DOMAIN messages |-> [object |-> o, message |-> messages[i]]] ELSE @]

(* PendingAfterTake if the messages were copied out of the channel. *)
PendingKept == channel.pending

PendingAfterTake == <<>>

TakeAllMessages(c, o) ==
  LET taken == [channel EXCEPT !.pending = PendingAfterTake, !.protected = FALSE]
  IN \/ /\ channel.open /\ channel.pending # <<>> /\ c = Main
        /\ channel' = AfterRelease(taken)
        /\ MessagesTaken(c, o, channel.pending)
        /\ UNCHANGED inbox
     \/ /\ channel.open /\ channel.pending # <<>> /\ c # Main
        /\ channel' = [taken EXCEPT !.inFlight = @ + 1]
        /\ inbox' = [inbox EXCEPT ![c] =
                       Append(@, [type |-> "taken", object |-> o, messages |-> channel.pending])]
        /\ UNCHANGED events
     \/ /\ ~channel.open \/ channel.pending = <<>>
        /\ UNCHANGED <<channel, inbox, events>>

Create ==
  /\ channel' = [channel EXCEPT !.open = TRUE, !.entangled = [p \in Ports |-> TRUE]]
  /\ UNCHANGED threadVars

EntanglePort(p) ==
  /\ channel' = [channel EXCEPT !.entangled[p] = TRUE, !.transferring[p] = FALSE]
  /\ UNCHANGED threadVars

DisentanglePort(p) ==
  /\ channel' = [channel EXCEPT !.entangled[p] = FALSE, !.transferring[p] = TRUE]
  /\ UNCHANGED threadVars

ClosePort(p) ==
  /\ LET ch == [channel EXCEPT !.entangled[p] = FALSE, !.transferring[p] = FALSE]
     IN channel' = AfterRelease(IF p = "port1" THEN ch
                                ELSE [ch EXCEPT !.pending = <<>>, !.protected = FALSE])
  /\ UNCHANGED threadVars

PostMessageToRemote(m) ==
  /\ channel' = [channel EXCEPT !.pending = Append(@, m), !.protected = TRUE]
  /\ IF channel.pending = <<>> THEN NotifyMessageAvailable ELSE UNCHANGED threadVars

BatchCompleted ==
  /\ channel' = AfterRelease([channel EXCEPT !.inFlight = @ - 1])
  /\ UNCHANGED threadVars

(* The registry does nothing for a channel that is gone. *)
Execute(t) ==
  \/ t.type = "create" /\ Create
  \/ t.type = "take" /\ TakeAllMessages(t.context, t.object) /\ UNCHANGED soon
  \/ /\ channel.open
     /\ \/ t.type = "entangle" /\ EntanglePort(t.port)
        \/ t.type = "disentangle" /\ DisentanglePort(t.port)
        \/ t.type = "close" /\ ClosePort(t.port)
        \/ t.type = "post" /\ PostMessageToRemote(t.message)
        \/ t.type = "completed" /\ BatchCompleted
  \/ t.type \notin {"create", "take"} /\ ~channel.open /\ UNCHANGED <<channel, threadVars>>

MainThreadStep ==
  /\ ~crashed
  /\ mainQueue # <<>>
  /\ mainQueue' = Tail(mainQueue)
  /\ Execute(Head(mainQueue))
  /\ UNCHANGED <<portVars, boundVars, crashed, delivered>>

(* ensureOnMainThread, from context c. *)
OnMainThread(c, t) ==
  IF c = Main
  THEN Execute(t) /\ UNCHANGED mainQueue
  ELSE mainQueue' = Append(mainQueue, t) /\ UNCHANGED <<channel, threadVars>>

-----------------------------------------------------------------------------
(*                          Script at the two ports                        *)

PostMessage ==
  LET c == context["port1"]
  IN /\ ~crashed
     /\ c # None /\ RunsScript(c) /\ ~IsDetached("port1")
     /\ posted < MaxPosts
     /\ posted' = posted + 1
     /\ OnMainThread(c, [type |-> "post", message |-> posted'])
     /\ UNCHANGED <<portVars, suspended, transfers, crashed, delivered>>

Start ==
  LET c == context["port2"]
  IN /\ ~crashed
     /\ c # None /\ RunsScript(c) /\ ~IsDetached("port2")
     /\ ~started
     /\ started' = TRUE
     /\ ProcessSoon(c)
     /\ UNCHANGED <<context, object, alive, detached, entry, channel, mainQueue, inbox, events, boundVars,
                    crashed, delivered>>

Close(p) ==
  LET c == context[p]
  IN /\ ~crashed
     /\ c # None /\ RunsScript(c) /\ ~IsDetached(p)
     /\ detached' = detached \cup {<<p, object[p]>>}
     /\ OnMainThread(c, [type |-> "close", port |-> p])
     /\ UNCHANGED <<context, object, alive, started, entry, boundVars, crashed, delivered>>

(* A transfer's first half. A port that was closed can be transferred too. *)
Disentangle(p) ==
  LET c == context[p]
  IN /\ ~crashed
     /\ c # None /\ RunsScript(c)
     /\ transfers < MaxTransfers
     /\ transfers' = transfers + 1
     /\ context' = [context EXCEPT ![p] = None]
     /\ OnMainThread(c, [type |-> "disentangle", port |-> p])
     /\ UNCHANGED <<object, alive, detached, started, entry, suspended, posted, crashed, delivered>>

(* Its second half, in context c. The port comes by way of the main thread *)
(* queue, or at least after its disentangling has gone there.              *)
Entangle(p, c) ==
  /\ ~crashed
  /\ context[p] = None /\ RunsScript(c)
  /\ c = Main => ~Contains(mainQueue, [type |-> "disentangle", port |-> p])
  /\ context' = [context EXCEPT ![p] = c]
  /\ object' = [object EXCEPT ![p] = @ + 1]
  /\ OnMainThread(c, [type |-> "entangle", port |-> p])
  /\ IF p = "port2"
     THEN /\ entry' = [object |-> object'[p], context |-> c]
          /\ alive' = alive \cup {object'[p]}
          /\ started' = FALSE
     ELSE UNCHANGED <<entry, alive, started>>
  /\ UNCHANGED <<detached, boundVars, crashed, delivered>>

(* OwnsEntry if deref did not compare the entry with the object. *)
AnyEntry(o) == entry # None

OwnsEntry(o) == entry # None /\ entry.object = o

(* The last reference to an old object of port2 goes away: deref. *)
Destroy(o) ==
  /\ ~crashed
  /\ ~IsPresent(o)
  /\ \A i \in DOMAIN mainQueue : mainQueue[i].type = "take" => mainQueue[i].object # o
  /\ \A w \in Workers : \A i \in DOMAIN inbox[w] : inbox[w][i].type = "taken" => inbox[w][i].object # o
  /\ \A c \in Contexts : \A i \in DOMAIN events[c] : events[c][i].object # o
  /\ alive' = alive \ {o}
  /\ entry' = IF OwnsEntry(o) THEN None ELSE entry
  /\ UNCHANGED <<context, object, detached, started, channel, mainQueue, threadVars, boundVars, crashed, delivered>>

-----------------------------------------------------------------------------
(*                        The threads of the contexts                      *)

(* notifyMessageAvailable's task. The object it finds may have its context *)
(* on another thread by now; what messageAvailable does there is a race,   *)
(* which may come to the same or end in a crash.                           *)
NotifyTask(w) ==
  /\ Head(inbox[w]).type = "notify"
  /\ MessageAvailable
  /\ crashed' \in IF soon' # soon /\ context["port2"] # w THEN BOOLEAN ELSE {FALSE}
  /\ UNCHANGED <<events, mainQueue>>

TakenTask(w) ==
  LET t == Head(inbox[w])
  IN /\ t.type = "taken"
     /\ MessagesTaken(w, t.object, t.messages)
     /\ mainQueue' = Append(mainQueue, [type |-> "completed"])
     /\ UNCHANGED <<soon, crashed>>

WorkerStep(w) ==
  /\ ~crashed
  /\ inbox[w] # <<>>
  /\ NotifyTask(w) \/ TakenTask(w)
  /\ inbox' = [inbox EXCEPT ![w] = Tail(@)]
  /\ UNCHANGED <<portVars, channel, boundVars, delivered>>

(* dispatchMessagePortEvents, and dispatchMessages if port2 is here. *)
DispatchMessagePortEvents(c) ==
  /\ ~crashed
  /\ soon[c]
  /\ soon' = [soon EXCEPT ![c] = FALSE]
  /\ IF context["port2"] = c /\ started /\ RunsScript(c) /\ ~IsDetached("port2")
     THEN IF c = Main
          THEN TakeAllMessages(c, object["port2"]) /\ UNCHANGED mainQueue
          ELSE /\ mainQueue' = Append(mainQueue, [type |-> "take", context |-> c, object |-> object["port2"]])
               /\ UNCHANGED <<channel, inbox, events>>
     ELSE UNCHANGED <<channel, inbox, events, mainQueue>>
  /\ UNCHANGED <<portVars, boundVars, crashed, delivered>>

(* dispatchEvent. It drops the event if the object was closed, and has no  *)
(* answer to an object that was disentangled: it reads its context.        *)
DispatchEvent(c) ==
  LET e == Head(events[c])
  IN /\ ~crashed
     /\ events[c] # <<>> /\ RunsScript(c)
     /\ events' = [events EXCEPT ![c] = Tail(@)]
     /\ IF <<"port2", e.object>> \in detached
        THEN UNCHANGED <<crashed, delivered>>
        ELSE IF IsPresent(e.object)
             THEN delivered' = Append(delivered, e.message) /\ UNCHANGED crashed
             ELSE crashed' = TRUE /\ UNCHANGED delivered
     /\ UNCHANGED <<portVars, channel, mainQueue, inbox, soon, boundVars>>

(* suspendActiveDOMObjects of the Document, and resumeActiveDOMObjects. *)
Suspend ==
  /\ ~crashed /\ ~suspended
  /\ suspended' = TRUE
  /\ UNCHANGED <<portVars, channel, mainQueue, threadVars, posted, transfers, crashed, delivered>>

(* SoonAfterResume if the messages that came meanwhile were forgotten. *)
SoonAsBefore == soon[Main]

SoonAfterResume == TRUE

Resume ==
  /\ ~crashed /\ suspended
  /\ suspended' = FALSE
  /\ soon' = [soon EXCEPT ![Main] = SoonAfterResume]
  /\ UNCHANGED <<portVars, channel, mainQueue, inbox, events, posted, transfers, crashed, delivered>>

-----------------------------------------------------------------------------
Next ==
  \/ MainThreadStep
  \/ PostMessage \/ Start
  \/ \E p \in Ports : Close(p) \/ Disentangle(p) \/ \E c \in Contexts : Entangle(p, c)
  \/ \E o \in alive : Destroy(o)
  \/ \E w \in Workers : WorkerStep(w)
  \/ \E c \in Contexts : DispatchMessagePortEvents(c) \/ DispatchEvent(c)
  \/ Suspend \/ Resume

(* Run loops and event loops run their tasks; what script does, and when   *)
(* the Document is resumed, is up to others.                               *)
Spec ==
  /\ Init /\ [][Next]_vars
  /\ WF_vars(MainThreadStep)
  /\ \A w \in Workers : WF_vars(WorkerStep(w))
  /\ \A c \in Contexts : WF_vars(DispatchMessagePortEvents(c)) /\ WF_vars(DispatchEvent(c))

-----------------------------------------------------------------------------
(*                               Properties                                *)

(* A port gets its messages in the order in which they were posted, none   *)
(* twice, wherever the two ends are and however often either of them is    *)
(* transferred; and none is skipped at a port that was never transferred.  *)
DeliveredInOrder ==
  /\ \A i, j \in DOMAIN delivered : i < j => delivered[i] < delivered[j]
  /\ object["port2"] = 0 => \A i \in DOMAIN delivered : delivered[i] = i

IsWaiting(m) ==
  \/ Contains(mainQueue, [type |-> "post", message |-> m])
  \/ channel.open /\ Contains(channel.pending, m)
  \/ \E w \in Workers : \E i \in DOMAIN inbox[w] :
       inbox[w][i].type = "taken" /\ Contains(inbox[w][i].messages, m)
  \/ \E c \in Contexts : \E i \in DOMAIN events[c] : events[c][i] = [object |-> object["port2"], message |-> m]

IsReady ==
  /\ ~crashed
  /\ context["port2"] # None /\ RunsScript(context["port2"])
  /\ started /\ ~IsDetached("port2")

(* No message is stuck: if port2 comes to rest in a context that runs, and *)
(* is started and not closed, nothing that was posted waits for ever, in   *)
(* the channel or on its way to this port, although only the first of the  *)
(* pending messages is announced and the announcement may reach an old     *)
(* object. (The messages are finitely many, so none waits for ever if      *)
(* again and again none waits.)                                            *)
NoMessageStuck == []<>(IsReady => \A m \in 1..MaxPosts : ~IsWaiting(m))
=============================================================================
