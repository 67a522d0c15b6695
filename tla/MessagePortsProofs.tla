------------------------- MODULE MessagePortsProofs -------------------------
(***************************************************************************)
(* Messages reach port2 in the order in which they were posted.            *)
(*                                                                         *)
(* A message passes through five places: the main thread's queue, the      *)
(* channel, a batch on its way to the thread of the port, an event there,  *)
(* and the port's listener. The invariant says that whatever is further    *)
(* on was posted earlier, and that within each place the order is the      *)
(* order of posting. What has left the channel is only compared for the    *)
(* present object of port2: batches and events of an old object may be     *)
(* anywhere, but never reach a listener.                                   *)
(***************************************************************************)
EXTENDS MessagePorts, Integers, TLAPS

Tasks ==
  [type : {"create", "completed"}]
    \cup [type : {"entangle", "disentangle", "close"}, port : Ports]
    \cup [type : {"post"}, message : Nat]
    \cup [type : {"take"}, context : Workers, object : Nat]

InboxTasks ==
  [type : {"notify"}]
    \cup [type : {"taken"}, object : Nat, messages : Seq(Nat)]

EventTasks == [object : Nat, message : Nat]

Channels ==
  [open : BOOLEAN, entangled : [Ports -> BOOLEAN],
   transferring : [Ports -> BOOLEAN], pending : Seq(Nat),
   protected : BOOLEAN, inFlight : Int]

TypeInv ==
  /\ context \in [Ports -> Contexts \cup {None}]
  /\ object \in [Ports -> Nat]
  /\ channel \in Channels
  /\ mainQueue \in Seq(Tasks)
  /\ inbox \in [Workers -> Seq(InboxTasks)]
  /\ events \in [Contexts -> Seq(EventTasks)]
  /\ posted \in Nat
  /\ delivered \in Seq(Nat)

Present == object["port2"]
Home == context["port2"]

-----------------------------------------------------------------------------
(*                    The places a message passes through                  *)

Post(m) == [type |-> "post", message |-> m]
Leave(p) == [type |-> "disentangle", port |-> p]
Shut(p) == [type |-> "close", port |-> p]

IsBatch(t, o) == t.type = "taken" /\ t.object = o

Has(s, x) == \E i \in 1..Len(s) : s[i] = x
HasBatch(s, o, m) == \E i \in 1..Len(s) : IsBatch(s[i], o) /\ Has(s[i].messages, m)

HasPost(s, m) == \E i \in 1..Len(s) : s[i].type = "post" /\ s[i].message = m
HasEvent(s, o, m) == \E i \in 1..Len(s) : s[i].object = o /\ s[i].message = m

Queued(m) == HasPost(mainQueue, m)
Pends(m) == Has(channel.pending, m)
Batched(o, m) == \E w \in Workers : HasBatch(inbox[w], o, m)
Event(o, m) == \E c \in Contexts : HasEvent(events[c], o, m)
Done(m) == Has(delivered, m)

(* m has left the channel. *)
Taken(m) == Done(m) \/ \E o : Batched(o, m) \/ Event(o, m)

Increasing(s) == \A i, j \in 1..Len(s) : i < j => s[i] < s[j]

PostsSorted(s) ==
  \A i, j \in 1..Len(s) :
    s[i].type = "post" /\ s[j].type = "post" /\ i < j => s[i].message < s[j].message

BatchesSorted(s, o) ==
  /\ \A i \in 1..Len(s) : IsBatch(s[i], o) => Increasing(s[i].messages)
  /\ \A i, j \in 1..Len(s) : IsBatch(s[i], o) /\ IsBatch(s[j], o) /\ i < j =>
       \A m, n : Has(s[i].messages, m) /\ Has(s[j].messages, n) => m < n

EventsSorted(s, o) ==
  \A i, j \in 1..Len(s) :
    s[i].object = o /\ s[j].object = o /\ i < j => s[i].message < s[j].message

(* Within each place the order is that of posting. *)
SortedInv ==
  /\ PostsSorted(mainQueue)
  /\ Increasing(channel.pending)
  /\ \A w \in Workers : BatchesSorted(inbox[w], Present)
  /\ \A c \in Contexts : EventsSorted(events[c], Present)
  /\ Increasing(delivered)

(* What is further on was posted earlier. *)
LineInv ==
  /\ \A m : Queued(m) \/ Pends(m) \/ Taken(m) => m \in 1..posted
  /\ \A m, n : Pends(m) /\ Queued(n) => m < n
  /\ \A m, n : Taken(m) /\ (Pends(n) \/ Queued(n)) => m < n
  /\ \A m, n : Done(m) /\ (Event(Present, n) \/ Batched(Present, n)) => m < n
  /\ \A m, n : Event(Present, m) /\ Batched(Present, n) => m < n

(* Objects are numbered as they come, and what is meant for the present    *)
(* one is where its context is.                                            *)
TakesPlaced ==
  \A i \in 1..Len(mainQueue) : mainQueue[i].type = "take" =>
    /\ mainQueue[i].object <= Present
    /\ IsPresent(mainQueue[i].object) => mainQueue[i].context = Home

BatchesPlaced ==
  \A w \in Workers : \A i \in 1..Len(inbox[w]) : inbox[w][i].type = "taken" =>
    /\ inbox[w][i].object <= Present
    /\ IsPresent(inbox[w][i].object) => w = Home

EventsPlaced ==
  \A c \in Contexts : \A i \in 1..Len(events[c]) :
    /\ events[c][i].object <= Present
    /\ IsPresent(events[c][i].object) => c = Home

PlaceInv == TakesPlaced /\ BatchesPlaced /\ EventsPlaced

(* When port1 leaves a worker, its disentangling goes to the main thread   *)
(* behind all it has posted; so the Document never overtakes a worker.     *)
PostsInv ==
  /\ context["port1"] \notin Workers =>
       \A i \in 1..Len(mainQueue) : mainQueue[i].type = "post" =>
         \E j \in (i + 1)..Len(mainQueue) : mainQueue[j] = Leave("port1")
  /\ context["port1"] = Main => ~Has(mainQueue, Leave("port1"))

(* port2's first object has neither been transferred nor closed. *)
NeverLeft == Present = 0 /\ Home # None /\ <<"port2", 0>> \notin detached

(* Until then no message is lost, *)
CompleteInv ==
  /\ Present = 0 => \A i \in 1..Len(delivered) : delivered[i] = i
  /\ NeverLeft => \A m \in 1..posted :
       Queued(m) \/ Pends(m) \/ Batched(0, m) \/ Event(0, m) \/ Done(m)

(* because the channel is open, or about to be created before the main     *)
(* thread does anything else for the two ports.                            *)
OpenInv ==
  NeverLeft =>
    /\ ~Has(mainQueue, Leave("port2")) /\ ~Has(mainQueue, Shut("port2"))
    /\ \/ channel.open /\ channel.entangled["port2"]
       \/ /\ mainQueue # <<>> /\ Head(mainQueue).type = "create"
          /\ Home # Main /\ context["port1"] # Main
          /\ context["port1"] = None => Has(mainQueue, Leave("port1"))

OrderInv == TypeInv /\ SortedInv /\ LineInv /\ PlaceInv

IInv == OrderInv /\ PostsInv /\ CompleteInv /\ OpenInv

-----------------------------------------------------------------------------
(*                               Sequences                                 *)

(* What is at the head of a queue, and behind it. *)
LEMMA TailIs ==
  ASSUME NEW T, NEW s \in Seq(T), s # <<>>
  PROVE  /\ Tail(s) \in Seq(T) /\ Len(Tail(s)) = Len(s) - 1 /\ Len(s) \in Nat /\ Len(s) > 0
         /\ Head(s) = s[1] /\ Head(s) \in T
         /\ \A i \in 1..Len(Tail(s)) : i + 1 \in 2..Len(s) /\ Tail(s)[i] = s[i + 1]
         /\ \A i \in 2..Len(s) : i - 1 \in 1..Len(Tail(s)) /\ s[i] = Tail(s)[i - 1]
         /\ \A x : Has(s, x) <=> Head(s) = x \/ Has(Tail(s), x)
<1>1. /\ Tail(s) \in Seq(T) /\ Len(Tail(s)) = Len(s) - 1 /\ Len(s) \in Nat /\ Len(s) > 0
      /\ Head(s) = s[1] /\ Head(s) \in T
  OBVIOUS
<1>2. \A i \in 1..Len(Tail(s)) : i + 1 \in 2..Len(s) /\ Tail(s)[i] = s[i + 1]
  OBVIOUS
<1>3. \A i \in 2..Len(s) : i - 1 \in 1..Len(Tail(s)) /\ s[i] = Tail(s)[i - 1]
  BY <1>1, <1>2
<1>4. \A x : Has(s, x) => Head(s) = x \/ Has(Tail(s), x)
  BY <1>1, <1>3 DEF Has
<1>5. \A x : Head(s) = x \/ Has(Tail(s), x) => Has(s, x)
  BY <1>1, <1>2 DEF Has
<1> QED
  BY <1>1, <1>2, <1>3, <1>4, <1>5

(* What is in a queue after something was put at its end. *)
LEMMA AppendIs ==
  ASSUME NEW T, NEW s \in Seq(T), NEW t \in T
  PROVE  /\ Append(s, t) \in Seq(T) /\ Len(Append(s, t)) = Len(s) + 1 /\ Len(s) \in Nat
         /\ Append(s, t)[Len(s) + 1] = t
         /\ \A i \in 1..Len(s) : i \in 1..Len(Append(s, t)) /\ Append(s, t)[i] = s[i]
         /\ \A i \in 1..Len(Append(s, t)) :
              (i \in 1..Len(s) /\ Append(s, t)[i] = s[i]) \/ (i = Len(s) + 1 /\ Append(s, t)[i] = t)
         /\ \A x : Has(Append(s, t), x) <=> Has(s, x) \/ x = t
<1>1. /\ Append(s, t) \in Seq(T) /\ Len(Append(s, t)) = Len(s) + 1 /\ Len(s) \in Nat
      /\ Append(s, t)[Len(s) + 1] = t
      /\ \A i \in 1..Len(s) : Append(s, t)[i] = s[i]
  OBVIOUS
<1>2. \A x : Has(Append(s, t), x) => Has(s, x) \/ x = t
  BY <1>1 DEF Has
<1>3. \A x : Has(s, x) \/ x = t => Has(Append(s, t), x)
  BY <1>1 DEF Has
<1> QED
  BY <1>1, <1>2, <1>3

(* What is in a concatenation. *)
LEMMA ConcatIs ==
  ASSUME NEW T, NEW s \in Seq(T), NEW u \in Seq(T)
  PROVE  /\ s \o u \in Seq(T) /\ Len(s \o u) = Len(s) + Len(u)
         /\ Len(s) \in Nat /\ Len(u) \in Nat
         /\ \A i \in 1..Len(s) : i \in 1..Len(s \o u) /\ (s \o u)[i] = s[i]
         /\ \A i \in 1..Len(s \o u) :
              \/ i \in 1..Len(s) /\ (s \o u)[i] = s[i]
              \/ i - Len(s) \in 1..Len(u) /\ i > Len(s) /\ (s \o u)[i] = u[i - Len(s)]
         /\ \A i \in 1..Len(u) : Len(s) + i \in 1..Len(s \o u) /\ (s \o u)[Len(s) + i] = u[i]
<1>1. /\ s \o u \in Seq(T) /\ Len(s \o u) = Len(s) + Len(u)
      /\ Len(s) \in Nat /\ Len(u) \in Nat
      /\ \A i \in 1..Len(s) : (s \o u)[i] = s[i]
  OBVIOUS
<1>2. \A i \in 1..Len(u) : Len(s) + i \in 1..Len(s \o u) /\ (s \o u)[Len(s) + i] = u[i]
  OBVIOUS
<1>3. \A i \in 1..Len(s \o u) :
         \/ i \in 1..Len(s) /\ (s \o u)[i] = s[i]
         \/ i - Len(s) \in 1..Len(u) /\ i > Len(s) /\ (s \o u)[i] = u[i - Len(s)]
  OBVIOUS
<1> QED
  BY <1>1, <1>2, <1>3

(* A task of the main thread is known by its type. *)
LEMMA TaskIs ==
  ASSUME NEW t \in Tasks
  PROVE  /\ t.type = "post" => t.message \in Nat /\ t = Post(t.message)
         /\ \A m : t = Post(m) => t.type = "post" /\ t.message = m
         /\ t.type = "take" => t.context \in Workers /\ t.object \in Nat
         /\ t.type \in {"entangle", "disentangle", "close"} => t.port \in Ports
         /\ t.type = "disentangle" => t = Leave(t.port)
         /\ t.type = "close" => t = Shut(t.port)
         /\ \A p : (t = Leave(p) => t.type = "disentangle" /\ t.port = p)
                   /\ (t = Shut(p) => t.type = "close" /\ t.port = p)
BY DEF Tasks, Post, Leave, Shut

(* A batch that is put at the end of an inbox, or something else. *)
LEMMA InboxAppend ==
  ASSUME NEW s \in Seq(InboxTasks), NEW t \in InboxTasks, NEW o
  PROVE  /\ \A p, m : HasBatch(Append(s, t), p, m) <=> HasBatch(s, p, m) \/ (IsBatch(t, p) /\ Has(t.messages, m))
         /\ BatchesSorted(s, o)
            /\ (IsBatch(t, o) =>
                 /\ Increasing(t.messages)
                 /\ \A m, n : HasBatch(s, o, m) /\ Has(t.messages, n) => m < n)
            => BatchesSorted(Append(s, t), o)
<1> DEFINE r == Append(s, t)
<1>1. /\ r \in Seq(InboxTasks) /\ Len(r) = Len(s) + 1 /\ Len(s) \in Nat /\ r[Len(s) + 1] = t
      /\ \A i \in 1..Len(s) : i \in 1..Len(r) /\ r[i] = s[i]
      /\ \A i \in 1..Len(r) : (i \in 1..Len(s) /\ r[i] = s[i]) \/ (i = Len(s) + 1 /\ r[i] = t)
  BY AppendIs
<1> HIDE DEF r
<1>2. \A p, m : HasBatch(r, p, m) => HasBatch(s, p, m) \/ (IsBatch(t, p) /\ Has(t.messages, m))
  BY <1>1 DEF HasBatch
<1>3. \A p, m : HasBatch(s, p, m) \/ (IsBatch(t, p) /\ Has(t.messages, m)) => HasBatch(r, p, m)
  BY <1>1 DEF HasBatch
<1>4. ASSUME BatchesSorted(s, o),
             IsBatch(t, o) => Increasing(t.messages),
             IsBatch(t, o) => \A m, n : HasBatch(s, o, m) /\ Has(t.messages, n) => m < n
      PROVE  BatchesSorted(r, o)
  <2>1. \A i \in 1..Len(r) : IsBatch(r[i], o) => Increasing(r[i].messages)
    BY <1>1, <1>4 DEF BatchesSorted
  <2>2. ASSUME NEW i \in 1..Len(r), NEW j \in 1..Len(r), IsBatch(r[i], o), IsBatch(r[j], o), i < j,
               NEW m, NEW n, Has(r[i].messages, m), Has(r[j].messages, n)
        PROVE  m < n
    <3>1. i \in 1..Len(s) /\ r[i] = s[i]
      BY <1>1, <2>2
    <3>2. CASE j \in 1..Len(s)
      BY <1>1, <1>4, <2>2, <3>1, <3>2 DEF BatchesSorted
    <3>3. CASE r[j] = t
      <4>1. HasBatch(s, o, m)
        BY <2>2, <3>1 DEF HasBatch
      <4> QED BY <1>4, <2>2, <3>3, <4>1
    <3> QED BY <1>1, <3>2, <3>3
  <2> QED BY <2>1, <2>2 DEF BatchesSorted
<1> QED
  BY <1>2, <1>3, <1>4 DEF r

(* The first task of an inbox is run. *)
LEMMA InboxTail ==
  ASSUME NEW s \in Seq(InboxTasks), s # <<>>, NEW o
  PROVE  /\ \A p, m : HasBatch(s, p, m) <=>
              (IsBatch(Head(s), p) /\ Has(Head(s).messages, m)) \/ HasBatch(Tail(s), p, m)
         /\ BatchesSorted(s, o) => BatchesSorted(Tail(s), o)
         /\ BatchesSorted(s, o) /\ IsBatch(Head(s), o) =>
              /\ Increasing(Head(s).messages)
              /\ \A m, n : Has(Head(s).messages, m) /\ HasBatch(Tail(s), o, n) => m < n
<1> DEFINE r == Tail(s)
           h == Head(s)
<1>1. /\ r \in Seq(InboxTasks) /\ Len(r) = Len(s) - 1 /\ Len(s) \in Nat /\ Len(s) > 0 /\ h = s[1]
      /\ \A i \in 1..Len(r) : i + 1 \in 2..Len(s) /\ r[i] = s[i + 1]
      /\ \A i \in 2..Len(s) : i - 1 \in 1..Len(r) /\ s[i] = r[i - 1]
  BY TailIs
<1> HIDE DEF r, h
<1>2. \A p, m : HasBatch(s, p, m) => (IsBatch(h, p) /\ Has(h.messages, m)) \/ HasBatch(r, p, m)
  BY <1>1 DEF HasBatch
<1>3. \A p, m : (IsBatch(h, p) /\ Has(h.messages, m)) \/ HasBatch(r, p, m) => HasBatch(s, p, m)
  BY <1>1 DEF HasBatch
<1>4. ASSUME BatchesSorted(s, o)
      PROVE  BatchesSorted(r, o)
  <2>1. ASSUME NEW i \in 1..Len(r), IsBatch(r[i], o)
        PROVE  Increasing(r[i].messages)
    <3>1. i + 1 \in 1..Len(s) /\ r[i] = s[i + 1]
      BY <1>1
    <3> QED BY <1>4, <2>1, <3>1 DEF BatchesSorted
  <2>2. ASSUME NEW i \in 1..Len(r), NEW j \in 1..Len(r), IsBatch(r[i], o), IsBatch(r[j], o), i < j,
               NEW m, NEW n, Has(r[i].messages, m), Has(r[j].messages, n)
        PROVE  m < n
    <3>1. /\ i + 1 \in 1..Len(s) /\ j + 1 \in 1..Len(s) /\ i + 1 < j + 1
          /\ r[i] = s[i + 1] /\ r[j] = s[j + 1]
      BY <1>1, <2>2
    <3> QED BY <1>4, <2>2, <3>1 DEF BatchesSorted
  <2> QED BY <2>1, <2>2 DEF BatchesSorted
<1>5. ASSUME BatchesSorted(s, o), IsBatch(h, o)
      PROVE  /\ Increasing(h.messages)
             /\ \A m, n : Has(h.messages, m) /\ HasBatch(r, o, n) => m < n
  <2>1. 1 \in 1..Len(s) /\ IsBatch(s[1], o)
    BY <1>1, <1>5
  <2>2. Increasing(h.messages)
    BY <1>1, <1>5, <2>1 DEF BatchesSorted
  <2>3. ASSUME NEW m, NEW n, Has(h.messages, m), HasBatch(r, o, n)
        PROVE  m < n
    <3>1. PICK i \in 1..Len(r) : IsBatch(r[i], o) /\ Has(r[i].messages, n)
      BY <2>3 DEF HasBatch
    <3>2. i + 1 \in 1..Len(s) /\ 1 < i + 1 /\ r[i] = s[i + 1]
      BY <1>1
    <3> QED BY <1>1, <1>5, <2>1, <2>3, <3>1, <3>2 DEF BatchesSorted
  <2> QED BY <2>2, <2>3
<1> QED
  BY <1>2, <1>3, <1>4, <1>5 DEF r, h

(* The events of the messages b for object o. *)
EventsOf(b, o) == [i \in DOMAIN b |-> [object |-> o, message |-> b[i]]]

(* There is one for each message, in the same order. *)
LEMMA EventsOfBatch ==
  ASSUME NEW o \in Nat, NEW b \in Seq(Nat)
  PROVE  /\ EventsOf(b, o) \in Seq(EventTasks)
         /\ Len(EventsOf(b, o)) = Len(b) /\ Len(b) \in Nat
         /\ \A i \in 1..Len(b) :
              /\ b[i] \in Nat
              /\ EventsOf(b, o)[i].object = o /\ EventsOf(b, o)[i].message = b[i]
<1>1. DOMAIN b = 1..Len(b) /\ Len(b) \in Nat /\ \A i \in 1..Len(b) : b[i] \in Nat
  OBVIOUS
<1>2. EventsOf(b, o) \in [1..Len(b) -> EventTasks]
  BY <1>1 DEF EventTasks, EventsOf
<1>3. \A i \in 1..Len(b) : EventsOf(b, o)[i].object = o /\ EventsOf(b, o)[i].message = b[i]
  BY <1>1 DEF EventsOf
<1>4. EventsOf(b, o) \in Seq(EventTasks) /\ Len(EventsOf(b, o)) = Len(b)
  BY <1>1, <1>2
<1> QED BY <1>1, <1>3, <1>4

(* They are put behind those of a context. *)
Behind(r, s, o, b) ==
  /\ r \in Seq(EventTasks)
  /\ \A p, m : HasEvent(r, p, m) <=> HasEvent(s, p, m) \/ (p = o /\ Has(b, m))
  /\ \A i \in 1..Len(r) : (\E j \in 1..Len(s) : r[i] = s[j]) \/ r[i].object = o
  /\ \A p : EventsSorted(s, p) /\ Increasing(b)
            /\ (p = o => \A m, n : HasEvent(s, o, m) /\ Has(b, n) => m < n)
       => EventsSorted(r, p)

(* Concatenation does just that. *)
LEMMA EventsConcat ==
  ASSUME NEW s \in Seq(EventTasks), NEW o \in Nat, NEW b \in Seq(Nat)
  PROVE  Behind(s \o EventsOf(b, o), s, o, b)
<1> DEFINE r == s \o EventsOf(b, o)
<1> DEFINE u == EventsOf(b, o)
<1>1. /\ u \in Seq(EventTasks) /\ Len(u) = Len(b) /\ Len(b) \in Nat
      /\ \A i \in 1..Len(b) : b[i] \in Nat /\ u[i].object = o /\ u[i].message = b[i]
  BY EventsOfBatch
<1>0. r = s \o u
  OBVIOUS
<1> HIDE DEF u, r
<1>2. /\ r \in Seq(EventTasks) /\ Len(r) = Len(s) + Len(u) /\ Len(s) \in Nat
      /\ \A i \in 1..Len(s) : i \in 1..Len(r) /\ r[i] = s[i]
      /\ \A i \in 1..Len(r) :
           \/ i \in 1..Len(s) /\ r[i] = s[i]
           \/ i - Len(s) \in 1..Len(u) /\ i > Len(s) /\ r[i] = u[i - Len(s)]
      /\ \A i \in 1..Len(u) : Len(s) + i \in 1..Len(r) /\ r[Len(s) + i] = u[i]
  <2>1. s \in Seq(EventTasks) /\ u \in Seq(EventTasks)
    BY <1>1
  <2> QED BY ONLY <1>0, <2>1, ConcatIs
<1>3. ASSUME NEW p, NEW m
      PROVE  HasEvent(r, p, m) <=> HasEvent(s, p, m) \/ (p = o /\ Has(b, m))
  <2>1. HasEvent(r, p, m) => HasEvent(s, p, m) \/ (p = o /\ Has(b, m))
    BY <1>1, <1>2 DEF HasEvent, Has
  <2>2. HasEvent(s, p, m) => HasEvent(r, p, m)
    BY <1>2 DEF HasEvent
  <2>3. ASSUME p = o, NEW i \in 1..Len(b), b[i] = m
        PROVE  HasEvent(r, p, m)
    <3>1. Len(s) + i \in 1..Len(r) /\ r[Len(s) + i] = u[i]
      BY <1>1, <1>2
    <3> QED BY <1>1, <2>3, <3>1 DEF HasEvent
  <2> QED BY <2>1, <2>2, <2>3 DEF Has
<1>5. ASSUME NEW p, EventsSorted(s, p), Increasing(b),
             p = o => \A m, n : HasEvent(s, o, m) /\ Has(b, n) => m < n,
             NEW i \in 1..Len(r), NEW j \in 1..Len(r), r[i].object = p, r[j].object = p, i < j
      PROVE  r[i].message < r[j].message
  <2>1. CASE j \in 1..Len(s)
    <3>1. i \in 1..Len(s) /\ r[i] = s[i] /\ r[j] = s[j]
      BY <1>2, <1>5, <2>1
    <3> QED BY <1>5, <2>1, <3>1 DEF EventsSorted
  <2>2. CASE i \in 1..Len(s) /\ j \notin 1..Len(s)
    <3>0. j - Len(s) \in 1..Len(b) /\ r[j] = u[j - Len(s)]
      BY <1>1, <1>2, <2>2
    <3>1. /\ r[i] = s[i] /\ j - Len(s) \in 1..Len(b)
          /\ r[j].object = o /\ r[j].message = b[j - Len(s)]
      BY <1>1, <1>2, <2>2, <3>0
    <3>2. p = o /\ Has(b, r[j].message)
      BY <1>5, <3>1 DEF Has
    <3>3. HasEvent(s, o, r[i].message)
      BY <1>5, <2>2, <3>1, <3>2 DEF HasEvent
    <3> QED BY <1>5, <3>2, <3>3
  <2>3. CASE i \notin 1..Len(s)
    <3>1. j \notin 1..Len(s)
      BY <1>2, <1>5, <2>3
    <3>2. i - Len(s) \in 1..Len(b) /\ r[i].message = b[i - Len(s)]
      BY <1>1, <1>2, <2>3
    <3>3. j - Len(s) \in 1..Len(b) /\ r[j].message = b[j - Len(s)]
      BY <1>1, <1>2, <3>1
    <3>4. i - Len(s) < j - Len(s)
      BY <1>2, <1>5
    <3> QED BY <1>5, <3>2, <3>3, <3>4 DEF Increasing
  <2> QED BY <2>1, <2>2, <2>3
<1>6. ASSUME NEW i \in 1..Len(r)
      PROVE  (\E j \in 1..Len(s) : r[i] = s[j]) \/ r[i].object = o
  <2>1. CASE i \in 1..Len(s) /\ r[i] = s[i]
    BY <2>1
  <2>2. CASE i - Len(s) \in 1..Len(u) /\ r[i] = u[i - Len(s)]
    BY <1>1, <2>2
  <2> QED BY <1>2, <2>1, <2>2
<1>7. ASSUME NEW p, EventsSorted(s, p), Increasing(b),
             p = o => \A m, n : HasEvent(s, o, m) /\ Has(b, n) => m < n
      PROVE  EventsSorted(r, p)
  <2> SUFFICES ASSUME NEW i \in 1..Len(r), NEW j \in 1..Len(r), r[i].object = p, r[j].object = p, i < j
               PROVE  r[i].message < r[j].message
    BY DEF EventsSorted
  <2> QED BY <1>5, <1>7
<1>8. Behind(r, s, o, b)
  BY <1>2, <1>3, <1>6, <1>7 DEF Behind
<1> QED
  BY <1>8 DEF r

(* The first event of a context is dispatched. *)
LEMMA EventsTail ==
  ASSUME NEW s \in Seq(EventTasks), s # <<>>, NEW o
  PROVE  /\ EventsSorted(s, o) => EventsSorted(Tail(s), o)
         /\ EventsSorted(s, o) /\ Head(s).object = o =>
              \A m : HasEvent(Tail(s), o, m) => Head(s).message < m
<1> DEFINE r == Tail(s)
           h == Head(s)
<1>1. /\ r \in Seq(EventTasks) /\ Len(r) = Len(s) - 1 /\ Len(s) \in Nat /\ Len(s) > 0 /\ h = s[1]
      /\ \A i \in 1..Len(r) : i + 1 \in 2..Len(s) /\ r[i] = s[i + 1]
  BY TailIs
<1> HIDE DEF r, h
<1>2. ASSUME EventsSorted(s, o), NEW i \in 1..Len(r), NEW j \in 1..Len(r),
             r[i].object = o, r[j].object = o, i < j
      PROVE  r[i].message < r[j].message
  <2>1. /\ i + 1 \in 1..Len(s) /\ j + 1 \in 1..Len(s) /\ i + 1 < j + 1
        /\ r[i] = s[i + 1] /\ r[j] = s[j + 1]
    BY <1>1, <1>2
  <2> QED BY <1>2, <2>1 DEF EventsSorted
<1>3. ASSUME EventsSorted(s, o), h.object = o, NEW m, HasEvent(r, o, m)
      PROVE  h.message < m
  <2>1. PICK i \in 1..Len(r) : r[i].object = o /\ r[i].message = m
    BY <1>3 DEF HasEvent
  <2>2. 1 \in 1..Len(s) /\ i + 1 \in 1..Len(s) /\ 1 < i + 1 /\ s[i + 1] = r[i] /\ s[1].object = o
    BY <1>1, <1>3
  <2>3. s[i + 1].object = o /\ s[i + 1].message = m
    BY <2>1, <2>2
  <2> QED BY <1>1, <1>3, <2>2, <2>3 DEF EventsSorted
<1> QED
  BY <1>2, <1>3 DEF r, h, EventsSorted

-----------------------------------------------------------------------------
(*                  What a task of the main thread does                    *)

(* At most one inbox changes, by an announcement. *)
Notified ==
  \/ inbox' = inbox
  \/ \E w \in Workers : inbox' = [inbox EXCEPT ![w] = Append(@, [type |-> "notify"])]

(* What port2 has entangled stays open. *)
StaysOpen ==
  channel.open /\ channel.entangled["port2"] => channel'.open /\ channel'.entangled["port2"]

(* A task other than a post or a take. *)
LEMMA OtherTask ==
  ASSUME TypeInv, NEW t \in Tasks, t.type \notin {"post", "take"}, Execute(t)
  PROVE  /\ channel' \in Channels /\ UNCHANGED <<inbox, events>>
         /\ \/ channel'.pending = channel.pending
            \/ channel'.pending = <<>> /\ t = Shut("port2")
         /\ t # Shut("port2") /\ t # Leave("port2") => StaysOpen
         /\ t.type = "create" => channel'.open /\ channel'.entangled["port2"]
<1> USE DEF TypeInv
<1>1. "port1" \in Ports /\ "port2" \in Ports /\ \A p \in Ports : p = "port1" \/ p = "port2"
  BY DEF Ports
<1>2. channel \in Channels /\ <<>> \in Seq(Nat)
  OBVIOUS
<1>3. CASE t.type = "create"
  <2>1. Create
    BY <1>3 DEF Execute
  <2>2. [p \in Ports |-> TRUE] \in [Ports -> BOOLEAN] /\ [p \in Ports |-> TRUE]["port2"] = TRUE
    BY <1>1
  <2> QED BY <1>2, <2>1, <2>2 DEF Create, Channels, threadVars, StaysOpen
<1>4. CASE t.type = "entangle"
  <2>1. t.port \in Ports
    BY <1>4, TaskIs
  <2>2. CASE channel.open /\ EntanglePort(t.port)
    BY <1>1, <1>2, <1>4, <2>1, <2>2 DEF EntanglePort, Channels, threadVars, StaysOpen
  <2> QED BY <1>2, <1>4, <2>2 DEF Execute, threadVars, StaysOpen
<1>5. CASE t.type = "disentangle"
  <2>1. t.port \in Ports /\ t = Leave(t.port)
    BY <1>5, TaskIs
  <2>2. CASE channel.open /\ DisentanglePort(t.port)
    BY <1>1, <1>2, <1>5, <2>1, <2>2 DEF DisentanglePort, Channels, threadVars, StaysOpen
  <2> QED BY <1>2, <1>5, <2>2 DEF Execute, threadVars, StaysOpen
<1>6. CASE t.type = "close"
  <2>1. t.port \in Ports /\ t = Shut(t.port)
    BY <1>6, TaskIs
  <2>2. CASE channel.open /\ ClosePort(t.port) /\ t.port = "port1"
    <3> DEFINE ch == [channel EXCEPT !.entangled["port1"] = FALSE, !.transferring["port1"] = FALSE]
    <3>1. channel' = AfterRelease(ch) /\ UNCHANGED threadVars
      BY <2>2 DEF ClosePort
    <3>2. ch \in Channels /\ ch.pending = channel.pending /\ ch.entangled["port2"] = channel.entangled["port2"]
      BY <1>1, <1>2 DEF Channels
    <3> HIDE DEF ch
    <3>3. channel' \in Channels /\ channel'.pending = channel.pending /\ UNCHANGED <<inbox, events>>
      BY <3>1, <3>2 DEF AfterRelease, Referenced, Channels, threadVars
    <3>4. StaysOpen
      BY <1>1, <3>1, <3>2 DEF AfterRelease, Referenced, Channels, StaysOpen
    <3> QED BY <1>6, <3>3, <3>4
  <2>3. CASE channel.open /\ ClosePort(t.port) /\ t.port = "port2"
    <3> DEFINE ch == [channel EXCEPT !.entangled["port2"] = FALSE, !.transferring["port2"] = FALSE]
               ch2 == [ch EXCEPT !.pending = <<>>, !.protected = FALSE]
    <3>1. channel' = AfterRelease(ch2) /\ UNCHANGED threadVars
      BY <2>3 DEF ClosePort
    <3>2. ch \in Channels
      BY <1>1, <1>2 DEF Channels
    <3>3. ch2 \in Channels /\ ch2.pending = <<>>
      BY <1>2, <3>2 DEF Channels
    <3> QED BY <2>1, <2>3, <3>1, <3>3, <1>6 DEF AfterRelease, Referenced, Channels, threadVars
  <2> QED BY <1>1, <1>2, <1>6, <2>1, <2>2, <2>3 DEF Execute, threadVars, StaysOpen
<1>7. CASE t.type = "completed"
  <2>2. CASE channel.open /\ BatchCompleted
    <3> DEFINE ch == [channel EXCEPT !.inFlight = @ - 1]
    <3>1. channel' = AfterRelease(ch) /\ UNCHANGED threadVars
      BY <2>2 DEF BatchCompleted
    <3>0. channel.inFlight \in Int
      BY <1>2 DEF Channels
    <3>2. ch \in Channels /\ ch.pending = channel.pending /\ ch.entangled = channel.entangled
      <4>1. channel.inFlight - 1 \in Int
        BY <3>0
      <4>2. ch = [channel EXCEPT !.inFlight = channel.inFlight - 1]
        BY <1>2 DEF Channels
      <4> QED BY <1>2, <4>1, <4>2 DEF Channels
    <3> HIDE DEF ch
    <3> QED BY <1>1, <1>7, <2>2, <3>1, <3>2 DEF AfterRelease, Referenced, Channels, threadVars, StaysOpen
  <2> QED BY <1>2, <1>7, <2>2 DEF Execute, threadVars, StaysOpen
<1> QED
  BY <1>3, <1>4, <1>5, <1>6, <1>7 DEF Tasks

(* A post: the message goes to the channel, or is lost if that is closed. *)
LEMMA PostTask ==
  ASSUME TypeInv, NEW m \in Nat, Execute(Post(m))
  PROVE  /\ channel' \in Channels /\ UNCHANGED events /\ Notified /\ StaysOpen
         /\ \/ channel'.pending = Append(channel.pending, m)
            \/ channel'.pending = channel.pending /\ ~channel.open
<1>1. channel \in Channels /\ channel.pending \in Seq(Nat)
  BY DEF TypeInv, Channels
<1>2. CASE channel.open /\ PostMessageToRemote(m)
  <2>1. Append(channel.pending, m) \in Seq(Nat)
    BY <1>1
  <2>2. channel' \in Channels /\ channel'.pending = Append(channel.pending, m) /\ StaysOpen
    BY <1>1, <1>2, <2>1 DEF PostMessageToRemote, Channels, StaysOpen
  <2>3. UNCHANGED events /\ Notified
    BY <1>2 DEF PostMessageToRemote, NotifyMessageAvailable, MessageAvailable, threadVars, Notified
  <2> QED BY <2>2, <2>3
<1>3. CASE ~channel.open /\ UNCHANGED <<channel, threadVars>>
  BY <1>1, <1>3 DEF threadVars, Notified, StaysOpen
<1> QED
  BY <1>2, <1>3 DEF Execute, Post

(* A take for object o in context c: nothing, or all that is pending goes  *)
(* into events at once, or into a batch.                                   *)
TakesNothing == UNCHANGED <<inbox, events>> /\ channel'.pending = channel.pending

TakesEvents(c, o) ==
  /\ channel'.pending = <<>> /\ inbox' = inbox
  /\ MessagesTaken(c, o, channel.pending)

TakesBatch(c, o) ==
  /\ channel'.pending = <<>> /\ events' = events
  /\ inbox' = [inbox EXCEPT ![c] =
       Append(@, [type |-> "taken", object |-> o, messages |-> channel.pending])]

(* takeAllMessagesForPort does one of the three. *)
LEMMA TakeTask ==
  ASSUME TypeInv, NEW c \in Contexts, NEW o \in Nat, TakeAllMessages(c, o)
  PROVE  /\ channel' \in Channels /\ StaysOpen
         /\ \/ TakesNothing
            \/ c = Main /\ TakesEvents(c, o)
            \/ c \in Workers /\ TakesBatch(c, o)
<1>1. channel \in Channels /\ <<>> \in Seq(Nat) /\ "port2" \in Ports
  BY DEF TypeInv, Ports
<1> DEFINE taken == [channel EXCEPT !.pending = <<>>, !.protected = FALSE]
<1>2. taken \in Channels /\ taken.pending = <<>> /\ taken.entangled = channel.entangled /\ taken.open = channel.open
  BY <1>1 DEF Channels
<1>3. taken.inFlight \in Int
  BY <1>2 DEF Channels
<1> HIDE DEF taken
<1>4. CASE /\ channel' = AfterRelease(taken) /\ c = Main
           /\ MessagesTaken(c, o, channel.pending) /\ UNCHANGED inbox
  BY <1>1, <1>2, <1>4 DEF AfterRelease, Referenced, Channels, StaysOpen, TakesEvents
<1>5. CASE /\ channel' = [taken EXCEPT !.inFlight = @ + 1] /\ c # Main
           /\ inbox' = [inbox EXCEPT ![c] =
                          Append(@, [type |-> "taken", object |-> o, messages |-> channel.pending])]
           /\ UNCHANGED events
  <2>1. c \in Workers
    BY <1>5 DEF Contexts
  <2> QED BY <1>2, <1>3, <1>5, <2>1 DEF Channels, StaysOpen, TakesBatch
<1>6. CASE UNCHANGED <<channel, inbox, events>>
  BY <1>1, <1>6 DEF StaysOpen, TakesNothing
<1> QED
  BY <1>4, <1>5, <1>6 DEF TakeAllMessages, PendingAfterTake, taken

-----------------------------------------------------------------------------
(*                   What a step does to the five places                   *)

(* The main thread takes the first of its tasks. *)
LEMMA QueueTail ==
  ASSUME mainQueue \in Seq(Tasks), mainQueue # <<>>, mainQueue' = Tail(mainQueue)
  PROVE  /\ mainQueue' \in Seq(Tasks) /\ Head(mainQueue) \in Tasks
         /\ \A m : Queued(m) <=>
              Queued(m)' \/ (Head(mainQueue).type = "post" /\ Head(mainQueue).message = m)
         /\ PostsSorted(mainQueue) =>
              /\ PostsSorted(mainQueue)'
              /\ Head(mainQueue).type = "post" => \A m : Queued(m)' => Head(mainQueue).message < m
         /\ TakesPlaced /\ UNCHANGED <<object, context>> => TakesPlaced'
<1> DEFINE s == mainQueue
           r == mainQueue'
           h == Head(mainQueue)
<1>1. /\ r \in Seq(Tasks) /\ Len(r) = Len(s) - 1 /\ Len(s) \in Nat /\ Len(s) > 0
      /\ h = s[1] /\ h \in Tasks
      /\ \A i \in 1..Len(r) : i + 1 \in 2..Len(s) /\ r[i] = s[i + 1]
      /\ \A i \in 2..Len(s) : i - 1 \in 1..Len(r) /\ s[i] = r[i - 1]
  BY TailIs
<1> HIDE DEF r, s, h
<1>2. ASSUME NEW m, NEW i \in 1..Len(s), s[i].type = "post", s[i].message = m
      PROVE  HasPost(r, m) \/ (h.type = "post" /\ h.message = m)
  <2>1. CASE i = 1
    BY <1>1, <1>2, <2>1
  <2>2. CASE i # 1
    <3>1. i - 1 \in 1..Len(r) /\ s[i] = r[i - 1]
      BY <1>1, <2>2
    <3> QED BY <1>2, <3>1 DEF HasPost
  <2> QED BY <2>1, <2>2
<1>3. \A m : HasPost(r, m) \/ (h.type = "post" /\ h.message = m) => HasPost(s, m)
  BY <1>1 DEF HasPost
<1>4. ASSUME PostsSorted(s), NEW i \in 1..Len(r), NEW j \in 1..Len(r),
             r[i].type = "post", r[j].type = "post", i < j
      PROVE  r[i].message < r[j].message
  <2>1. /\ i + 1 \in 1..Len(s) /\ j + 1 \in 1..Len(s) /\ i + 1 < j + 1
        /\ r[i] = s[i + 1] /\ r[j] = s[j + 1]
    BY <1>1, <1>4
  <2> QED BY <1>4, <2>1 DEF PostsSorted
<1>5. ASSUME PostsSorted(s), h.type = "post", NEW m, HasPost(r, m)
      PROVE  h.message < m
  <2>1. PICK i \in 1..Len(r) : r[i].type = "post" /\ r[i].message = m
    BY <1>5 DEF HasPost
  <2>2. 1 \in 1..Len(s) /\ i + 1 \in 1..Len(s) /\ 1 < i + 1 /\ s[i + 1] = r[i] /\ s[1] = h
    BY <1>1
  <2> QED BY <1>5, <2>1, <2>2 DEF PostsSorted
<1>6. ASSUME TakesPlaced, UNCHANGED <<object, context>>
      PROVE  TakesPlaced'
  <2> SUFFICES ASSUME NEW i \in 1..Len(r), r[i].type = "take"
               PROVE  /\ r[i].object <= Present
                      /\ IsPresent(r[i].object) => r[i].context = Home
    BY <1>6 DEF TakesPlaced, r, Present, Home, IsPresent
  <2>1. i + 1 \in 1..Len(s) /\ r[i] = s[i + 1]
    BY <1>1
  <2> QED BY <1>6, <2>1 DEF TakesPlaced, s, r
<1> QED
  <2>1. \A m : HasPost(s, m) => HasPost(r, m) \/ (h.type = "post" /\ h.message = m)
    BY <1>2 DEF HasPost
  <2> QED BY <1>1, <1>3, <1>4, <1>5, <1>6, <2>1 DEF r, s, h, Queued, PostsSorted

(* A worker posts a task to the main thread. *)
LEMMA QueueAppend ==
  ASSUME mainQueue \in Seq(Tasks), NEW t \in Tasks, mainQueue' = Append(mainQueue, t)
  PROVE  /\ mainQueue' \in Seq(Tasks)
         /\ \A m : Queued(m)' <=> Queued(m) \/ (t.type = "post" /\ t.message = m)
         /\ PostsSorted(mainQueue) /\ (t.type = "post" => \A m : Queued(m) => m < t.message) =>
              PostsSorted(mainQueue)'
         /\ TakesPlaced /\ UNCHANGED <<object, context>>
            /\ (t.type = "take" => t.object <= Present /\ (IsPresent(t.object) => t.context = Home)) =>
              TakesPlaced'
<1> DEFINE s == mainQueue
           r == mainQueue'
<1>1. /\ r \in Seq(Tasks) /\ Len(r) = Len(s) + 1 /\ Len(s) \in Nat /\ r[Len(s) + 1] = t
      /\ \A i \in 1..Len(s) : i \in 1..Len(r) /\ r[i] = s[i]
      /\ \A i \in 1..Len(r) : (i \in 1..Len(s) /\ r[i] = s[i]) \/ (i = Len(s) + 1 /\ r[i] = t)
  BY AppendIs
<1> HIDE DEF r, s
<1>2. \A m : HasPost(r, m) => HasPost(s, m) \/ (t.type = "post" /\ t.message = m)
  BY <1>1 DEF HasPost
<1>3. \A m : HasPost(s, m) \/ (t.type = "post" /\ t.message = m) => HasPost(r, m)
  BY <1>1 DEF HasPost
<1>4. ASSUME PostsSorted(s), t.type = "post" => \A m : HasPost(s, m) => m < t.message,
             NEW i \in 1..Len(r), NEW j \in 1..Len(r),
             r[i].type = "post", r[j].type = "post", i < j
      PROVE  r[i].message < r[j].message
  <2>1. i \in 1..Len(s) /\ r[i] = s[i]
    BY <1>1, <1>4
  <2>2. CASE j \in 1..Len(s) /\ r[j] = s[j]
    BY <1>4, <2>1, <2>2 DEF PostsSorted
  <2>3. CASE r[j] = t
    <3>1. HasPost(s, r[i].message)
      BY <1>4, <2>1 DEF HasPost
    <3> QED BY <1>4, <2>3, <3>1
  <2> QED BY <1>1, <2>2, <2>3
<1>5. ASSUME TakesPlaced, UNCHANGED <<object, context>>,
             t.type = "take" => t.object <= Present /\ (IsPresent(t.object) => t.context = Home)
      PROVE  TakesPlaced'
  <2> SUFFICES ASSUME NEW i \in 1..Len(r), r[i].type = "take"
               PROVE  /\ r[i].object <= Present
                      /\ IsPresent(r[i].object) => r[i].context = Home
    BY <1>5 DEF TakesPlaced, r, Present, Home, IsPresent
  <2>1. CASE i \in 1..Len(s) /\ r[i] = s[i]
    BY <1>5, <2>1 DEF TakesPlaced, s, r
  <2>2. CASE r[i] = t
    BY <1>5, <2>2 DEF s, r
  <2> QED BY <1>1, <2>1, <2>2
<1> QED
  BY <1>1, <1>2, <1>3, <1>4, <1>5 DEF r, s, Queued, PostsSorted

(* A message is put behind those in the channel. *)
LEMMA PendingAppend ==
  ASSUME channel \in Channels, NEW n \in Nat, channel'.pending = Append(channel.pending, n)
  PROVE  /\ \A m : Pends(m)' <=> Pends(m) \/ m = n
         /\ Increasing(channel.pending) /\ (\A m : Pends(m) => m < n) =>
              Increasing(channel.pending)'
<1> DEFINE s == channel.pending
           r == channel'.pending
<1>0. s \in Seq(Nat)
  BY DEF Channels
<1>1. /\ r \in Seq(Nat) /\ Len(r) = Len(s) + 1 /\ Len(s) \in Nat /\ r[Len(s) + 1] = n
      /\ \A i \in 1..Len(r) : (i \in 1..Len(s) /\ r[i] = s[i]) \/ (i = Len(s) + 1 /\ r[i] = n)
      /\ \A x : Has(r, x) <=> Has(s, x) \/ x = n
  BY <1>0, AppendIs
<1> HIDE DEF r, s
<1>2. ASSUME Increasing(s), \A m : Has(s, m) => m < n,
             NEW i \in 1..Len(r), NEW j \in 1..Len(r), i < j
      PROVE  r[i] < r[j]
  <2>1. i \in 1..Len(s) /\ r[i] = s[i]
    BY <1>1, <1>2
  <2>2. Has(s, s[i])
    BY <2>1 DEF Has
  <2> QED BY <1>1, <1>2, <2>1, <2>2 DEF Increasing
<1> QED
  BY <1>1, <1>2 DEF r, s, Pends, Increasing

(* Everything is taken out of the channel. *)
LEMMA PendingEmpty ==
  ASSUME channel'.pending = <<>>
  PROVE  (\A m : ~Pends(m)') /\ Increasing(channel.pending)'
BY DEF Pends, Has, Increasing

(* The main thread posts a task to a worker. *)
LEMMA InboxGrows ==
  ASSUME inbox \in [Workers -> Seq(InboxTasks)], NEW w \in Workers, NEW t \in InboxTasks,
         inbox' = [inbox EXCEPT ![w] = Append(@, t)]
  PROVE  /\ inbox' \in [Workers -> Seq(InboxTasks)]
         /\ \A o, m : Batched(o, m)' <=> Batched(o, m) \/ (IsBatch(t, o) /\ Has(t.messages, m))
         /\ \A o : (\A v \in Workers : BatchesSorted(inbox[v], o))
                   /\ (IsBatch(t, o) =>
                         /\ Increasing(t.messages)
                         /\ \A m, n : Batched(o, m) /\ Has(t.messages, n) => m < n) =>
              \A v \in Workers : BatchesSorted(inbox'[v], o)
         /\ BatchesPlaced /\ UNCHANGED <<object, context>>
            /\ (t.type = "taken" => t.object <= Present /\ (IsPresent(t.object) => w = Home)) =>
              BatchesPlaced'
<1> DEFINE s == inbox[w]
           r == Append(s, t)
<1>1. s \in Seq(InboxTasks)
  OBVIOUS
<1>2. /\ r \in Seq(InboxTasks)
      /\ \A i \in 1..Len(r) : (i \in 1..Len(s) /\ r[i] = s[i]) \/ (i = Len(s) + 1 /\ r[i] = t)
  BY <1>1, AppendIs
<1>3. /\ \A o, m : HasBatch(r, o, m) <=> HasBatch(s, o, m) \/ (IsBatch(t, o) /\ Has(t.messages, m))
      /\ \A o : BatchesSorted(s, o)
            /\ (IsBatch(t, o) =>
                 /\ Increasing(t.messages)
                 /\ \A m, n : HasBatch(s, o, m) /\ Has(t.messages, n) => m < n)
            => BatchesSorted(r, o)
  BY <1>1, InboxAppend
<1>4. inbox' = [inbox EXCEPT ![w] = r]
  OBVIOUS
<1> HIDE DEF r
<1>5. inbox' \in [Workers -> Seq(InboxTasks)] /\ inbox'[w] = r /\ \A v \in Workers \ {w} : inbox'[v] = inbox[v]
  BY <1>2, <1>4
<1>6. \A o, m : Batched(o, m)' <=> Batched(o, m) \/ (IsBatch(t, o) /\ Has(t.messages, m))
  BY <1>3, <1>5 DEF Batched
<1>7. ASSUME NEW o, \A v \in Workers : BatchesSorted(inbox[v], o),
             IsBatch(t, o) => Increasing(t.messages),
             IsBatch(t, o) => \A m, n : Batched(o, m) /\ Has(t.messages, n) => m < n,
             NEW v \in Workers
      PROVE  BatchesSorted(inbox'[v], o)
  <2>1. \A m : HasBatch(s, o, m) => Batched(o, m)
    BY DEF Batched
  <2> QED BY <1>3, <1>5, <1>7, <2>1
<1>8. ASSUME BatchesPlaced, UNCHANGED <<object, context>>,
             t.type = "taken" => t.object <= Present /\ (IsPresent(t.object) => w = Home)
      PROVE  BatchesPlaced'
  <2> SUFFICES ASSUME NEW v \in Workers, NEW i \in 1..Len(inbox'[v]), inbox'[v][i].type = "taken"
               PROVE  /\ inbox'[v][i].object <= Present
                      /\ IsPresent(inbox'[v][i].object) => v = Home
    BY <1>8 DEF BatchesPlaced, Present, Home, IsPresent
  <2>1. CASE inbox'[v][i] = t /\ v = w
    BY <1>8, <2>1
  <2>2. CASE i \in 1..Len(inbox[v]) /\ inbox'[v][i] = inbox[v][i]
    BY <1>8, <2>2 DEF BatchesPlaced
  <2> QED BY <1>2, <1>5, <2>1, <2>2
<1> QED
  BY <1>5, <1>6, <1>7, <1>8

(* A worker takes the first task of its inbox. *)
LEMMA InboxShrinks ==
  ASSUME inbox \in [Workers -> Seq(InboxTasks)], NEW w \in Workers, inbox[w] # <<>>,
         inbox' = [inbox EXCEPT ![w] = Tail(@)]
  PROVE  /\ inbox' \in [Workers -> Seq(InboxTasks)] /\ Head(inbox[w]) \in InboxTasks
         /\ \A o, m : Batched(o, m) <=>
              Batched(o, m)' \/ (IsBatch(Head(inbox[w]), o) /\ Has(Head(inbox[w]).messages, m))
         /\ \A o : (\A v \in Workers : BatchesSorted(inbox[v], o)) =>
              /\ \A v \in Workers : BatchesSorted(inbox'[v], o)
              /\ IsBatch(Head(inbox[w]), o) =>
                   /\ Increasing(Head(inbox[w]).messages)
                   /\ \A m, n : Has(Head(inbox[w]).messages, m) /\ HasBatch(inbox'[w], o, n) => m < n
         /\ BatchesPlaced /\ UNCHANGED <<object, context>> => BatchesPlaced'
<1> DEFINE s == inbox[w]
           r == Tail(s)
           h == Head(s)
<1>1. s \in Seq(InboxTasks)
  OBVIOUS
<1>2. /\ r \in Seq(InboxTasks) /\ h \in InboxTasks
      /\ \A i \in 1..Len(r) : i + 1 \in 2..Len(s) /\ r[i] = s[i + 1]
      /\ Len(s) \in Nat
  BY <1>1, TailIs
<1>3. /\ \A o, m : HasBatch(s, o, m) <=> (IsBatch(h, o) /\ Has(h.messages, m)) \/ HasBatch(r, o, m)
      /\ \A o : BatchesSorted(s, o) => BatchesSorted(r, o)
      /\ \A o : BatchesSorted(s, o) /\ IsBatch(h, o) =>
              /\ Increasing(h.messages)
              /\ \A m, n : Has(h.messages, m) /\ HasBatch(r, o, n) => m < n
  BY <1>1, InboxTail
<1>4. inbox' = [inbox EXCEPT ![w] = r]
  OBVIOUS
<1> HIDE DEF r, h
<1>5. inbox' \in [Workers -> Seq(InboxTasks)] /\ inbox'[w] = r /\ \A v \in Workers \ {w} : inbox'[v] = inbox[v]
  BY <1>2, <1>4
<1>6. \A o, m : Batched(o, m) <=> Batched(o, m)' \/ (IsBatch(h, o) /\ Has(h.messages, m))
  BY <1>3, <1>5 DEF Batched
<1>7. \A o : (\A v \in Workers : BatchesSorted(inbox[v], o)) =>
              \A v \in Workers : BatchesSorted(inbox'[v], o)
  BY <1>3, <1>5
<1>8. ASSUME BatchesPlaced, UNCHANGED <<object, context>>
      PROVE  BatchesPlaced'
  <2> SUFFICES ASSUME NEW v \in Workers, NEW i \in 1..Len(inbox'[v]), inbox'[v][i].type = "taken"
               PROVE  /\ inbox'[v][i].object <= Present
                      /\ IsPresent(inbox'[v][i].object) => v = Home
    BY <1>8 DEF BatchesPlaced, Present, Home, IsPresent
  <2>1. PICK j \in 1..Len(inbox[v]) : inbox'[v][i] = inbox[v][j]
    <3>1. CASE v = w
      <4>1. i + 1 \in 1..Len(s) /\ r[i] = s[i + 1]
        BY <1>2, <1>5, <3>1
      <4> QED BY <1>5, <3>1, <4>1
    <3> QED BY <1>5, <3>1
  <2> QED BY <1>8, <2>1 DEF BatchesPlaced
<1> QED
  BY <1>2, <1>3, <1>5, <1>6, <1>7, <1>8 DEF h

(* Messages that were taken become events, if the port is still there. *)
LEMMA EventsGrow ==
  ASSUME events \in [Contexts -> Seq(EventTasks)], NEW c \in Contexts, NEW o \in Nat,
         NEW b \in Seq(Nat), MessagesTaken(c, o, b)
  PROVE  /\ events' \in [Contexts -> Seq(EventTasks)]
         /\ ~IsPresent(o) => events' = events
         /\ IsPresent(o) =>
              \A p, m : Event(p, m)' <=> Event(p, m) \/ (p = o /\ Has(b, m))
         /\ IsPresent(o) =>
              \A p : (\A d \in Contexts : EventsSorted(events[d], p)) /\ Increasing(b)
                     /\ (p = o => \A m, n : Event(o, m) /\ Has(b, n) => m < n) =>
                \A d \in Contexts : EventsSorted(events'[d], p)
         /\ EventsPlaced /\ UNCHANGED <<object, context>> /\ (IsPresent(o) => c = Home) =>
              EventsPlaced'
<1> DEFINE s == events[c]
           r == s \o EventsOf(b, o)
<1>1. s \in Seq(EventTasks)
  OBVIOUS
<1>2. CASE ~IsPresent(o)
  <2>1. events' = events
    BY <1>2 DEF MessagesTaken
  <2> QED BY <1>2, <2>1 DEF EventsPlaced, Present, Home, IsPresent
<1>3. CASE IsPresent(o)
  <2>1. events' = [events EXCEPT ![c] = r]
    BY <1>3 DEF MessagesTaken, EventsOf
  <2>2. Behind(r, s, o, b)
    BY <1>1, EventsConcat
  <2> HIDE DEF r
  <2>3. /\ events' \in [Contexts -> Seq(EventTasks)] /\ events'[c] = r
        /\ \A d \in Contexts \ {c} : events'[d] = events[d]
    BY <2>1, <2>2 DEF Behind
  <2>4. \A p, m : Event(p, m)' <=> Event(p, m) \/ (p = o /\ Has(b, m))
    BY <2>2, <2>3 DEF Event, Behind
  <2>5. ASSUME NEW p, \A d \in Contexts : EventsSorted(events[d], p), Increasing(b),
               p = o => \A m, n : Event(o, m) /\ Has(b, n) => m < n, NEW d \in Contexts
        PROVE  EventsSorted(events'[d], p)
    <3>1. \A m : HasEvent(s, o, m) => Event(o, m)
      BY DEF Event
    <3> QED BY <2>2, <2>3, <2>5, <3>1 DEF Behind
  <2>6. ASSUME EventsPlaced, UNCHANGED <<object, context>>, c = Home
        PROVE  EventsPlaced'
    <3> SUFFICES ASSUME NEW d \in Contexts, NEW i \in 1..Len(events'[d])
                 PROVE  /\ events'[d][i].object <= Present
                        /\ IsPresent(events'[d][i].object) => d = Home
      BY <2>6 DEF EventsPlaced, Present, Home, IsPresent
    <3>1. CASE events'[d][i].object = o /\ d = c
      BY <1>3, <2>6, <3>1 DEF IsPresent, Present
    <3>2. CASE \E j \in 1..Len(events[d]) : events'[d][i] = events[d][j]
      BY <2>6, <3>2 DEF EventsPlaced
    <3> QED BY <2>2, <2>3, <3>1, <3>2 DEF Behind
  <2> QED BY <1>3, <2>3, <2>4, <2>5, <2>6
<1> QED
  BY <1>2, <1>3

(* An event loop takes its first event. *)
LEMMA EventsShrink ==
  ASSUME events \in [Contexts -> Seq(EventTasks)], NEW c \in Contexts, events[c] # <<>>,
         events' = [events EXCEPT ![c] = Tail(@)]
  PROVE  /\ events' \in [Contexts -> Seq(EventTasks)] /\ Head(events[c]) \in EventTasks
         /\ \E i \in 1..Len(events[c]) : events[c][i] = Head(events[c])
         /\ \A o, m : Event(o, m) <=>
              Event(o, m)' \/ (Head(events[c]).object = o /\ Head(events[c]).message = m)
         /\ \A o : (\A d \in Contexts : EventsSorted(events[d], o)) =>
              /\ \A d \in Contexts : EventsSorted(events'[d], o)
              /\ Head(events[c]).object = o =>
                   \A m : HasEvent(events'[c], o, m) => Head(events[c]).message < m
         /\ EventsPlaced /\ UNCHANGED <<object, context>> => EventsPlaced'
<1> DEFINE s == events[c]
           r == Tail(s)
           h == Head(s)
<1>1. s \in Seq(EventTasks)
  OBVIOUS
<1>2. /\ r \in Seq(EventTasks) /\ h \in EventTasks /\ h = s[1] /\ Len(s) \in Nat /\ Len(s) > 0
      /\ \A i \in 1..Len(r) : i + 1 \in 2..Len(s) /\ r[i] = s[i + 1]
      /\ \A i \in 2..Len(s) : i - 1 \in 1..Len(r) /\ s[i] = r[i - 1]
  BY <1>1, TailIs
<1>3. \A o : /\ EventsSorted(s, o) => EventsSorted(r, o)
             /\ EventsSorted(s, o) /\ h.object = o =>
                  \A m : HasEvent(r, o, m) => h.message < m
  BY <1>1, EventsTail
<1>4. events' = [events EXCEPT ![c] = r]
  OBVIOUS
<1> HIDE DEF r, h
<1>5. /\ events' \in [Contexts -> Seq(EventTasks)] /\ events'[c] = r
      /\ \A d \in Contexts \ {c} : events'[d] = events[d]
  BY <1>2, <1>4
<1>6. ASSUME NEW o, NEW m
      PROVE  HasEvent(s, o, m) <=> HasEvent(r, o, m) \/ (h.object = o /\ h.message = m)
  <2>1. ASSUME NEW i \in 1..Len(s), s[i].object = o, s[i].message = m
        PROVE  HasEvent(r, o, m) \/ (h.object = o /\ h.message = m)
    <3>1. CASE i = 1
      BY <1>2, <2>1, <3>1
    <3>2. CASE i # 1
      <4>1. i - 1 \in 1..Len(r) /\ s[i] = r[i - 1]
        BY <1>2, <3>2
      <4> QED BY <2>1, <4>1 DEF HasEvent
    <3> QED BY <3>1, <3>2
  <2>2. HasEvent(r, o, m) => HasEvent(s, o, m)
    BY <1>2 DEF HasEvent
  <2>3. h.object = o /\ h.message = m => HasEvent(s, o, m)
    BY <1>2 DEF HasEvent
  <2> QED BY <2>1, <2>2, <2>3 DEF HasEvent
<1>7. \A o, m : Event(o, m) <=> Event(o, m)' \/ (h.object = o /\ h.message = m)
  BY <1>5, <1>6 DEF Event
<1>8. ASSUME EventsPlaced, UNCHANGED <<object, context>>
      PROVE  EventsPlaced'
  <2> SUFFICES ASSUME NEW d \in Contexts, NEW i \in 1..Len(events'[d])
               PROVE  /\ events'[d][i].object <= Present
                      /\ IsPresent(events'[d][i].object) => d = Home
    BY <1>8 DEF EventsPlaced, Present, Home, IsPresent
  <2>1. PICK j \in 1..Len(events[d]) : events'[d][i] = events[d][j]
    <3>1. CASE d = c
      <4>1. i + 1 \in 1..Len(s) /\ r[i] = s[i + 1]
        BY <1>2, <1>5, <3>1
      <4> QED BY <1>5, <3>1, <4>1
    <3> QED BY <1>5, <3>1
  <2> QED BY <1>8, <2>1 DEF EventsPlaced
<1>9. 1 \in 1..Len(s) /\ s[1] = h
  BY <1>2
<1> QED
  BY <1>2, <1>3, <1>5, <1>7, <1>8, <1>9 DEF h

(* A message is delivered. *)
LEMMA DeliveredGrows ==
  ASSUME delivered \in Seq(Nat), NEW n \in Nat, delivered' = Append(delivered, n)
  PROVE  /\ delivered' \in Seq(Nat)
         /\ \A m : Done(m)' <=> Done(m) \/ m = n
         /\ Increasing(delivered) /\ (\A m : Done(m) => m < n) => Increasing(delivered)'
<1> DEFINE s == delivered
           r == delivered'
<1>1. /\ r \in Seq(Nat) /\ Len(r) = Len(s) + 1 /\ Len(s) \in Nat /\ r[Len(s) + 1] = n
      /\ \A i \in 1..Len(r) : (i \in 1..Len(s) /\ r[i] = s[i]) \/ (i = Len(s) + 1 /\ r[i] = n)
      /\ \A x : Has(r, x) <=> Has(s, x) \/ x = n
  BY AppendIs
<1> HIDE DEF r, s
<1>2. ASSUME Increasing(s), \A m : Has(s, m) => m < n,
             NEW i \in 1..Len(r), NEW j \in 1..Len(r), i < j
      PROVE  r[i] < r[j]
  <2>1. i \in 1..Len(s) /\ r[i] = s[i]
    BY <1>1, <1>2
  <2>2. Has(s, s[i])
    BY <2>1 DEF Has
  <2> QED BY <1>1, <1>2, <2>1, <2>2 DEF Increasing
<1> QED
  BY <1>1, <1>2 DEF r, s, Done, Increasing

(* What a step leaves alone. *)
LEMMA Untouched ==
  /\ mainQueue' = mainQueue =>
       /\ \A m : Queued(m)' <=> Queued(m)
       /\ PostsSorted(mainQueue)' <=> PostsSorted(mainQueue)
       /\ TakesPlaced /\ UNCHANGED <<object, context>> => TakesPlaced'
  /\ channel'.pending = channel.pending =>
       /\ \A m : Pends(m)' <=> Pends(m)
       /\ Increasing(channel.pending)' <=> Increasing(channel.pending)
  /\ inbox' = inbox =>
       /\ \A o, m : Batched(o, m)' <=> Batched(o, m)
       /\ BatchesPlaced /\ UNCHANGED <<object, context>> => BatchesPlaced'
  /\ events' = events =>
       /\ \A o, m : Event(o, m)' <=> Event(o, m)
       /\ EventsPlaced /\ UNCHANGED <<object, context>> => EventsPlaced'
  /\ delivered' = delivered =>
       /\ \A m : Done(m)' <=> Done(m)
       /\ Increasing(delivered)' <=> Increasing(delivered)
<1>1. mainQueue' = mainQueue /\ TakesPlaced /\ UNCHANGED <<object, context>> => TakesPlaced'
  BY DEF TakesPlaced, Present, Home, IsPresent
<1>2. inbox' = inbox /\ BatchesPlaced /\ UNCHANGED <<object, context>> => BatchesPlaced'
  BY DEF BatchesPlaced, Present, Home, IsPresent
<1>3. events' = events /\ EventsPlaced /\ UNCHANGED <<object, context>> => EventsPlaced'
  BY DEF EventsPlaced, Present, Home, IsPresent
<1>4. mainQueue' = mainQueue => /\ \A m : Queued(m)' <=> Queued(m)
                                /\ PostsSorted(mainQueue)' <=> PostsSorted(mainQueue)
  BY DEF Queued
<1>5. channel'.pending = channel.pending =>
       /\ \A m : Pends(m)' <=> Pends(m)
       /\ Increasing(channel.pending)' <=> Increasing(channel.pending)
  BY DEF Pends
<1>6. inbox' = inbox => \A o, m : Batched(o, m)' <=> Batched(o, m)
  BY DEF Batched
<1>7. events' = events => \A o, m : Event(o, m)' <=> Event(o, m)
  BY DEF Event
<1>8. delivered' = delivered =>
       /\ \A m : Done(m)' <=> Done(m)
       /\ Increasing(delivered)' <=> Increasing(delivered)
  BY DEF Done
<1> QED
  BY <1>1, <1>2, <1>3, <1>4, <1>5, <1>6, <1>7, <1>8

-----------------------------------------------------------------------------
(*                How the messages move from place to place                *)

(* Messages are lost, or none moves; and port2 may have got a new object,  *)
(* for which nothing has been taken yet.                                   *)
LEMMA LineLoses ==
  ASSUME LineInv, posted \in Nat, posted' \in {posted, posted + 1}, NEW o, Present' = o,
         \A m : Queued(m)' => Queued(m), \A m : Pends(m)' => Pends(m),
         \A p, m : Batched(p, m)' => Batched(p, m), \A p, m : Event(p, m)' => Event(p, m),
         \A m : Done(m)' => Done(m),
         o = Present \/ \A m : ~Batched(o, m) /\ ~Event(o, m)
  PROVE  LineInv'
<1>1. \A m : Taken(m)' => Taken(m)
  BY DEF Taken
<1>2. \A m \in 1..posted : m \in 1..posted'
  OBVIOUS
<1> QED
  BY <1>1, <1>2 DEF LineInv

(* A worker posts a message. *)
LEMMA LinePosts ==
  ASSUME LineInv, posted \in Nat, posted' = posted + 1, Present' = Present,
         \A m : Queued(m)' <=> Queued(m) \/ m = posted + 1, \A m : Pends(m)' <=> Pends(m),
         \A p, m : Batched(p, m)' <=> Batched(p, m), \A p, m : Event(p, m)' <=> Event(p, m),
         \A m : Done(m)' <=> Done(m)
  PROVE  LineInv'
<1>1. \A m : Taken(m)' <=> Taken(m)
  BY DEF Taken
<1>2. \A m \in 1..posted : m \in 1..(posted + 1) /\ m < posted + 1
  OBVIOUS
<1>3. posted + 1 \in 1..(posted + 1)
  OBVIOUS
<1> QED
  BY <1>1, <1>2, <1>3 DEF LineInv

(* The channel receives a message. *)
LEMMA LineReceives ==
  ASSUME LineInv, posted \in Nat, posted' \in {posted, posted + 1}, Present' = Present,
         NEW n \in 1..posted', \A m : Pends(m) \/ Taken(m) => m < n,
         \A m : Queued(m)' => Queued(m) /\ n < m,
         \A m : Pends(m)' <=> Pends(m) \/ m = n,
         \A p, m : Batched(p, m)' <=> Batched(p, m), \A p, m : Event(p, m)' <=> Event(p, m),
         \A m : Done(m)' <=> Done(m)
  PROVE  LineInv'
<1>1. \A m : Taken(m)' <=> Taken(m)
  BY DEF Taken
<1>2. \A m \in 1..posted : m \in 1..posted'
  OBVIOUS
<1> QED
  BY <1>1, <1>2 DEF LineInv

(* What is pending becomes events, in the Document. *)
LEMMA LineTakesEvents ==
  ASSUME LineInv, posted' = posted, Present' = Present, \A m : ~Batched(Present, m),
         \A m : Queued(m)' => Queued(m), \A m : ~Pends(m)',
         \A p, m : Batched(p, m)' <=> Batched(p, m),
         \A p, m : Event(p, m)' => Event(p, m) \/ Pends(m),
         \A m : Done(m)' <=> Done(m)
  PROVE  LineInv'
<1>1. \A m : Taken(m)' => Taken(m) \/ Pends(m)
  BY DEF Taken
<1>2. \A m : Done(m) => Taken(m)
  BY DEF Taken
<1> QED
  BY <1>1, <1>2 DEF LineInv

(* What is pending becomes a batch. *)
LEMMA LineTakesBatch ==
  ASSUME LineInv, posted' = posted, Present' = Present,
         \A m : Queued(m)' => Queued(m), \A m : ~Pends(m)',
         \A p, m : Batched(p, m)' => Batched(p, m) \/ Pends(m),
         \A p, m : Event(p, m)' <=> Event(p, m),
         \A m : Done(m)' <=> Done(m)
  PROVE  LineInv'
<1>1. \A m : Taken(m)' => Taken(m) \/ Pends(m)
  BY DEF Taken
<1>2. \A p, m : Done(m) \/ Event(p, m) => Taken(m)
  BY DEF Taken
<1> QED
  BY <1>1, <1>2 DEF LineInv

(* A batch becomes events, in a worker. *)
LEMMA LineArrives ==
  ASSUME LineInv, posted' = posted, Present' = Present, NEW S,
         \A m \in S : Batched(Present, m),
         \A m \in S : \A n : Batched(Present, n)' => m < n,
         \A m : Queued(m)' => Queued(m), \A m : Pends(m)' <=> Pends(m),
         \A p, m : Batched(p, m)' => Batched(p, m),
         \A p, m : Event(p, m)' => Event(p, m) \/ m \in S,
         \A m : Done(m)' <=> Done(m)
  PROVE  LineInv'
<1>1. \A m : Taken(m)' => Taken(m)
  BY DEF Taken
<1> QED
  BY <1>1 DEF LineInv

(* The first event of the present object is dispatched. *)
LEMMA LineDelivers ==
  ASSUME LineInv, posted' = posted, Present' = Present, NEW n,
         Event(Present, n), \A m : Event(Present, m)' => n < m,
         \A m : Queued(m)' => Queued(m), \A m : Pends(m)' <=> Pends(m),
         \A p, m : Batched(p, m)' => Batched(p, m),
         \A p, m : Event(p, m)' => Event(p, m),
         \A m : Done(m)' <=> Done(m) \/ m = n
  PROVE  LineInv'
<1>1. \A m : Taken(m)' => Taken(m)
  BY DEF Taken
<1> QED
  BY <1>1 DEF LineInv

-----------------------------------------------------------------------------
(*              Steps that bring no message any further                    *)

(* port2 stays what and where it is, or loses its context, or gets a new   *)
(* object.                                                                 *)
SamePort == Present' = Present /\ (Home' = Home \/ Home' = None)
NewPort == Present' = Present + 1

(* Nothing is posted or delivered, and no message moves on: the order stays. *)
LEMMA Silent ==
  ASSUME OrderInv, UNCHANGED <<posted, delivered, inbox, events>>,
         context' \in [Ports -> Contexts \cup {None}], object' \in [Ports -> Nat],
         SamePort \/ NewPort,
         channel' \in Channels, channel'.pending = channel.pending \/ channel'.pending = <<>>,
         mainQueue' \in Seq(Tasks), \A m : Queued(m)' => Queued(m), PostsSorted(mainQueue)',
         \A i \in 1..Len(mainQueue') : mainQueue'[i].type = "take" =>
            \E j \in 1..Len(mainQueue) : mainQueue[j] = mainQueue'[i]
  PROVE  OrderInv'
<1> USE DEF OrderInv
<1>1. TypeInv'
  BY DEF TypeInv
<1>0. Present \in Nat /\ Present' \in Nat /\ posted \in Nat
  BY DEF TypeInv, Present, Ports
<1>2. \A m : Pends(m)' => Pends(m)
  BY PendingEmpty, Untouched
<1>3. Increasing(channel.pending)' /\ Increasing(delivered)'
  BY PendingEmpty, Untouched DEF SortedInv
<1>4. \A o, m : (Batched(o, m)' <=> Batched(o, m)) /\ (Event(o, m)' <=> Event(o, m))
  BY Untouched
<1>5. \A m : Done(m)' <=> Done(m)
  BY Untouched
<1>6. /\ \A w \in Workers : \A i \in 1..Len(inbox[w]) : inbox[w][i].type = "taken" => inbox[w][i].object <= Present
      /\ \A c \in Contexts : \A i \in 1..Len(events[c]) : events[c][i].object <= Present
  BY DEF PlaceInv, BatchesPlaced, EventsPlaced
<1>7. CASE NewPort
  <2>1. \A w \in Workers : \A i \in 1..Len(inbox[w]) : ~IsBatch(inbox[w][i], Present')
    BY <1>0, <1>6, <1>7 DEF NewPort, IsBatch
  <2>2. ASSUME NEW c \in Contexts, NEW i \in 1..Len(events[c])
        PROVE  events[c][i].object # Present'
    BY <1>0, <1>6, <1>7 DEF NewPort
  <2>3. PICK o : o = Present'
    OBVIOUS
  <2>4. \A m : ~Batched(o, m) /\ ~Event(o, m)
    BY <2>1, <2>2, <2>3 DEF Batched, HasBatch, Event, HasEvent
  <2>5. LineInv'
    BY <1>0, <1>2, <1>4, <1>5, <2>3, <2>4, LineLoses
  <2>6. /\ \A w \in Workers : BatchesSorted(inbox[w], Present')
        /\ \A c \in Contexts : EventsSorted(events[c], Present')
    BY <2>1, <2>2 DEF BatchesSorted, EventsSorted
  <2>7. SortedInv'
    BY <1>3, <2>6 DEF SortedInv
  <2>8. TakesPlaced'
    <3> SUFFICES ASSUME NEW i \in 1..Len(mainQueue'), mainQueue'[i].type = "take"
                 PROVE  mainQueue'[i].object <= Present' /\ mainQueue'[i].object # Present'
      BY DEF TakesPlaced, IsPresent, Present
    <3>1. PICK j \in 1..Len(mainQueue) : mainQueue[j] = mainQueue'[i]
      OBVIOUS
    <3>2. mainQueue[j].object <= Present
      BY <3>1 DEF PlaceInv, TakesPlaced
    <3>3. mainQueue[j].object \in Nat
      <4>1. mainQueue[j] \in Tasks
        BY DEF TypeInv
      <4> QED BY <3>1, <4>1, TaskIs
    <3> QED BY <1>0, <1>7, <3>1, <3>2, <3>3 DEF NewPort
  <2>9. BatchesPlaced' /\ EventsPlaced'
    <3>1. ASSUME NEW w \in Workers, NEW i \in 1..Len(inbox[w]), inbox[w][i].type = "taken"
          PROVE  inbox[w][i].object <= Present' /\ inbox[w][i].object # Present'
      <4>1. inbox[w][i] \in InboxTasks
        BY DEF TypeInv
      <4>2. inbox[w][i].object \in Nat
        BY <3>1, <4>1 DEF InboxTasks
      <4> QED BY <1>0, <1>6, <1>7, <3>1, <4>2 DEF NewPort
    <3>2. ASSUME NEW c \in Contexts, NEW i \in 1..Len(events[c])
          PROVE  events[c][i].object <= Present' /\ events[c][i].object # Present'
      <4>1. events[c][i] \in EventTasks
        BY DEF TypeInv
      <4>2. events[c][i].object \in Nat
        BY <4>1 DEF EventTasks
      <4> QED BY <1>0, <1>6, <1>7, <4>2 DEF NewPort
    <3> QED BY <3>1, <3>2 DEF BatchesPlaced, EventsPlaced, IsPresent, Present
  <2> QED BY <1>1, <2>5, <2>7, <2>8, <2>9 DEF PlaceInv
<1>8. CASE SamePort
  <2>1. PICK o : o = Present'
    OBVIOUS
  <2>2. LineInv'
    BY <1>0, <1>2, <1>4, <1>5, <1>8, <2>1, LineLoses DEF SamePort
  <2>3. SortedInv'
    BY <1>3, <1>8 DEF SortedInv, SamePort
  <2>4. object'["port2"] = object["port2"] /\ (context'["port2"] = context["port2"] \/ context'["port2"] = None)
    BY <1>8 DEF SamePort, Present, Home
  <2>5. TakesPlaced'
    <3> SUFFICES ASSUME NEW i \in 1..Len(mainQueue'), mainQueue'[i].type = "take"
                 PROVE  /\ mainQueue'[i].object <= object'["port2"]
                        /\ mainQueue'[i].object = object'["port2"] /\ context'["port2"] # None =>
                             mainQueue'[i].context = context'["port2"]
      BY DEF TakesPlaced, IsPresent, Present, Home
    <3>1. PICK j \in 1..Len(mainQueue) : mainQueue[j] = mainQueue'[i]
      OBVIOUS
    <3> QED BY <2>4, <3>1 DEF PlaceInv, TakesPlaced, IsPresent, Present, Home
  <2>6. BatchesPlaced'
    BY <2>4 DEF PlaceInv, BatchesPlaced, IsPresent, Present, Home
  <2>7. EventsPlaced'
    BY <2>4 DEF PlaceInv, EventsPlaced, IsPresent, Present, Home
  <2> QED BY <1>1, <2>2, <2>3, <2>5, <2>6, <2>7 DEF PlaceInv
<1> QED
  BY <1>7, <1>8

(* The queue is left alone, or gets a task that is neither a post nor a    *)
(* take, or loses its first.                                               *)
LEMMA QuietQueue ==
  ASSUME mainQueue \in Seq(Tasks), PostsSorted(mainQueue),
         \/ mainQueue' = mainQueue
         \/ \E t \in Tasks : t.type \notin {"post", "take"} /\ mainQueue' = Append(mainQueue, t)
         \/ mainQueue # <<>> /\ mainQueue' = Tail(mainQueue)
  PROVE  /\ mainQueue' \in Seq(Tasks) /\ PostsSorted(mainQueue)'
         /\ \A m : Queued(m)' => Queued(m)
         /\ \A i \in 1..Len(mainQueue') : mainQueue'[i].type = "take" =>
              \E j \in 1..Len(mainQueue) : mainQueue[j] = mainQueue'[i]
<1>1. CASE mainQueue' = mainQueue
  BY <1>1, Untouched
<1>2. CASE \E t \in Tasks : t.type \notin {"post", "take"} /\ mainQueue' = Append(mainQueue, t)
  <2>1. PICK t \in Tasks : t.type \notin {"post", "take"} /\ mainQueue' = Append(mainQueue, t)
    BY <1>2
  <2>2. \A i \in 1..Len(mainQueue') :
          (i \in 1..Len(mainQueue) /\ mainQueue'[i] = mainQueue[i]) \/ mainQueue'[i] = t
    BY <2>1, AppendIs
  <2> QED BY <2>1, <2>2, QueueAppend
<1>3. CASE mainQueue # <<>> /\ mainQueue' = Tail(mainQueue)
  <2>1. /\ \A i \in 1..Len(mainQueue') : i + 1 \in 2..Len(mainQueue) /\ mainQueue'[i] = mainQueue[i + 1]
        /\ Len(mainQueue) \in Nat
    BY <1>3, TailIs
  <2>2. ASSUME NEW i \in 1..Len(mainQueue')
        PROVE  \E j \in 1..Len(mainQueue) : mainQueue[j] = mainQueue'[i]
    <3>1. i + 1 \in 1..Len(mainQueue) /\ mainQueue'[i] = mainQueue[i + 1]
      BY <2>1
    <3> QED BY <3>1
  <2> QED BY <1>3, <2>2, QueueTail
<1> QED
  BY <1>1, <1>2, <1>3

(* What PostsInv says of a queue. *)
PostsBefore(q) ==
  \A i \in 1..Len(q) : q[i].type = "post" => \E j \in (i + 1)..Len(q) : q[j] = Leave("port1")

(* port1 stays where it is; a post comes from a worker. *)
LEMMA PostsKept ==
  ASSUME PostsInv, mainQueue \in Seq(Tasks), context'["port1"] = context["port1"],
         \/ mainQueue' = mainQueue
         \/ mainQueue # <<>> /\ mainQueue' = Tail(mainQueue)
         \/ \E t \in Tasks : /\ mainQueue' = Append(mainQueue, t)
                             /\ t # Leave("port1")
                             /\ t.type = "post" => context["port1"] \in Workers
  PROVE  PostsInv'
<1>1. CASE mainQueue' = mainQueue
  BY <1>1 DEF PostsInv
<1>2. CASE mainQueue # <<>> /\ mainQueue' = Tail(mainQueue)
  <2>1. /\ Len(mainQueue') = Len(mainQueue) - 1 /\ Len(mainQueue) \in Nat
        /\ \A i \in 1..Len(mainQueue') : i + 1 \in 2..Len(mainQueue) /\ mainQueue'[i] = mainQueue[i + 1]
        /\ \A i \in 2..Len(mainQueue) : i - 1 \in 1..Len(mainQueue') /\ mainQueue[i] = mainQueue'[i - 1]
        /\ \A x : Has(mainQueue', x) => Has(mainQueue, x)
    BY <1>2, TailIs
  <2>2. ASSUME PostsBefore(mainQueue), NEW i \in 1..Len(mainQueue'), mainQueue'[i].type = "post"
        PROVE  \E j \in (i + 1)..Len(mainQueue') : mainQueue'[j] = Leave("port1")
    <3>1. i + 1 \in 1..Len(mainQueue) /\ mainQueue'[i] = mainQueue[i + 1]
      BY <2>1
    <3>2. PICK j \in (i + 2)..Len(mainQueue) : mainQueue[j] = Leave("port1")
      <4>1. \E j \in ((i + 1) + 1)..Len(mainQueue) : mainQueue[j] = Leave("port1")
        BY <2>2, <3>1 DEF PostsBefore
      <4> QED BY <2>1, <4>1
    <3>3. j \in 2..Len(mainQueue) /\ j - 1 \in (i + 1)..Len(mainQueue')
      BY <2>1
    <3>4. mainQueue'[j - 1] = Leave("port1")
      BY <2>1, <3>2, <3>3
    <3> QED BY <3>3, <3>4
  <2>3. PostsBefore(mainQueue) => PostsBefore(mainQueue')
    BY <2>2 DEF PostsBefore
  <2> QED BY <2>1, <2>3 DEF PostsInv, PostsBefore
<1>3. CASE \E t \in Tasks : /\ mainQueue' = Append(mainQueue, t)
                            /\ t # Leave("port1")
                            /\ t.type = "post" => context["port1"] \in Workers
  <2>1. PICK t \in Tasks : /\ mainQueue' = Append(mainQueue, t)
                           /\ t # Leave("port1")
                           /\ t.type = "post" => context["port1"] \in Workers
    BY <1>3
  <2>2. /\ Len(mainQueue') = Len(mainQueue) + 1 /\ Len(mainQueue) \in Nat
        /\ \A i \in 1..Len(mainQueue) : mainQueue'[i] = mainQueue[i]
        /\ \A i \in 1..Len(mainQueue') :
             (i \in 1..Len(mainQueue) /\ mainQueue'[i] = mainQueue[i]) \/ (i = Len(mainQueue) + 1 /\ mainQueue'[i] = t)
        /\ \A x : Has(mainQueue', x) <=> Has(mainQueue, x) \/ x = t
    BY <2>1, AppendIs
  <2>3. ASSUME PostsBefore(mainQueue), t.type # "post", NEW i \in 1..Len(mainQueue'), mainQueue'[i].type = "post"
        PROVE  \E j \in (i + 1)..Len(mainQueue') : mainQueue'[j] = Leave("port1")
    <3>1. i \in 1..Len(mainQueue) /\ mainQueue'[i] = mainQueue[i]
      BY <2>2, <2>3
    <3>2. PICK j \in (i + 1)..Len(mainQueue) : mainQueue[j] = Leave("port1")
      BY <2>3, <3>1 DEF PostsBefore
    <3>3. j \in 1..Len(mainQueue) /\ j \in (i + 1)..Len(mainQueue')
      BY <2>2
    <3> QED BY <2>2, <3>2, <3>3
  <2>4. PostsBefore(mainQueue) /\ t.type # "post" => PostsBefore(mainQueue')
    BY <2>3 DEF PostsBefore
  <2> QED BY <2>1, <2>2, <2>4 DEF PostsInv, PostsBefore
<1> QED
  BY <1>1, <1>2, <1>3

(* A queue with a disentangling of port1 at its end. *)
LEMMA PostsLeft ==
  ASSUME mainQueue \in Seq(Tasks), mainQueue' = Append(mainQueue, Leave("port1")),
         context'["port1"] = None
  PROVE  PostsInv'
<1>0. Leave("port1") \in Tasks /\ Leave("port1").type = "disentangle"
  BY DEF Leave, Tasks, Ports
<1>1. /\ Len(mainQueue') = Len(mainQueue) + 1 /\ Len(mainQueue) \in Nat
      /\ mainQueue'[Len(mainQueue) + 1] = Leave("port1")
  BY <1>0, AppendIs
<1>2. ASSUME NEW i \in 1..Len(mainQueue'), mainQueue'[i].type = "post"
      PROVE  \E j \in (i + 1)..Len(mainQueue') : mainQueue'[j] = Leave("port1")
  <2>1. i # Len(mainQueue) + 1
    BY <1>0, <1>1, <1>2
  <2>2. Len(mainQueue) + 1 \in (i + 1)..Len(mainQueue')
    BY <1>1, <2>1
  <2> QED BY <1>1, <2>2
<1>3. None # Main
  BY NamesAssumption
<1> QED
  BY <1>2, <1>3 DEF PostsInv

(* Nothing that concerns port2 is added to the queue, and port1 stays. *)
LEMMA OpenKept ==
  ASSUME OpenInv, mainQueue \in Seq(Tasks), NeverLeft' => NeverLeft, StaysOpen,
         Home' = Home, context'["port1"] = context["port1"],
         \/ mainQueue' = mainQueue
         \/ \E t \in Tasks : /\ mainQueue' = Append(mainQueue, t)
                             /\ t # Leave("port2") /\ t # Shut("port2")
  PROVE  OpenInv'
<1>1. CASE mainQueue' = mainQueue
  BY <1>1 DEF OpenInv, StaysOpen
<1>2. CASE \E t \in Tasks : /\ mainQueue' = Append(mainQueue, t)
                            /\ t # Leave("port2") /\ t # Shut("port2")
  <2>1. PICK t \in Tasks : /\ mainQueue' = Append(mainQueue, t)
                           /\ t # Leave("port2") /\ t # Shut("port2")
    BY <1>2
  <2>2. \A x : Has(mainQueue', x) <=> Has(mainQueue, x) \/ x = t
    BY <2>1, AppendIs
  <2>3. mainQueue # <<>> => mainQueue' # <<>> /\ Head(mainQueue') = Head(mainQueue)
    BY <2>1
  <2> QED BY <2>1, <2>2, <2>3 DEF OpenInv, StaysOpen
<1> QED
  BY <1>1, <1>2

(* Under way means in one of the five places of port2's first object. *)
Known(m) == Queued(m) \/ Pends(m) \/ Batched(0, m) \/ Event(0, m) \/ Done(m)

(* No message is posted and none that is under way is lost. *)
LEMMA CompleteKept ==
  ASSUME CompleteInv, UNCHANGED <<delivered, posted>>, Present' = 0 => Present = 0,
         NeverLeft' => NeverLeft, NeverLeft' => \A m : Known(m) => Known(m)'
  PROVE  CompleteInv'
BY DEF CompleteInv, Known

(* Every message, a new one too, is under way. *)
LEMMA CompleteAll ==
  ASSUME CompleteInv, delivered' = delivered, Present' = Present,
         NeverLeft' => \A m \in 1..posted' : Known(m)'
  PROVE  CompleteInv'
BY DEF CompleteInv, Known

(* An announcement moves no message. *)
LEMMA NotifiedKeeps ==
  ASSUME inbox \in [Workers -> Seq(InboxTasks)], Notified, UNCHANGED <<object, context>>
  PROVE  /\ inbox' \in [Workers -> Seq(InboxTasks)]
         /\ \A o, m : Batched(o, m)' <=> Batched(o, m)
         /\ \A o : (\A w \in Workers : BatchesSorted(inbox[w], o)) =>
              \A w \in Workers : BatchesSorted(inbox'[w], o)
         /\ BatchesPlaced => BatchesPlaced'
<1>1. CASE inbox' = inbox
  BY <1>1, Untouched
<1>2. CASE \E w \in Workers : inbox' = [inbox EXCEPT ![w] = Append(@, [type |-> "notify"])]
  <2> DEFINE t == [type |-> "notify"]
  <2>1. PICK w \in Workers : inbox' = [inbox EXCEPT ![w] = Append(@, t)]
    BY <1>2
  <2>2. t \in InboxTasks /\ t.type = "notify" /\ \A o : ~IsBatch(t, o)
    BY DEF InboxTasks, IsBatch
  <2> HIDE DEF t
  <2> QED BY <2>1, <2>2, InboxGrows
<1> QED
  BY <1>1, <1>2 DEF Notified

-----------------------------------------------------------------------------
(*                               The actions                               *)

(* A step that changes nothing the invariant speaks of. *)
LEMMA Still ==
  ASSUME IInv, UNCHANGED <<context, object, detached, channel, mainQueue, inbox, events,
                           posted, delivered>>
  PROVE  IInv'
<1>1. /\ mainQueue \in Seq(Tasks) /\ PostsSorted(mainQueue) /\ channel \in Channels
      /\ context \in [Ports -> Contexts \cup {None}] /\ object \in [Ports -> Nat]
  BY DEF IInv, OrderInv, TypeInv, SortedInv
<1>2. SamePort /\ (NeverLeft' <=> NeverLeft) /\ Home' = Home /\ Present' = Present /\ StaysOpen
  BY DEF SamePort, NeverLeft, Present, Home, StaysOpen
<1>3. OrderInv'
  BY <1>1, <1>2, QuietQueue, Silent DEF IInv
<1>4. PostsInv'
  BY <1>1, PostsKept DEF IInv
<1>5. OpenInv'
  BY <1>1, <1>2, OpenKept DEF IInv
<1>6. \A m : Known(m) => Known(m)'
  BY Untouched DEF Known
<1>7. CompleteInv'
  BY <1>2, <1>6, CompleteKept DEF IInv
<1> QED
  BY <1>3, <1>4, <1>5, <1>7 DEF IInv

(* A context has the main thread do something other than a post or a take: *)
(* at once, or behind what is queued.                                      *)
LEMMA OnMainThreadOther ==
  ASSUME TypeInv, NEW c, NEW t \in Tasks, t.type \notin {"post", "take"}, OnMainThread(c, t)
  PROVE  /\ channel' \in Channels /\ UNCHANGED <<inbox, events>>
         /\ \/ c = Main /\ mainQueue' = mainQueue
            \/ c # Main /\ mainQueue' = Append(mainQueue, t)
         /\ \/ channel'.pending = channel.pending
            \/ channel'.pending = <<>> /\ t = Shut("port2")
         /\ t # Shut("port2") /\ t # Leave("port2") => StaysOpen
<1>1. CASE c = Main
  <2>1. Execute(t) /\ mainQueue' = mainQueue
    BY <1>1 DEF OnMainThread
  <2> QED BY <1>1, <2>1, OtherTask
<1>2. CASE c # Main
  <2>1. mainQueue' = Append(mainQueue, t) /\ UNCHANGED <<channel, inbox, events>>
    BY <1>2 DEF OnMainThread, threadVars
  <2>2. channel \in Channels
    BY DEF TypeInv
  <2> QED BY <1>2, <2>1, <2>2 DEF StaysOpen
<1> QED
  BY <1>1, <1>2

(* close() *)
LEMMA CloseStep ==
  ASSUME IInv, NEW p \in Ports, Close(p)
  PROVE  IInv'
<1> DEFINE c == context[p]
<1>0. /\ UNCHANGED <<context, object, posted, delivered>>
      /\ detached' = detached \cup {<<p, object[p]>>} /\ OnMainThread(c, Shut(p))
  BY DEF Close, boundVars, Shut
<1>1. /\ TypeInv /\ mainQueue \in Seq(Tasks) /\ PostsSorted(mainQueue)
      /\ context' \in [Ports -> Contexts \cup {None}] /\ object' \in [Ports -> Nat]
  BY <1>0 DEF IInv, OrderInv, TypeInv, SortedInv
<1>2. Shut(p) \in Tasks /\ Shut(p).type = "close" /\ Shut(p).port = p /\ \A q : Shut(p) # Leave(q)
  BY DEF Shut, Tasks, Leave
<1>3. /\ channel' \in Channels /\ UNCHANGED <<inbox, events>>
      /\ mainQueue' = mainQueue \/ mainQueue' = Append(mainQueue, Shut(p))
      /\ channel'.pending = channel.pending \/ (channel'.pending = <<>> /\ Shut(p) = Shut("port2"))
      /\ Shut(p) # Shut("port2") => StaysOpen
  BY <1>0, <1>1, <1>2, OnMainThreadOther
<1>4. SamePort /\ (NeverLeft' => NeverLeft) /\ Home' = Home /\ Present' = Present
  BY <1>0 DEF SamePort, NeverLeft, Present, Home
<1>5. OrderInv'
  BY <1>0, <1>1, <1>2, <1>3, <1>4, QuietQueue, Silent DEF IInv
<1>6. PostsInv'
  BY <1>0, <1>1, <1>2, <1>3, PostsKept DEF IInv
<1>7. CASE p = "port2"
  <2>1. ~NeverLeft'
    BY <1>0, <1>7 DEF NeverLeft, Present
  <2>2. OpenInv'
    BY <2>1 DEF OpenInv
  <2>3. CompleteInv'
    BY <1>0, <1>4, <2>1, CompleteKept DEF IInv
  <2> QED BY <1>5, <1>6, <2>2, <2>3 DEF IInv
<1>8. CASE p = "port1"
  <2>1. Shut(p) # Shut("port2") /\ Shut(p) # Leave("port2")
    BY <1>2, <1>8 DEF Shut
  <2>2. OpenInv'
    BY <1>0, <1>1, <1>2, <1>3, <1>4, <2>1, OpenKept DEF IInv
  <2>3. \A m : Queued(m) => Queued(m)'
    BY <1>1, <1>2, <1>3, QueueAppend, Untouched
  <2>4. \A m : Known(m) => Known(m)'
    BY <1>0, <1>3, <2>1, <2>3, Untouched DEF Known
  <2>5. CompleteInv'
    BY <1>0, <1>4, <2>4, CompleteKept DEF IInv
  <2> QED BY <1>5, <1>6, <2>2, <2>5 DEF IInv
<1> QED
  BY <1>7, <1>8 DEF Ports

(* disentangle(): the first half of a transfer. *)
LEMMA DisentangleStep ==
  ASSUME IInv, NEW p \in Ports, Disentangle(p)
  PROVE  IInv'
<1> DEFINE c == context[p]
<1>0. /\ UNCHANGED <<object, detached, posted, delivered>> /\ c # None
      /\ context' = [context EXCEPT ![p] = None] /\ OnMainThread(c, Leave(p))
  BY DEF Disentangle, Leave
<1>1. /\ TypeInv /\ mainQueue \in Seq(Tasks) /\ PostsSorted(mainQueue)
      /\ context \in [Ports -> Contexts \cup {None}] /\ object' \in [Ports -> Nat]
  BY <1>0 DEF IInv, OrderInv, TypeInv, SortedInv
<1>a. /\ context' \in [Ports -> Contexts \cup {None}] /\ context'[p] = None
      /\ \A q \in Ports \ {p} : context'[q] = context[q]
  BY <1>0, <1>1
<1>2. /\ Leave(p) \in Tasks /\ Leave(p).type = "disentangle" /\ Leave(p).port = p
      /\ \A q : Leave(p) # Shut(q)
  BY DEF Shut, Tasks, Leave
<1>3. /\ channel' \in Channels /\ UNCHANGED <<inbox, events>>
      /\ (c = Main /\ mainQueue' = mainQueue) \/ mainQueue' = Append(mainQueue, Leave(p))
      /\ channel'.pending = channel.pending
      /\ Leave(p) # Leave("port2") => StaysOpen
  BY <1>0, <1>1, <1>2, OnMainThreadOther
<1>4. /\ SamePort /\ (NeverLeft' => NeverLeft /\ p = "port1") /\ Present' = Present
      /\ p = "port1" => Home' = Home
  BY <1>0, <1>a DEF SamePort, NeverLeft, Present, Home, Ports
<1>5. OrderInv'
  BY <1>0, <1>1, <1>a, <1>2, <1>3, <1>4, QuietQueue, Silent DEF IInv
<1>6. PostsInv'
  <2>1. CASE p = "port2"
    <3>1. context'["port1"] = context["port1"] /\ Leave(p) # Leave("port1")
      BY <1>a, <1>2, <2>1 DEF Ports, Leave
    <3> QED BY <1>1, <1>2, <1>3, <3>1, PostsKept DEF IInv
  <2>2. CASE p = "port1" /\ mainQueue' = Append(mainQueue, Leave(p))
    BY <1>1, <1>a, <2>2, PostsLeft
  <2>3. CASE p = "port1" /\ c = Main /\ mainQueue' = mainQueue
    <3>1. c \notin Workers /\ context'["port1"] = None /\ None # Main
      BY <1>a, <2>3, NamesAssumption
    <3> QED BY <2>3, <3>1 DEF IInv, PostsInv
  <2> QED BY <1>3, <2>1, <2>2, <2>3 DEF Ports
<1>7. OpenInv'
  <2>1. CASE p = "port2"
    BY <1>4, <2>1 DEF OpenInv
  <2>2. CASE p = "port1" /\ ~NeverLeft'
    BY <2>2 DEF OpenInv
  <2>3. CASE p = "port1" /\ NeverLeft'
    <3>1. NeverLeft /\ Home' = Home /\ StaysOpen /\ context'["port1"] = None /\ None # Main
      BY <1>a, <1>2, <1>3, <1>4, <2>3, NamesAssumption DEF Leave
    <3>2. Leave(p) # Leave("port2") /\ Leave(p) # Shut("port2")
      BY <1>2, <2>3 DEF Leave
    <3>3. CASE mainQueue' = Append(mainQueue, Leave(p))
      <4>1. \A x : Has(mainQueue', x) <=> Has(mainQueue, x) \/ x = Leave(p)
        BY <1>1, <1>2, <3>3, AppendIs
      <4>2. mainQueue # <<>> => mainQueue' # <<>> /\ Head(mainQueue') = Head(mainQueue)
        BY <1>1, <3>3
      <4> QED BY <2>3, <3>1, <3>2, <4>1, <4>2 DEF IInv, OpenInv, StaysOpen
    <3>4. CASE c = Main /\ mainQueue' = mainQueue
      BY <2>3, <3>1, <3>4 DEF IInv, OpenInv, StaysOpen
    <3> QED BY <1>3, <3>3, <3>4
  <2> QED BY <2>1, <2>2, <2>3 DEF Ports
<1>8. CompleteInv'
  <2>1. \A m : Queued(m) => Queued(m)'
    BY <1>1, <1>2, <1>3, QueueAppend, Untouched
  <2>2. \A m : Known(m) => Known(m)'
    BY <1>0, <1>3, <2>1, Untouched DEF Known
  <2> QED BY <1>0, <1>4, <2>2, CompleteKept DEF IInv
<1> QED
  BY <1>5, <1>6, <1>7, <1>8 DEF IInv

(* entangle(): a new object takes the port's place in context c. *)
LEMMA EntangleStep ==
  ASSUME IInv, NEW p \in Ports, NEW c \in Contexts, Entangle(p, c)
  PROVE  IInv'
<1> DEFINE t == [type |-> "entangle", port |-> p]
<1>0. /\ UNCHANGED <<detached, posted, delivered>> /\ context[p] = None
      /\ context' = [context EXCEPT ![p] = c] /\ object' = [object EXCEPT ![p] = object[p] + 1]
      /\ c = Main => ~Has(mainQueue, Leave(p))
      /\ OnMainThread(c, t)
  <2>1. IInv => object \in [Ports -> Nat]
    BY DEF IInv, OrderInv, TypeInv
  <2> QED BY <2>1 DEF Entangle, boundVars, Contains, Has, Leave
<1>1. /\ TypeInv /\ mainQueue \in Seq(Tasks) /\ PostsSorted(mainQueue)
      /\ context \in [Ports -> Contexts \cup {None}] /\ object \in [Ports -> Nat]
  BY DEF IInv, OrderInv, TypeInv, SortedInv
<1>a. /\ context' \in [Ports -> Contexts \cup {None}] /\ context'[p] = c
      /\ \A q \in Ports \ {p} : context'[q] = context[q]
  BY <1>0, <1>1
<1>b. /\ object' \in [Ports -> Nat] /\ object'[p] = object[p] + 1
      /\ \A q \in Ports \ {p} : object'[q] = object[q]
  <2>1. object[p] + 1 \in Nat
    BY <1>1
  <2> QED BY <1>0, <1>1, <2>1
<1>2. /\ t \in Tasks /\ t.type = "entangle" /\ \A q : t # Shut(q) /\ t # Leave(q)
  BY DEF Shut, Tasks, Leave
<1> HIDE DEF t
<1>3. /\ channel' \in Channels /\ UNCHANGED <<inbox, events>>
      /\ (c = Main /\ mainQueue' = mainQueue) \/ (c # Main /\ mainQueue' = Append(mainQueue, t))
      /\ channel'.pending = channel.pending /\ StaysOpen
  BY <1>0, <1>1, <1>2, OnMainThreadOther
<1>4. /\ p = "port2" => NewPort /\ ~NeverLeft' /\ Present' # 0
      /\ p = "port1" => SamePort /\ (NeverLeft' <=> NeverLeft) /\ Home' = Home /\ Present' = Present
  <2>1. object["port2"] \in Nat /\ "port2" \in Ports
    BY <1>1 DEF Ports
  <2> QED BY <1>0, <1>a, <1>b, <2>1 DEF SamePort, NewPort, NeverLeft, Present, Home
<1>5. OrderInv'
  BY <1>0, <1>1, <1>a, <1>b, <1>2, <1>3, <1>4, QuietQueue, Silent DEF IInv, Ports
<1>6. PostsInv'
  <2>1. CASE p = "port2"
    <3>1. context'["port1"] = context["port1"]
      BY <1>a, <2>1 DEF Ports
    <3> QED BY <1>1, <1>2, <1>3, <3>1, PostsKept DEF IInv
  <2>2. CASE p = "port1" /\ c # Main
    <3>1. context'["port1"] \in Workers /\ context'["port1"] # Main
      BY <1>a, <2>2 DEF Contexts
    <3> QED BY <3>1 DEF PostsInv
  <2>3. CASE p = "port1" /\ c = Main
    <3>1. context["port1"] \notin Workers /\ mainQueue' = mainQueue /\ ~Has(mainQueue, Leave("port1"))
      BY <1>0, <1>3, <2>3, NamesAssumption
    <3> QED BY <3>1 DEF IInv, PostsInv
  <2> QED BY <2>1, <2>2, <2>3 DEF Ports
<1>7. OpenInv'
  <2>1. CASE ~NeverLeft'
    BY <2>1 DEF OpenInv
  <2>2. CASE p = "port1" /\ NeverLeft'
    <3>1. NeverLeft /\ Home' = Home /\ context["port1"] = None /\ context'["port1"] = c /\ c # None
      BY <1>0, <1>a, <1>4, <2>2, NamesAssumption DEF Contexts
    <3>2. CASE c # Main
      <4>0. mainQueue' = Append(mainQueue, t) /\ mainQueue \in Seq(Tasks) /\ t \in Tasks
        BY <1>1, <1>2, <1>3, <3>2
      <4>1. \A x : Has(mainQueue', x) <=> Has(mainQueue, x) \/ x = t
        BY ONLY <4>0, AppendIs
      <4>2. mainQueue # <<>> => mainQueue' # <<>> /\ Head(mainQueue') = Head(mainQueue)
        BY <4>0
      <4> QED BY <1>2, <1>3, <3>1, <3>2, <4>1, <4>2 DEF IInv, OpenInv, StaysOpen
    <3>3. CASE c = Main
      BY <1>0, <1>3, <2>2, <3>1, <3>3 DEF IInv, OpenInv, StaysOpen
    <3> QED BY <3>2, <3>3
  <2> QED BY <1>4, <2>1, <2>2 DEF Ports
<1>8. CompleteInv'
  <2>1. \A m : Queued(m) => Queued(m)'
    BY <1>1, <1>2, <1>3, QueueAppend, Untouched
  <2>2. \A m : Known(m) => Known(m)'
    BY <1>0, <1>3, <2>1, Untouched DEF Known
  <2> QED BY <1>0, <1>4, <2>2, CompleteKept DEF IInv, Ports
<1> QED
  BY <1>5, <1>6, <1>7, <1>8 DEF IInv

(* The rest of the steps leave port2 where it is. *)
Stays == UNCHANGED <<context, object, detached>>

(* Then it is the same object, and has left no more than before. *)
LEMMA StaysMeans ==
  ASSUME Stays
  PROVE  /\ Present' = Present /\ Home' = Home /\ SamePort
         /\ (NeverLeft' <=> NeverLeft)
         /\ context'["port1"] = context["port1"]
BY DEF Stays, Present, Home, SamePort, NeverLeft

(* postMessage() *)
LEMMA PostMessageStep ==
  ASSUME IInv, PostMessage
  PROVE  IInv'
<1> DEFINE c == context["port1"]
           n == posted + 1
<1>0. /\ Stays /\ delivered' = delivered /\ posted' = n /\ c # None /\ OnMainThread(c, Post(n))
  BY DEF PostMessage, portVars, Stays, Post
<1>1. /\ TypeInv /\ SortedInv /\ LineInv /\ PlaceInv
      /\ mainQueue \in Seq(Tasks) /\ channel \in Channels /\ posted \in Nat
      /\ context \in [Ports -> Contexts \cup {None}] /\ "port1" \in Ports
  BY DEF IInv, OrderInv, TypeInv, Ports
<1>2. /\ n \in Nat /\ n \in 1..n /\ \A m \in 1..posted : m < n
      /\ Post(n) \in Tasks /\ Post(n).type = "post" /\ Post(n).message = n
      /\ \A q : Post(n) # Leave(q) /\ Post(n) # Shut(q)
  BY <1>1 DEF Tasks, Post, Leave, Shut
<1>3. \A m : Queued(m) \/ Pends(m) \/ Taken(m) => m < n
  BY <1>1, <1>2 DEF LineInv
<1>4. /\ Present' = Present /\ Home' = Home /\ (NeverLeft' <=> NeverLeft)
      /\ context'["port1"] = context["port1"]
  BY <1>0, StaysMeans
<1>b. UNCHANGED <<object, context>>
  BY <1>0 DEF Stays
<1> HIDE DEF n
<1>5. CASE c = Main
  <2>1. Execute(Post(n)) /\ mainQueue' = mainQueue
    BY <1>0, <1>5 DEF OnMainThread
  <2>2. /\ channel' \in Channels /\ UNCHANGED events /\ Notified /\ StaysOpen
        /\ \/ channel'.pending = Append(channel.pending, n)
           \/ channel'.pending = channel.pending /\ ~channel.open
    BY <1>1, <1>2, <2>1, PostTask
  <2>3. \A m : ~Queued(m)
    <3> SUFFICES ASSUME NEW i \in 1..Len(mainQueue), mainQueue[i].type = "post"
                 PROVE  FALSE
      BY DEF Queued, HasPost
    <3>1. PICK j \in (i + 1)..Len(mainQueue) : mainQueue[j] = Leave("port1")
      BY <1>5, NamesAssumption DEF IInv, PostsInv
    <3>2. j \in 1..Len(mainQueue)
      OBVIOUS
    <3> QED BY <1>5, <3>1, <3>2 DEF IInv, PostsInv, Has
  <2>4. /\ inbox' \in [Workers -> Seq(InboxTasks)]
        /\ \A o, m : Batched(o, m)' <=> Batched(o, m)
        /\ \A o : (\A w \in Workers : BatchesSorted(inbox[w], o)) =>
             \A w \in Workers : BatchesSorted(inbox'[w], o)
        /\ BatchesPlaced => BatchesPlaced'
    BY <1>1, <1>b, <2>2, NotifiedKeeps DEF TypeInv
  <2>5. TypeInv'
    BY <1>0, <1>1, <1>2, <2>1, <2>2, <2>4 DEF TypeInv, Stays
  <2>6. PlaceInv'
    BY <1>1, <1>b, <2>1, <2>2, <2>4, Untouched DEF PlaceInv
  <2>7. Increasing(channel.pending)'
    BY <1>1, <1>2, <1>3, <2>2, PendingAppend, Untouched DEF SortedInv
  <2>8. SortedInv'
    <3>1. PostsSorted(mainQueue)' /\ Increasing(delivered)'
      BY <1>0, <1>1, <2>1, Untouched DEF SortedInv
    <3>2. \A w \in Workers : BatchesSorted(inbox'[w], Present)
      BY <1>1, <2>4 DEF SortedInv
    <3> QED BY <1>1, <1>4, <2>2, <2>7, <3>1, <3>2 DEF SortedInv
  <2>9. /\ \A m : Queued(m)' <=> Queued(m)
        /\ \A p, m : Event(p, m)' <=> Event(p, m)
        /\ \A m : Done(m)' <=> Done(m)
    BY <1>0, <2>1, <2>2, Untouched
  <2>10. ASSUME channel'.pending = Append(channel.pending, n)
         PROVE  LineInv' /\ CompleteInv'
    <3>1. \A m : Pends(m)' <=> Pends(m) \/ m = n
      BY <1>1, <1>2, <2>10, PendingAppend
    <3>2. LineInv'
      <4>1. n \in 1..posted' /\ posted' \in {posted, posted + 1}
        BY <1>0, <1>2 DEF n
      <4> QED BY <1>1, <1>3, <1>4, <2>3, <2>4, <2>9, <3>1, <4>1, LineReceives
    <3>3. ASSUME NeverLeft', NEW m \in 1..posted'
          PROVE  Known(m)'
      <4>1. m = n \/ m \in 1..posted
        BY <1>0, <1>1 DEF n
      <4>2. m \in 1..posted => Known(m)
        BY <1>4, <3>3 DEF IInv, CompleteInv, Known
      <4> QED BY <2>4, <2>9, <3>1, <4>1, <4>2 DEF Known
    <3>4. CompleteInv'
      BY <1>0, <1>4, <3>3, CompleteAll DEF IInv
    <3> QED BY <3>2, <3>4
  <2>11. ASSUME channel'.pending = channel.pending /\ ~channel.open
         PROVE  LineInv' /\ CompleteInv'
    <3>1. \A m : Pends(m)' <=> Pends(m)
      BY <2>11, Untouched
    <3>2. LineInv'
      <4>1. posted' \in {posted, posted + 1}
        BY <1>0 DEF n
      <4> QED BY <1>1, <1>4, <2>4, <2>9, <3>1, <4>1, LineLoses
    <3>3. ~NeverLeft'
      BY <1>4, <1>5, <2>11 DEF IInv, OpenInv
    <3>4. CompleteInv'
      BY <1>0, <1>4, <3>3, CompleteAll DEF IInv
    <3> QED BY <3>2, <3>4
  <2>12. PostsInv'
    BY <1>1, <1>4, <2>1, PostsKept DEF IInv
  <2>13. OpenInv'
    BY <1>1, <1>4, <2>1, <2>2, OpenKept DEF IInv
  <2> QED BY <2>2, <2>5, <2>6, <2>8, <2>10, <2>11, <2>12, <2>13 DEF IInv, OrderInv
<1>6. CASE c # Main
  <2>0. c \in Workers
    BY <1>0, <1>1, <1>6 DEF Contexts
  <2>1. mainQueue' = Append(mainQueue, Post(n)) /\ UNCHANGED <<channel, inbox, events>>
    BY <1>0, <1>6 DEF OnMainThread, threadVars
  <2>2. /\ mainQueue' \in Seq(Tasks)
        /\ \A m : Queued(m)' <=> Queued(m) \/ m = n
        /\ PostsSorted(mainQueue)' /\ TakesPlaced'
    BY <1>1, <1>2, <1>3, <1>b, <2>1, QueueAppend DEF SortedInv, PlaceInv
  <2>3. /\ \A m : Pends(m)' <=> Pends(m)
        /\ \A p, m : Batched(p, m)' <=> Batched(p, m)
        /\ \A p, m : Event(p, m)' <=> Event(p, m)
        /\ \A m : Done(m)' <=> Done(m)
    BY <1>0, <2>1, Untouched
  <2>4. TypeInv'
    BY <1>0, <1>1, <1>2, <2>1, <2>2 DEF TypeInv, Stays
  <2>5. SortedInv'
    BY <1>0, <1>1, <1>4, <2>1, <2>2 DEF SortedInv
  <2>6. PlaceInv'
    BY <1>1, <1>b, <2>1, <2>2, Untouched DEF PlaceInv
  <2>7. LineInv'
    BY <1>0, <1>1, <1>4, <2>2, <2>3, LinePosts DEF n
  <2>8. PostsInv'
    BY <1>1, <1>2, <1>4, <2>0, <2>1, PostsKept DEF IInv
  <2>9. OpenInv'
    <3>1. StaysOpen
      BY <2>1 DEF StaysOpen
    <3> QED BY <1>1, <1>2, <1>4, <2>1, <3>1, OpenKept DEF IInv
  <2>10. CompleteInv'
    <3>1. ASSUME NeverLeft', NEW m \in 1..posted'
          PROVE  Known(m)'
      <4>1. m = n \/ m \in 1..posted
        BY <1>0, <1>1 DEF n
      <4>2. m \in 1..posted => Known(m)
        BY <1>4, <3>1 DEF IInv, CompleteInv, Known
      <4> QED BY <2>2, <2>3, <4>1, <4>2 DEF Known
    <3> QED BY <1>0, <1>4, <3>1, CompleteAll DEF IInv
  <2> QED BY <2>4, <2>5, <2>6, <2>7, <2>8, <2>9, <2>10 DEF IInv, OrderInv
<1> QED
  BY <1>5, <1>6

(* The main thread runs a task other than a post or a take. *)
LEMMA RunOther ==
  ASSUME IInv, MainThreadStep, Head(mainQueue).type \notin {"post", "take"}
  PROVE  IInv'
<1> DEFINE t == Head(mainQueue)
<1>0. /\ Stays /\ UNCHANGED <<delivered, posted>>
      /\ mainQueue # <<>> /\ mainQueue' = Tail(mainQueue) /\ Execute(t)
  BY DEF MainThreadStep, portVars, boundVars, Stays
<1>1. /\ TypeInv /\ mainQueue \in Seq(Tasks) /\ PostsSorted(mainQueue)
      /\ context' \in [Ports -> Contexts \cup {None}] /\ object' \in [Ports -> Nat]
  BY <1>0 DEF IInv, OrderInv, TypeInv, SortedInv, Stays
<1>2. /\ t \in Tasks /\ \A m : Queued(m)' <=> Queued(m)
  BY <1>0, <1>1, QueueTail
<1>3. \A x : Has(mainQueue, x) <=> t = x \/ Has(mainQueue', x)
  BY <1>0, <1>1, TailIs
<1>4. /\ Present' = Present /\ Home' = Home /\ SamePort /\ (NeverLeft' <=> NeverLeft)
      /\ context'["port1"] = context["port1"]
  BY <1>0, StaysMeans
<1>5. /\ channel' \in Channels /\ UNCHANGED <<inbox, events>>
      /\ channel'.pending = channel.pending \/ (channel'.pending = <<>> /\ t = Shut("port2"))
      /\ t # Shut("port2") /\ t # Leave("port2") => StaysOpen
      /\ t.type = "create" => channel'.open /\ channel'.entangled["port2"]
  BY <1>0, <1>1, <1>2, OtherTask
<1> HIDE DEF t
<1>6. OrderInv'
  BY <1>0, <1>1, <1>4, <1>5, QuietQueue, Silent DEF IInv
<1>7. PostsInv'
  BY <1>0, <1>1, <1>4, PostsKept DEF IInv
<1>8. NeverLeft => t # Shut("port2") /\ t # Leave("port2")
  BY <1>3 DEF IInv, OpenInv
<1>9. OpenInv'
  <2> SUFFICES ASSUME NeverLeft
               PROVE  /\ ~Has(mainQueue', Leave("port2")) /\ ~Has(mainQueue', Shut("port2"))
                      /\ channel'.open /\ channel'.entangled["port2"]
    BY <1>4 DEF OpenInv
  <2>1. channel.open /\ channel.entangled["port2"] => channel'.open /\ channel'.entangled["port2"]
    BY <1>5, <1>8 DEF StaysOpen
  <2> QED BY <1>3, <1>5, <2>1 DEF IInv, OpenInv, t
<1>10. CompleteInv'
  <2>1. NeverLeft' => \A m : Known(m) => Known(m)'
    BY <1>0, <1>2, <1>4, <1>5, <1>8, Untouched DEF Known
  <2> QED BY <1>0, <1>4, <2>1, CompleteKept DEF IInv
<1> QED
  BY <1>6, <1>7, <1>9, <1>10 DEF IInv

(* The main thread puts a posted message into the channel. *)
LEMMA RunPost ==
  ASSUME IInv, MainThreadStep, Head(mainQueue).type = "post"
  PROVE  IInv'
<1> DEFINE t == Head(mainQueue)
           n == t.message
<1>0. /\ Stays /\ UNCHANGED <<delivered, posted>>
      /\ mainQueue # <<>> /\ mainQueue' = Tail(mainQueue) /\ Execute(t)
  BY DEF MainThreadStep, portVars, boundVars, Stays
<1>1. /\ TypeInv /\ SortedInv /\ LineInv /\ PlaceInv /\ posted \in Nat
      /\ mainQueue \in Seq(Tasks) /\ PostsSorted(mainQueue) /\ channel \in Channels
  BY DEF IInv, OrderInv, TypeInv, SortedInv
<1>b. UNCHANGED <<object, context>>
  BY <1>0 DEF Stays
<1>2. /\ t \in Tasks /\ \A m : Queued(m) <=> Queued(m)' \/ m = n
      /\ mainQueue' \in Seq(Tasks) /\ PostsSorted(mainQueue)' /\ TakesPlaced'
      /\ \A m : Queued(m)' => n < m
  BY <1>0, <1>1, <1>b, QueueTail DEF PlaceInv
<1>3. n \in Nat /\ t = Post(n)
  BY <1>2, TaskIs
<1>4. /\ Present' = Present /\ Home' = Home /\ (NeverLeft' <=> NeverLeft)
      /\ context'["port1"] = context["port1"]
  BY <1>0, StaysMeans
<1>5. /\ channel' \in Channels /\ UNCHANGED events /\ Notified /\ StaysOpen
      /\ \/ channel'.pending = Append(channel.pending, n)
         \/ channel'.pending = channel.pending /\ ~channel.open
  BY <1>0, <1>1, <1>3, PostTask
<1>6. \A x : Has(mainQueue', x) => Has(mainQueue, x)
  BY <1>0, <1>1, TailIs
<1>7. n \in 1..posted /\ \A m : Pends(m) \/ Taken(m) => m < n
  BY <1>1, <1>2 DEF LineInv
<1>8. NeverLeft => channel.open /\ channel.entangled["port2"]
  BY DEF IInv, OpenInv
<1> HIDE DEF t, n
<1>9. /\ inbox' \in [Workers -> Seq(InboxTasks)]
      /\ \A o, m : Batched(o, m)' <=> Batched(o, m)
      /\ \A o : (\A w \in Workers : BatchesSorted(inbox[w], o)) =>
           \A w \in Workers : BatchesSorted(inbox'[w], o)
      /\ BatchesPlaced => BatchesPlaced'
  BY <1>1, <1>b, <1>5, NotifiedKeeps DEF TypeInv
<1>10. /\ \A p, m : Event(p, m)' <=> Event(p, m)
       /\ \A m : Done(m)' <=> Done(m)
  BY <1>0, <1>5, Untouched
<1>11. TypeInv'
  BY <1>0, <1>1, <1>2, <1>5, <1>9 DEF TypeInv, Stays
<1>12. PlaceInv'
  BY <1>1, <1>b, <1>2, <1>5, <1>9, Untouched DEF PlaceInv
<1>13. SortedInv'
  <2>1. Increasing(channel.pending)'
    BY <1>1, <1>3, <1>5, <1>7, PendingAppend, Untouched DEF SortedInv
  <2>2. \A w \in Workers : BatchesSorted(inbox'[w], Present)
    BY <1>1, <1>9 DEF SortedInv
  <2> QED BY <1>0, <1>1, <1>2, <1>4, <1>5, <2>1, <2>2 DEF SortedInv
<1>14. ASSUME channel'.pending = Append(channel.pending, n)
       PROVE  LineInv' /\ CompleteInv'
  <2>1. \A m : Pends(m)' <=> Pends(m) \/ m = n
    BY <1>1, <1>3, <1>14, PendingAppend
  <2>2. LineInv'
    <3>1. n \in 1..posted' /\ posted' \in {posted, posted + 1}
      BY <1>0, <1>7
    <3> QED BY <1>1, <1>2, <1>4, <1>7, <1>9, <1>10, <2>1, <3>1, LineReceives
  <2>3. \A m : Known(m) => Known(m)'
    BY <1>2, <1>9, <1>10, <2>1 DEF Known
  <2>4. CompleteInv'
    BY <1>0, <1>4, <2>3, CompleteKept DEF IInv
  <2> QED BY <2>2, <2>4
<1>15. ASSUME channel'.pending = channel.pending /\ ~channel.open
       PROVE  LineInv' /\ CompleteInv'
  <2>1. \A m : Pends(m)' <=> Pends(m)
    BY <1>15, Untouched
  <2>2. LineInv'
    <3>1. posted' \in {posted, posted + 1}
      BY <1>0
    <3> QED BY <1>1, <1>2, <1>4, <1>9, <1>10, <2>1, <3>1, LineLoses
  <2>3. CompleteInv'
    BY <1>0, <1>4, <1>8, <1>15, CompleteKept DEF IInv
  <2> QED BY <2>2, <2>3
<1>16. PostsInv'
  BY <1>0, <1>1, <1>4, PostsKept DEF IInv
<1>17. OpenInv'
  BY <1>4, <1>5, <1>6, <1>8 DEF IInv, OpenInv, StaysOpen
<1> QED
  BY <1>5, <1>11, <1>12, <1>13, <1>14, <1>15, <1>16, <1>17 DEF IInv, OrderInv

(* The main thread takes all that is pending for a worker. *)
LEMMA RunTake ==
  ASSUME IInv, MainThreadStep, Head(mainQueue).type = "take"
  PROVE  IInv'
<1> DEFINE t == Head(mainQueue)
           c == t.context
           o == t.object
<1>0. /\ Stays /\ UNCHANGED <<delivered, posted>>
      /\ mainQueue # <<>> /\ mainQueue' = Tail(mainQueue) /\ TakeAllMessages(c, o)
  BY DEF MainThreadStep, portVars, boundVars, Stays, Execute
<1>1. /\ TypeInv /\ SortedInv /\ LineInv /\ PlaceInv /\ posted \in Nat
      /\ mainQueue \in Seq(Tasks) /\ PostsSorted(mainQueue) /\ channel \in Channels
      /\ context' \in [Ports -> Contexts \cup {None}] /\ object' \in [Ports -> Nat]
  BY <1>0 DEF IInv, OrderInv, TypeInv, SortedInv, Stays
<1>b. UNCHANGED <<object, context>>
  BY <1>0 DEF Stays
<1>2. /\ t \in Tasks /\ \A m : Queued(m)' <=> Queued(m)
      /\ mainQueue' \in Seq(Tasks) /\ PostsSorted(mainQueue)' /\ TakesPlaced'
  BY <1>0, <1>1, <1>b, QueueTail DEF PlaceInv
<1>3. c \in Workers /\ c \in Contexts /\ c # Main /\ o \in Nat
  BY <1>2, TaskIs, NamesAssumption DEF Contexts
<1>4. /\ Present' = Present /\ Home' = Home /\ SamePort /\ (NeverLeft' <=> NeverLeft)
      /\ context'["port1"] = context["port1"]
  BY <1>0, StaysMeans
<1>5. /\ channel' \in Channels /\ StaysOpen
      /\ TakesNothing \/ TakesBatch(c, o)
  BY <1>0, <1>1, <1>3, TakeTask
<1>6. \A x : Has(mainQueue', x) => Has(mainQueue, x)
  BY <1>0, <1>1, TailIs
<1>7. o <= Present /\ (IsPresent(o) => c = Home)
  <2>1. t = mainQueue[1] /\ 1 \in 1..Len(mainQueue)
    BY <1>0, <1>1, TailIs
  <2> QED BY <1>1, <2>1 DEF PlaceInv, TakesPlaced
<1>8. NeverLeft => channel.open /\ channel.entangled["port2"]
  BY DEF IInv, OpenInv
<1>9. OpenInv'
  BY <1>4, <1>5, <1>6, <1>8 DEF IInv, OpenInv, StaysOpen
<1>10. PostsInv'
  BY <1>0, <1>1, <1>4, PostsKept DEF IInv
<1> HIDE DEF t, c, o
<1>11. CASE TakesNothing
  <2>1. OrderInv'
    BY <1>0, <1>1, <1>4, <1>5, <1>11, QuietQueue, Silent DEF IInv, TakesNothing
  <2>2. \A m : Known(m) => Known(m)'
    BY <1>0, <1>2, <1>11, Untouched DEF Known, TakesNothing
  <2>3. CompleteInv'
    BY <1>0, <1>4, <2>2, CompleteKept DEF IInv
  <2> QED BY <1>9, <1>10, <2>1, <2>3 DEF IInv
<1>12. CASE TakesBatch(c, o)
  <2> DEFINE b == [type |-> "taken", object |-> o, messages |-> channel.pending]
  <2>1. /\ b \in InboxTasks /\ b.type = "taken" /\ b.object = o /\ b.messages = channel.pending
        /\ \A p : IsBatch(b, p) <=> p = o
        /\ inbox' = [inbox EXCEPT ![c] = Append(@, b)]
        /\ channel'.pending = <<>> /\ events' = events
    BY <1>1, <1>3, <1>12 DEF InboxTasks, TypeInv, Channels, IsBatch, TakesBatch
  <2> HIDE DEF b
  <2>2. \A m, n : Batched(Present, m) /\ Has(b.messages, n) => m < n
    BY <1>1, <2>1 DEF LineInv, Taken, Pends
  <2>3. Increasing(b.messages)
    BY <1>1, <2>1 DEF SortedInv
  <2>4. /\ inbox' \in [Workers -> Seq(InboxTasks)]
        /\ \A p, m : Batched(p, m)' <=> Batched(p, m) \/ (p = o /\ Pends(m))
        /\ BatchesPlaced'
    <3>1. inbox \in [Workers -> Seq(InboxTasks)] /\ BatchesPlaced
      BY <1>1 DEF TypeInv, PlaceInv
    <3> QED BY <1>3, <1>b, <1>7, <2>1, <3>1, InboxGrows DEF Pends
  <2>5. \A w \in Workers : BatchesSorted(inbox'[w], Present)
    <3>1. inbox \in [Workers -> Seq(InboxTasks)] /\ \A w \in Workers : BatchesSorted(inbox[w], Present)
      BY <1>1 DEF TypeInv, SortedInv
    <3> QED BY <1>3, <2>1, <2>2, <2>3, <3>1, InboxGrows
  <2>6. (\A m : ~Pends(m)') /\ Increasing(channel.pending)'
    BY <2>1, PendingEmpty
  <2>7. /\ \A p, m : Event(p, m)' <=> Event(p, m)
        /\ \A m : Done(m)' <=> Done(m)
    BY <1>0, <2>1, Untouched
  <2>8. TypeInv'
    BY <1>0, <1>1, <1>2, <1>5, <2>1, <2>4 DEF TypeInv, Stays
  <2>9. SortedInv'
    BY <1>0, <1>1, <1>2, <1>4, <2>1, <2>5, <2>6 DEF SortedInv
  <2>10. PlaceInv'
    BY <1>1, <1>b, <1>2, <2>1, <2>4, Untouched DEF PlaceInv
  <2>11. LineInv'
    BY <1>0, <1>1, <1>2, <1>4, <2>4, <2>6, <2>7, LineTakesBatch
  <2>12. NeverLeft' => \A m : Known(m) => Known(m)'
    <3>1. NeverLeft' => o = 0
      BY <1>3, <1>4, <1>7 DEF NeverLeft
    <3> QED BY <1>2, <2>4, <2>7, <3>1 DEF Known
  <2>13. CompleteInv'
    BY <1>0, <1>4, <2>12, CompleteKept DEF IInv
  <2> QED BY <1>9, <1>10, <2>8, <2>9, <2>10, <2>11, <2>13 DEF IInv, OrderInv
<1> QED
  BY <1>5, <1>11, <1>12

(* Whichever task the main thread runs. *)
LEMMA MainThreadStepKeeps ==
  ASSUME IInv, MainThreadStep
  PROVE  IInv'
BY RunOther, RunPost, RunTake

(* A worker runs the announcement of a message. *)
LEMMA NotifyStep ==
  ASSUME IInv, NEW w \in Workers, WorkerStep(w), NotifyTask(w)
  PROVE  IInv'
<1>0. /\ Stays /\ UNCHANGED <<delivered, posted, channel, events, mainQueue>>
      /\ inbox[w] # <<>> /\ inbox' = [inbox EXCEPT ![w] = Tail(@)] /\ Head(inbox[w]).type = "notify"
  BY DEF WorkerStep, NotifyTask, portVars, boundVars, Stays
<1>1. /\ TypeInv /\ SortedInv /\ LineInv /\ PlaceInv /\ posted \in Nat
      /\ mainQueue \in Seq(Tasks) /\ inbox \in [Workers -> Seq(InboxTasks)]
  BY DEF IInv, OrderInv, TypeInv
<1>b. UNCHANGED <<object, context>>
  BY <1>0 DEF Stays
<1>2. /\ Present' = Present /\ Home' = Home /\ (NeverLeft' <=> NeverLeft)
      /\ context'["port1"] = context["port1"]
  BY <1>0, StaysMeans
<1>3. \A o : ~IsBatch(Head(inbox[w]), o)
  BY <1>0 DEF IsBatch
<1>4. /\ inbox' \in [Workers -> Seq(InboxTasks)]
      /\ \A o, m : Batched(o, m) <=> Batched(o, m)'
      /\ BatchesPlaced'
  BY <1>0, <1>1, <1>b, <1>3, InboxShrinks DEF PlaceInv
<1>5. \A v \in Workers : BatchesSorted(inbox'[v], Present)
  BY <1>0, <1>1, InboxShrinks DEF SortedInv
<1>6. /\ \A m : Queued(m)' <=> Queued(m)
      /\ \A m : Pends(m)' <=> Pends(m)
      /\ \A p, m : Event(p, m)' <=> Event(p, m)
      /\ \A m : Done(m)' <=> Done(m)
  BY <1>0, Untouched
<1>7. TypeInv'
  BY <1>0, <1>1, <1>4 DEF TypeInv, Stays
<1>8. SortedInv'
  BY <1>0, <1>1, <1>2, <1>5 DEF SortedInv
<1>9. PlaceInv'
  BY <1>0, <1>1, <1>b, <1>4, Untouched DEF PlaceInv
<1>10. LineInv'
  <2>1. posted' \in {posted, posted + 1}
    BY <1>0
  <2>2. \A m : (Queued(m)' => Queued(m)) /\ (Pends(m)' => Pends(m))
    BY <1>0, Untouched
  <2> QED BY <1>1, <1>2, <1>4, <1>6, <2>1, <2>2, LineLoses
<1>11. PostsInv' /\ OpenInv'
  <2>1. StaysOpen
    BY <1>0 DEF StaysOpen
  <2> QED BY <1>0, <1>1, <1>2, <2>1, PostsKept, OpenKept DEF IInv
<1>12. CompleteInv'
  <2>1. \A m : Known(m) => Known(m)'
    BY <1>0, <1>4, Untouched DEF Known
  <2> QED BY <1>0, <1>2, <2>1, CompleteKept DEF IInv
<1> QED
  BY <1>7, <1>8, <1>9, <1>10, <1>11, <1>12 DEF IInv, OrderInv

(* A worker makes events of a batch, and reports that back. *)
LEMMA TakenStep ==
  ASSUME IInv, NEW w \in Workers, WorkerStep(w), TakenTask(w)
  PROVE  IInv'
<1> DEFINE h == Head(inbox[w])
           o == h.object
           b == h.messages
           t == [type |-> "completed"]
<1>0. /\ Stays /\ UNCHANGED <<delivered, posted, channel>>
      /\ inbox[w] # <<>> /\ inbox' = [inbox EXCEPT ![w] = Tail(@)] /\ h.type = "taken"
      /\ MessagesTaken(w, o, b) /\ mainQueue' = Append(mainQueue, t)
  BY DEF WorkerStep, TakenTask, portVars, boundVars, Stays
<1>1. /\ TypeInv /\ SortedInv /\ LineInv /\ PlaceInv /\ posted \in Nat
      /\ mainQueue \in Seq(Tasks) /\ inbox \in [Workers -> Seq(InboxTasks)]
      /\ events \in [Contexts -> Seq(EventTasks)] /\ w \in Contexts
      /\ BatchesPlaced /\ EventsPlaced /\ PostsSorted(mainQueue) /\ TakesPlaced
      /\ \A v \in Workers : BatchesSorted(inbox[v], Present)
      /\ \A d \in Contexts : EventsSorted(events[d], Present)
  BY DEF IInv, OrderInv, TypeInv, PlaceInv, SortedInv, Contexts
<1>b. UNCHANGED <<object, context>>
  BY <1>0 DEF Stays
<1>2. /\ Present' = Present /\ Home' = Home /\ (NeverLeft' <=> NeverLeft)
      /\ context'["port1"] = context["port1"]
  BY <1>0, StaysMeans
<1>3. /\ t \in Tasks /\ t.type = "completed" /\ \A q : t # Leave(q) /\ t # Shut(q)
  BY DEF Tasks, Leave, Shut
<1>4. /\ h \in InboxTasks /\ inbox' \in [Workers -> Seq(InboxTasks)] /\ BatchesPlaced'
      /\ \A p, m : Batched(p, m) <=> Batched(p, m)' \/ (IsBatch(h, p) /\ Has(b, m))
      /\ \A v \in Workers : BatchesSorted(inbox'[v], Present)
  BY <1>0, <1>1, <1>b, InboxShrinks
<1>5. IsBatch(h, Present) =>
        /\ Increasing(b)
        /\ \A m, n : Has(b, m) /\ HasBatch(inbox'[w], Present, n) => m < n
  BY <1>0, <1>1, InboxShrinks
<1>6. o \in Nat /\ b \in Seq(Nat) /\ \A p : IsBatch(h, p) <=> p = o
  BY <1>0, <1>4 DEF InboxTasks, IsBatch
<1>7. o <= Present /\ (IsPresent(o) => w = Home)
  <2>1. h = inbox[w][1] /\ 1 \in 1..Len(inbox[w])
    <3>1. inbox[w] \in Seq(InboxTasks)
      BY <1>1
    <3> QED BY <1>0, <3>1, TailIs
  <2> QED BY <1>0, <1>1, <2>1 DEF BatchesPlaced
<1> HIDE DEF t
<1>8. /\ mainQueue' \in Seq(Tasks) /\ PostsSorted(mainQueue)' /\ TakesPlaced'
      /\ \A m : Queued(m)' <=> Queued(m)
  BY <1>0, <1>1, <1>b, <1>3, QueueAppend
<1> HIDE DEF h, o, b
<1>9. /\ \A m : Pends(m)' <=> Pends(m)
      /\ \A m : Done(m)' <=> Done(m)
  BY <1>0, Untouched
<1>10. /\ events' \in [Contexts -> Seq(EventTasks)] /\ EventsPlaced'
       /\ ~IsPresent(o) => events' = events
       /\ IsPresent(o) => \A p, m : Event(p, m)' <=> Event(p, m) \/ (p = o /\ Has(b, m))
  BY <1>0, <1>1, <1>b, <1>6, <1>7, EventsGrow
<1>11. IsPresent(o) => o = Present /\ w = Home
  BY <1>7 DEF IsPresent, Present
<1>12. \A d \in Contexts : EventsSorted(events'[d], Present)
  <2>1. CASE IsPresent(o)
    <3>1. \A m, n : Event(o, m) /\ Has(b, n) => m < n
      BY <1>1, <1>4, <1>6, <1>11, <2>1 DEF LineInv
    <3> QED BY <1>0, <1>1, <1>5, <1>6, <1>11, <2>1, <3>1, EventsGrow
  <2>2. CASE ~IsPresent(o)
    BY <1>1, <1>10, <2>2
  <2> QED BY <2>1, <2>2
<1>13. TypeInv'
  BY <1>0, <1>1, <1>4, <1>8, <1>10 DEF TypeInv, Stays
<1>14. SortedInv'
  BY <1>0, <1>1, <1>2, <1>4, <1>8, <1>12 DEF SortedInv
<1>15. PlaceInv'
  BY <1>4, <1>8, <1>10 DEF PlaceInv
<1>16. LineInv'
  <2>0. \A m : (Queued(m)' => Queued(m)) /\ (Pends(m)' => Pends(m)) /\ (Done(m)' => Done(m))
    BY <1>8, <1>9
  <2>1. CASE IsPresent(o)
    <3> DEFINE S == {m \in Nat : Has(b, m)}
    <3>1. \A m : Has(b, m) => m \in Nat
      BY <1>6 DEF Has
    <3>2. \A m \in S : Batched(Present, m)
      BY <1>4, <1>6, <1>11, <2>1
    <3>3. ASSUME NEW m \in S, NEW n, Batched(Present, n)'
          PROVE  m < n
      <4>1. PICK v \in Workers : HasBatch(inbox'[v], Present, n)
        BY <1>2, <3>3 DEF Batched
      <4>2. v = Home
        <5>1. PICK i \in 1..Len(inbox'[v]) : inbox'[v][i].type = "taken" /\ inbox'[v][i].object = Present
          BY <4>1 DEF HasBatch, IsBatch
        <5> QED BY <1>4, <1>b, <1>2, <1>11, <2>1, <5>1 DEF BatchesPlaced, IsPresent
      <4> QED BY <1>5, <1>6, <1>11, <2>1, <4>1, <4>2
    <3>4. \A p, m : Event(p, m)' => Event(p, m) \/ m \in S
      BY <1>10, <2>1, <3>1
    <3> HIDE DEF S
    <3> QED BY <1>0, <1>1, <1>2, <1>4, <1>9, <2>0, <3>2, <3>3, <3>4, LineArrives
  <2>2. CASE ~IsPresent(o)
    <3>1. \A p, m : Event(p, m)' => Event(p, m)
      BY <1>10, <2>2, Untouched
    <3>2. posted' \in {posted, posted + 1}
      BY <1>0
    <3> QED BY <1>1, <1>2, <1>4, <2>0, <3>1, <3>2, LineLoses
  <2> QED BY <2>1, <2>2
<1>17. PostsInv'
  BY <1>0, <1>1, <1>2, <1>3, PostsKept DEF IInv
<1>18. OpenInv'
  <2>1. StaysOpen
    BY <1>0 DEF StaysOpen
  <2> QED BY <1>0, <1>1, <1>2, <1>3, <2>1, OpenKept DEF IInv
<1>19. CompleteInv'
  <2>1. NeverLeft' => o = 0 /\ IsPresent(o)
    BY <1>2, <1>6, <1>7 DEF NeverLeft, IsPresent, Present, Home
  <2>2. NeverLeft' => \A m : Known(m) => Known(m)'
    BY <1>4, <1>6, <1>8, <1>9, <1>10, <2>1 DEF Known
  <2> QED BY <1>0, <1>2, <2>2, CompleteKept DEF IInv
<1> QED
  BY <1>13, <1>14, <1>15, <1>16, <1>17, <1>18, <1>19 DEF IInv, OrderInv

(* dispatchMessagePortEvents() *)
LEMMA DispatchMessagePortEventsStep ==
  ASSUME IInv, NEW c \in Contexts, DispatchMessagePortEvents(c)
  PROVE  IInv'
<1> DEFINE o == Present
<1>0. Stays /\ UNCHANGED <<delivered, posted>>
  BY DEF DispatchMessagePortEvents, portVars, boundVars, Stays
<1>1. /\ TypeInv /\ SortedInv /\ LineInv /\ PlaceInv /\ posted \in Nat
      /\ mainQueue \in Seq(Tasks) /\ channel \in Channels /\ inbox \in [Workers -> Seq(InboxTasks)]
      /\ events \in [Contexts -> Seq(EventTasks)] /\ o \in Nat
      /\ BatchesPlaced /\ EventsPlaced /\ PostsSorted(mainQueue) /\ TakesPlaced
      /\ \A d \in Contexts : EventsSorted(events[d], Present)
      /\ context' \in [Ports -> Contexts \cup {None}] /\ object' \in [Ports -> Nat]
  BY <1>0 DEF IInv, OrderInv, TypeInv, PlaceInv, SortedInv, Present, Ports, Stays
<1>b. UNCHANGED <<object, context>>
  BY <1>0 DEF Stays
<1>2. /\ Present' = Present /\ Home' = Home /\ SamePort /\ (NeverLeft' <=> NeverLeft)
      /\ context'["port1"] = context["port1"]
  BY <1>0, StaysMeans
<1>3. CASE UNCHANGED <<channel, inbox, events, mainQueue>>
  BY <1>0, <1>3, Still DEF Stays
<1>4. CASE c = Main /\ Home = c /\ TakeAllMessages(c, o) /\ mainQueue' = mainQueue
  <2>1. /\ channel' \in Channels /\ StaysOpen
        /\ TakesNothing \/ TakesEvents(c, o)
    BY <1>1, <1>4, TakeTask, NamesAssumption
  <2>2. PostsInv' /\ OpenInv'
    BY <1>1, <1>2, <1>4, <2>1, PostsKept, OpenKept DEF IInv
  <2>3. CASE TakesNothing
    <3>1. OrderInv'
      BY <1>0, <1>1, <1>2, <1>4, <2>1, <2>3, QuietQueue, Silent DEF IInv, TakesNothing
    <3>2. \A m : Known(m) => Known(m)'
      BY <1>0, <1>4, <2>3, Untouched DEF Known, TakesNothing
    <3>3. CompleteInv'
      BY <1>0, <1>2, <3>2, CompleteKept DEF IInv
    <3> QED BY <2>2, <3>1, <3>3 DEF IInv
  <2>4. CASE TakesEvents(c, o)
    <3> DEFINE b == channel.pending
    <3>1. /\ channel'.pending = <<>> /\ inbox' = inbox /\ MessagesTaken(c, o, b)
          /\ b \in Seq(Nat) /\ Increasing(b) /\ \A m : Pends(m) <=> Has(b, m)
      BY <1>1, <2>4 DEF TakesEvents, Channels, Pends, SortedInv
    <3> HIDE DEF b
    <3>2. IsPresent(o)
      BY <1>4, NamesAssumption DEF IsPresent, Present, Home
    <3>3. \A m : ~Batched(Present, m)
      <4> SUFFICES ASSUME NEW w \in Workers, NEW i \in 1..Len(inbox[w]), IsBatch(inbox[w][i], Present)
                   PROVE  FALSE
        BY DEF Batched, HasBatch
      <4>1. w = Home
        BY <1>1, <3>2 DEF IsBatch, BatchesPlaced
      <4> QED BY <1>4, <4>1, NamesAssumption
    <3>4. /\ events' \in [Contexts -> Seq(EventTasks)] /\ EventsPlaced'
          /\ \A p, m : Event(p, m)' <=> Event(p, m) \/ (p = o /\ Has(b, m))
      BY <1>1, <1>b, <1>4, <3>1, <3>2, EventsGrow
    <3>5. \A m, n : Event(o, m) /\ Has(b, n) => m < n
      BY <1>1, <3>1 DEF LineInv, Taken
    <3>6. \A d \in Contexts : EventsSorted(events'[d], Present)
      BY <1>1, <3>1, <3>2, <3>5, EventsGrow
    <3>7. (\A m : ~Pends(m)') /\ Increasing(channel.pending)'
      BY <3>1, PendingEmpty
    <3>8. /\ \A m : (Queued(m)' <=> Queued(m)) /\ (Done(m)' <=> Done(m))
          /\ \A p, m : Batched(p, m)' <=> Batched(p, m)
      BY <1>0, <1>4, <3>1, Untouched
    <3>9. TypeInv'
      BY <1>0, <1>1, <1>4, <2>1, <3>1, <3>4 DEF TypeInv, Stays
    <3>10. SortedInv'
      BY <1>0, <1>1, <1>2, <1>4, <3>1, <3>6, <3>7 DEF SortedInv
    <3>11. PlaceInv'
      BY <1>1, <1>b, <1>4, <3>1, <3>4, Untouched DEF PlaceInv
    <3>12. LineInv'
      <4>1. /\ \A m : Queued(m)' => Queued(m)
            /\ \A m : Done(m)' <=> Done(m)
            /\ \A p, m : Event(p, m)' => Event(p, m) \/ Pends(m)
        BY <3>1, <3>4, <3>8
      <4> QED BY <1>0, <1>1, <1>2, <3>3, <3>7, <3>8, <4>1, LineTakesEvents
    <3>13. CompleteInv'
      <4>1. NeverLeft' => o = 0
        BY <1>2 DEF NeverLeft
      <4>2. NeverLeft' => \A m : Known(m) => Known(m)'
        BY <3>1, <3>4, <3>8, <4>1 DEF Known
      <4> QED BY <1>0, <1>2, <4>2, CompleteKept DEF IInv
    <3> QED BY <2>2, <3>9, <3>10, <3>11, <3>12, <3>13 DEF IInv, OrderInv
  <2> QED BY <2>1, <2>3, <2>4
<1>5. CASE /\ c # Main /\ Home = c
           /\ mainQueue' = Append(mainQueue, [type |-> "take", context |-> c, object |-> o])
           /\ UNCHANGED <<channel, inbox, events>>
  <2> DEFINE t == [type |-> "take", context |-> c, object |-> o]
  <2>1. /\ t \in Tasks /\ t.type = "take" /\ t.object = o /\ t.context = c
        /\ \A q : t # Leave(q) /\ t # Shut(q)
    BY <1>1, <1>5 DEF Tasks, Leave, Shut, Contexts
  <2>2. mainQueue' = Append(mainQueue, t) /\ StaysOpen
    BY <1>5 DEF StaysOpen
  <2> HIDE DEF t
  <2>3. /\ mainQueue' \in Seq(Tasks) /\ PostsSorted(mainQueue)' /\ TakesPlaced'
        /\ \A m : Queued(m)' <=> Queued(m)
    BY <1>1, <1>b, <1>5, <2>1, <2>2, QueueAppend
  <2>4. TypeInv'
    BY <1>0, <1>1, <1>5, <2>3 DEF TypeInv, Stays
  <2>5. SortedInv'
    BY <1>0, <1>1, <1>2, <1>5, <2>3 DEF SortedInv
  <2>6. PlaceInv'
    BY <1>1, <1>b, <1>5, <2>3, Untouched DEF PlaceInv
  <2>7. LineInv'
    <3>1. posted' \in {posted, posted + 1}
      BY <1>0
    <3>2. \A m : (Queued(m)' => Queued(m)) /\ (Pends(m)' => Pends(m)) /\ (Done(m)' => Done(m))
      BY <1>0, <1>5, <2>3, Untouched
    <3>3. \A p, m : (Batched(p, m)' => Batched(p, m)) /\ (Event(p, m)' => Event(p, m))
      BY <1>5, Untouched
    <3> QED BY <1>1, <1>2, <3>1, <3>2, <3>3, LineLoses
  <2>8. PostsInv' /\ OpenInv'
    BY <1>1, <1>2, <2>1, <2>2, PostsKept, OpenKept DEF IInv
  <2>9. CompleteInv'
    <3>1. \A m : Known(m) => Known(m)'
      BY <1>0, <1>5, <2>3, Untouched DEF Known
    <3> QED BY <1>0, <1>2, <3>1, CompleteKept DEF IInv
  <2> QED BY <2>4, <2>5, <2>6, <2>7, <2>8, <2>9 DEF IInv, OrderInv
<1> QED
  BY <1>3, <1>4, <1>5 DEF DispatchMessagePortEvents, Present, Home

(* The first event is dispatched: nothing is put anywhere else. *)
LEMMA EventGone ==
  ASSUME IInv, NEW c \in Contexts, DispatchEvent(c)
  PROVE  /\ Stays /\ UNCHANGED <<posted, channel, mainQueue, inbox>>
         /\ Present' = Present /\ Home' = Home /\ (NeverLeft' <=> NeverLeft)
         /\ Head(events[c]).object \in Nat /\ Head(events[c]).message \in Nat
         /\ Head(events[c]).object <= Present /\ (IsPresent(Head(events[c]).object) => c = Home)
         /\ events' \in [Contexts -> Seq(EventTasks)]
         /\ \A d \in Contexts : EventsSorted(events'[d], Present)
         /\ Head(events[c]).object = Present =>
              \A m : HasEvent(events'[c], Present, m) => Head(events[c]).message < m
         /\ \A p, m : Event(p, m) <=>
              Event(p, m)' \/ (Head(events[c]).object = p /\ Head(events[c]).message = m)
         /\ \A m : (Queued(m)' <=> Queued(m)) /\ (Pends(m)' <=> Pends(m))
         /\ \A p, m : Batched(p, m)' <=> Batched(p, m)
         /\ PlaceInv' /\ PostsInv' /\ OpenInv'
<1> DEFINE e == Head(events[c])
<1>0. /\ Stays /\ UNCHANGED <<posted, channel, mainQueue, inbox>>
      /\ events[c] # <<>> /\ events' = [events EXCEPT ![c] = Tail(@)]
  BY DEF DispatchEvent, portVars, boundVars, Stays
<1>1. /\ PlaceInv /\ mainQueue \in Seq(Tasks) /\ events \in [Contexts -> Seq(EventTasks)]
      /\ EventsPlaced /\ TakesPlaced /\ BatchesPlaced
      /\ \A d \in Contexts : EventsSorted(events[d], Present)
  BY DEF IInv, OrderInv, TypeInv, PlaceInv, SortedInv
<1>b. UNCHANGED <<object, context>>
  BY <1>0 DEF Stays
<1>2. /\ Present' = Present /\ Home' = Home /\ (NeverLeft' <=> NeverLeft)
      /\ context'["port1"] = context["port1"]
  BY <1>0, StaysMeans
<1>3. /\ events' \in [Contexts -> Seq(EventTasks)] /\ e \in EventTasks
      /\ \E i \in 1..Len(events[c]) : events[c][i] = e
      /\ \A p, m : Event(p, m) <=> Event(p, m)' \/ (e.object = p /\ e.message = m)
      /\ EventsPlaced'
  BY <1>0, <1>1, <1>b, EventsShrink
<1>4. /\ \A d \in Contexts : EventsSorted(events'[d], Present)
      /\ e.object = Present => \A m : HasEvent(events'[c], Present, m) => e.message < m
  BY <1>0, <1>1, EventsShrink
<1>5. e.object <= Present /\ (IsPresent(e.object) => c = Home)
  BY <1>1, <1>3 DEF EventsPlaced
<1>6. e.object \in Nat /\ e.message \in Nat
  BY <1>3 DEF EventTasks
<1>7. /\ \A m : (Queued(m)' <=> Queued(m)) /\ (Pends(m)' <=> Pends(m))
      /\ \A p, m : Batched(p, m)' <=> Batched(p, m)
      /\ TakesPlaced' /\ BatchesPlaced'
  BY <1>0, <1>1, <1>b, Untouched
<1>8. PostsInv' /\ OpenInv'
  <2>1. StaysOpen
    BY <1>0 DEF StaysOpen
  <2> QED BY <1>0, <1>1, <1>2, <2>1, PostsKept, OpenKept DEF IInv
<1> QED
  BY <1>0, <1>2, <1>3, <1>4, <1>5, <1>6, <1>7, <1>8 DEF PlaceInv

(* What port2's first object is to get next, if it has lost nothing. *)
LEMMA NextInLine ==
  ASSUME IInv, NeverLeft, NEW n \in Nat, Event(0, n), \A m : Event(0, m) => n <= m
  PROVE  n = Len(delivered) + 1
<1>1. /\ LineInv /\ delivered \in Seq(Nat) /\ posted \in Nat /\ Present = 0
      /\ \A i \in 1..Len(delivered) : delivered[i] = i
      /\ \A m \in 1..posted : Known(m)
  BY DEF IInv, OrderInv, TypeInv, CompleteInv, NeverLeft, Known
<1>2. Len(delivered) \in Nat
  BY <1>1
<1>3. Taken(n) /\ n \in 1..posted
  BY <1>1 DEF Taken, LineInv
<1>4. Len(delivered) < n
  <2>1. CASE Len(delivered) = 0
    BY <1>3, <2>1
  <2>2. CASE Len(delivered) # 0
    <3>1. Len(delivered) \in 1..Len(delivered)
      BY <1>2, <2>2
    <3>2. Done(Len(delivered))
      BY <1>1, <3>1 DEF Done, Has
    <3> QED BY <1>1, <3>2 DEF LineInv
  <2> QED BY <2>1, <2>2
<1>5. ASSUME NEW k, k = Len(delivered) + 1, k < n
      PROVE  FALSE
  <2>1. k \in 1..posted
    BY <1>1, <1>2, <1>3, <1>5
  <2>2. Known(k)
    BY <1>1, <2>1
  <2>3. ~(n < k) /\ ~(n <= k)
    BY <1>2, <1>5
  <2>4. ~Queued(k) /\ ~Pends(k)
    BY <1>1, <1>3, <2>3 DEF LineInv
  <2>5. ~Batched(0, k)
    BY <1>1, <2>3 DEF LineInv
  <2>6. ~Event(0, k)
    BY <2>3
  <2>7. ~Done(k)
    BY <1>1, <1>2, <1>5 DEF Done, Has
  <2> QED BY <2>2, <2>4, <2>5, <2>6, <2>7 DEF Known
<1> QED
  BY <1>2, <1>4, <1>5

(* dispatchEvent(): the event is delivered, dropped, or the program crashes. *)
LEMMA DispatchEventStep ==
  ASSUME IInv, NEW c \in Contexts, DispatchEvent(c)
  PROVE  IInv'
<1> DEFINE e == Head(events[c])
           n == e.message
<1>1. /\ LineInv /\ posted \in Nat /\ delivered \in Seq(Nat) /\ TypeInv /\ SortedInv
  BY DEF IInv, OrderInv, TypeInv
<1>2. /\ Stays /\ UNCHANGED <<posted, channel, mainQueue, inbox>>
      /\ Present' = Present /\ Home' = Home /\ (NeverLeft' <=> NeverLeft)
      /\ e.object \in Nat /\ n \in Nat
      /\ e.object <= Present /\ (IsPresent(e.object) => c = Home)
      /\ events' \in [Contexts -> Seq(EventTasks)]
      /\ \A d \in Contexts : EventsSorted(events'[d], Present)
      /\ e.object = Present => \A m : HasEvent(events'[c], Present, m) => n < m
      /\ \A p, m : Event(p, m) <=> Event(p, m)' \/ (e.object = p /\ n = m)
      /\ PlaceInv' /\ PostsInv' /\ OpenInv'
  BY EventGone
<1>3. /\ \A m : (Queued(m)' <=> Queued(m)) /\ (Pends(m)' <=> Pends(m))
      /\ \A p, m : Batched(p, m)' <=> Batched(p, m)
  BY EventGone
<1>4. posted' \in {posted, posted + 1}
  BY <1>2
<1>5. CASE \/ <<"port2", e.object>> \in detached /\ delivered' = delivered
           \/ ~IsPresent(e.object) /\ delivered' = delivered
  <2>1. \A m : Done(m)' <=> Done(m)
    BY <1>5, Untouched
  <2>2. TypeInv'
    BY <1>1, <1>2, <1>5 DEF TypeInv, Stays
  <2>3. SortedInv'
    BY <1>1, <1>2, <1>5 DEF SortedInv
  <2>4. LineInv'
    <3>1. /\ \A m : Queued(m)' => Queued(m)
          /\ \A m : Pends(m)' => Pends(m)
          /\ \A m : Done(m)' => Done(m)
          /\ \A p, m : Batched(p, m)' => Batched(p, m)
          /\ \A p, m : Event(p, m)' => Event(p, m)
      BY <1>2, <1>3, <2>1
    <3> QED BY <1>1, <1>2, <1>4, <3>1, LineLoses
  <2>5. ~NeverLeft'
    <3>1. NeverLeft => e.object = 0 /\ IsPresent(e.object)
      BY <1>2 DEF NeverLeft, IsPresent, Present, Home
    <3> QED BY <1>2, <1>5, <3>1 DEF NeverLeft
  <2>6. CompleteInv'
    BY <1>2, <1>5, <2>5, CompleteKept DEF IInv
  <2> QED BY <1>2, <2>2, <2>3, <2>4, <2>6 DEF IInv, OrderInv
<1>6. CASE /\ <<"port2", e.object>> \notin detached /\ IsPresent(e.object)
           /\ delivered' = Append(delivered, n)
  <2>1. e.object = Present /\ c = Home /\ Home # None
    BY <1>2, <1>6 DEF IsPresent, Present, Home
  <2>2. Event(Present, n)
    BY <1>2, <2>1
  <2>3. ASSUME NEW m, Event(Present, m)'
        PROVE  n < m
    <3>1. PICK d \in Contexts : HasEvent(events'[d], Present, m)
      BY <1>2, <2>3 DEF Event
    <3>2. PICK i \in 1..Len(events'[d]) : events'[d][i].object = Present
      BY <3>1 DEF HasEvent
    <3>3. d = Home
      BY <1>2, <2>1, <3>2 DEF PlaceInv, EventsPlaced, IsPresent, Present, Home
    <3> QED BY <1>2, <2>1, <3>1, <3>3
  <2>4. \A m : Done(m) => m < n
    BY <1>1, <2>2 DEF LineInv
  <2>5. /\ delivered' \in Seq(Nat) /\ Increasing(delivered)'
        /\ \A m : Done(m)' <=> Done(m) \/ m = n
    BY <1>1, <1>2, <1>6, <2>4, DeliveredGrows DEF SortedInv
  <2>6. TypeInv'
    BY <1>1, <1>2, <2>5 DEF TypeInv, Stays
  <2>7. SortedInv'
    BY <1>1, <1>2, <2>5 DEF SortedInv
  <2>8. LineInv'
    <3>1. /\ \A m : Queued(m)' => Queued(m)
          /\ \A m : Pends(m)' <=> Pends(m)
          /\ \A p, m : Batched(p, m)' => Batched(p, m)
          /\ \A p, m : Event(p, m)' => Event(p, m)
          /\ \A m : Event(Present, m)' => n < m
      BY <1>2, <1>3, <2>3
    <3> QED BY <1>1, <1>2, <2>2, <2>5, <3>1, LineDelivers
  <2>9. CompleteInv'
    <3>1. ASSUME Present = 0
          PROVE  NeverLeft /\ \A i \in 1..Len(delivered') : delivered'[i] = i
      <4>1. NeverLeft
        BY <1>6, <2>1, <3>1 DEF NeverLeft
      <4>2. ASSUME NEW m, Event(0, m)
            PROVE  n <= m
        <5>1. Event(0, m)' \/ n = m
          BY <1>2, <4>2
        <5>2. Event(Present, m)' \/ n = m
          BY <1>2, <3>1, <5>1
        <5>3. m \in Nat
          <6>1. Taken(m)
            BY <4>2 DEF Taken
          <6> QED BY <1>1, <6>1 DEF LineInv
        <5> QED BY <1>2, <2>3, <5>2, <5>3
      <4>3. n = Len(delivered) + 1
        BY <1>2, <2>2, <3>1, <4>1, <4>2, NextInLine
      <4>4. \A i \in 1..Len(delivered) : delivered[i] = i
        BY <3>1 DEF IInv, CompleteInv
      <4> QED BY <1>1, <1>6, <4>1, <4>3, <4>4
    <3>2. ASSUME NeverLeft, NEW m \in 1..posted
          PROVE  Known(m)'
      <4>1. Known(m)
        BY <3>2 DEF IInv, CompleteInv, Known
      <4> QED BY <1>2, <1>3, <2>5, <4>1 DEF Known
    <3> QED BY <1>2, <3>1, <3>2 DEF CompleteInv, Known
  <2> QED BY <1>2, <2>6, <2>7, <2>8, <2>9 DEF IInv, OrderInv
<1> QED
  BY <1>5, <1>6 DEF DispatchEvent

-----------------------------------------------------------------------------
(*                              The theorems                               *)

(* A channel that was just made has no message anywhere. *)
LEMMA InitStart ==
  ASSUME Init
  PROVE  IInv
<1>1. PICK c \in Contexts :
        /\ context = [p \in Ports |-> c] /\ object = [p \in Ports |-> 0] /\ detached = {}
        /\ channel = [open |-> c = Main, entangled |-> [p \in Ports |-> c = Main],
                      transferring |-> [p \in Ports |-> FALSE],
                      pending |-> <<>>, protected |-> FALSE, inFlight |-> 0]
        /\ mainQueue = (IF c = Main THEN <<>> ELSE <<[type |-> "create"]>>)
        /\ inbox = [w \in Workers |-> <<>>] /\ events = [d \in Contexts |-> <<>>]
        /\ posted = 0 /\ delivered = <<>>
  BY DEF Init
<1>2. /\ Present = 0 /\ Home = c /\ context["port1"] = c /\ c # None
  BY <1>1, NamesAssumption DEF Present, Home, Ports, Contexts
<1>3. channel \in Channels /\ channel.pending = <<>>
  <2>1. [p \in Ports |-> c = Main] \in [Ports -> BOOLEAN]
    OBVIOUS
  <2> QED BY <1>1, <2>1 DEF Channels
<1>4. /\ mainQueue \in Seq(Tasks)
      /\ c = Main => mainQueue = <<>>
      /\ c # Main => mainQueue # <<>> /\ Head(mainQueue).type = "create"
      /\ \A i \in 1..Len(mainQueue) : mainQueue[i].type = "create"
  <2>1. [type |-> "create"] \in Tasks
    BY DEF Tasks
  <2> QED BY <1>1, <2>1
<1>5. /\ \A w \in Workers : inbox[w] = <<>>
      /\ \A d \in Contexts : events[d] = <<>>
  BY <1>1
<1>6. TypeInv
  BY <1>1, <1>3, <1>4 DEF TypeInv
<1>7. SortedInv
  BY <1>1, <1>3, <1>4, <1>5
  DEF SortedInv, PostsSorted, Increasing, BatchesSorted, EventsSorted
<1>8. \A m : ~Queued(m) /\ ~Pends(m) /\ ~Done(m)
  BY <1>1, <1>3, <1>4 DEF Queued, HasPost, Pends, Done, Has
<1>9. \A o, m : ~Batched(o, m) /\ ~Event(o, m)
  BY <1>5 DEF Batched, HasBatch, Event, HasEvent
<1>10. LineInv
  BY <1>8, <1>9 DEF LineInv, Taken
<1>11. PlaceInv
  BY <1>4, <1>5 DEF PlaceInv, TakesPlaced, BatchesPlaced, EventsPlaced
<1>12. \A p : ~Has(mainQueue, Leave(p)) /\ ~Has(mainQueue, Shut(p))
  BY <1>4 DEF Has, Leave, Shut
<1>13. PostsInv
  BY <1>4, <1>12 DEF PostsInv
<1>14. CompleteInv
  BY <1>1 DEF CompleteInv
<1>15. OpenInv
  <2>1. c = Main => channel.open /\ channel.entangled["port2"]
    BY <1>1 DEF Ports
  <2> QED BY <1>2, <1>4, <1>12, <2>1 DEF OpenInv
<1> QED
  BY <1>6, <1>7, <1>10, <1>11, <1>13, <1>14, <1>15 DEF IInv, OrderInv

(* Every step keeps the invariant. *)
LEMMA NextStep ==
  ASSUME IInv, [Next]_vars
  PROVE  IInv'
<1>1. CASE UNCHANGED vars
  BY <1>1, Still DEF vars, portVars, threadVars, boundVars
<1>2. CASE MainThreadStep
  BY <1>2, MainThreadStepKeeps
<1>3. CASE PostMessage
  BY <1>3, PostMessageStep
<1>4. CASE Start
  BY <1>4, Still DEF Start, boundVars
<1>5. ASSUME NEW p \in Ports, Close(p) \/ Disentangle(p) \/ \E c \in Contexts : Entangle(p, c)
      PROVE  IInv'
  BY <1>5, CloseStep, DisentangleStep, EntangleStep
<1>6. ASSUME NEW o \in alive, Destroy(o)
      PROVE  IInv'
  BY <1>6, Still DEF Destroy, threadVars, boundVars
<1>7. ASSUME NEW w \in Workers, WorkerStep(w)
      PROVE  IInv'
  <2>1. NotifyTask(w) \/ TakenTask(w)
    BY <1>7 DEF WorkerStep
  <2> QED BY <1>7, <2>1, NotifyStep, TakenStep
<1>8. ASSUME NEW c \in Contexts, DispatchMessagePortEvents(c) \/ DispatchEvent(c)
      PROVE  IInv'
  BY <1>8, DispatchMessagePortEventsStep, DispatchEventStep
<1>9. CASE Suspend \/ Resume
  BY <1>9, Still DEF Suspend, Resume, portVars, threadVars
<1> QED
  BY <1>1, <1>2, <1>3, <1>4, <1>5, <1>6, <1>7, <1>8, <1>9 DEF Next

(* The invariant holds throughout, for any number of workers, messages and *)
(* transfers.                                                              *)
THEOREM Invariance ==
  Spec => []IInv
<1>1. Init => IInv
  BY InitStart
<1>2. IInv /\ [Next]_vars => IInv'
  BY NextStep
<1> QED
  BY <1>1, <1>2, PTL DEF Spec

(* dispatchEvent() hands a port its messages in the order in which they    *)
(* were posted and none twice, wherever the two ends are and however often *)
(* either of them is transferred; and a port that was never transferred    *)
(* has been handed the first, the second, the third..., with none skipped. *)
THEOREM MessagesInOrder ==
  Spec => []DeliveredInOrder
<1>1. ASSUME IInv
      PROVE  DeliveredInOrder
  <2>1. delivered \in Seq(Nat) /\ Increasing(delivered) /\ CompleteInv
    BY <1>1 DEF IInv, OrderInv, TypeInv, SortedInv
  <2>2. DOMAIN delivered = 1..Len(delivered)
    BY <2>1
  <2> QED BY <2>1, <2>2 DEF DeliveredInOrder, Increasing, CompleteInv, Present
<1> QED
  BY <1>1, Invariance, PTL
=============================================================================
