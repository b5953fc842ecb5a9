----------------------------- MODULE MessageChannel ----------------------------
(***************************************************************************)
(* MessageChannel: the bounded queue between a transport's reader threads  *)
(* (Send, TrySend) and the session's message loop (AsyncReceive), and the  *)
(* pipe of the in-memory transport.                                        *)
(*                                                                         *)
(* One mutex, two condition variables: cv_ for receivers, cv_send_ for     *)
(* senders.  The queue and closed_ change only under the mutex, so the     *)
(* test of a wait's predicate and the sleep that follows are one step.     *)
(* The notify comes after the unlock and is a step of its own; it wakes    *)
(* one sleeper or, when nobody sleeps, is lost.                            *)
(***************************************************************************)
EXTENDS Naturals, Sequences, FiniteSets

CONSTANTS
    Senders, Receivers, Closers,  \* the threads, by what they call
    MaxBuffer,                    \* max_buffer_
    MaxSends                      \* bound: sends tried by one sender

ASSUME ThreadsAssumption ==
    /\ IsFiniteSet(Senders) /\ IsFiniteSet(Receivers)
    /\ Senders \cap Receivers = {} /\ Senders \cap Closers = {} /\ Receivers \cap Closers = {}

\* The constructor asserts a capacity.
ASSUME BufferAssumption == MaxBuffer \in Nat \ {0} /\ MaxSends \in Nat

VARIABLES
    queue,      \* queue_
    closed,     \* closed_
    pc,         \* where each thread stands
    tried,      \* sender -> sends begun; its messages are <<sender, number>>
    accepted,   \* history: the messages pushed, in order
    taken       \* history: the messages popped, in order

channelVars == <<queue, closed, pc, tried, accepted, taken>>

Threads == Senders \cup Receivers \cup Closers

Messages == Senders \X Nat

\* "wait": in a call, at the predicate.  "asleep": in the condition variable.  "notify":
\* after the unlock.  A closer passes "wakeReceivers" and "wakeSenders".
Places == {"idle", "wait", "asleep", "notify", "wakeReceivers", "wakeSenders"}

(* Every variable keeps to the values its C++ counterpart can take, the queue to its   *)
(* capacity.                                                                           *)
ChannelTypeOK ==
    /\ queue \in Seq(Messages) /\ Len(queue) <= MaxBuffer
    /\ closed \in BOOLEAN
    /\ pc \in [Threads -> Places]
    /\ tried \in [Senders -> Nat]
    /\ accepted \in Seq(Messages)
    /\ taken \in Seq(Messages)

ChannelInit ==
    /\ queue = <<>> /\ closed = FALSE
    /\ pc = [t \in Threads |-> "idle"]
    /\ tried = [s \in Senders |-> 0]
    /\ accepted = <<>> /\ taken = <<>>

--------------------------------------------------------------------------------
(* Helpers *)

\* The test Send waits for and TrySend makes.
HasRoom == Len(queue) < MaxBuffer

\* queue_.push
Push(m) == queue' = Append(queue, m) /\ accepted' = Append(accepted, m)

At(S, place) == {t \in S : pc[t] = place}

\* notify_one by thread t to the threads S that sleep on one condition variable.
NotifyOne(t, S) ==
    IF At(S, "asleep") = {} THEN pc' = [pc EXCEPT ![t] = "idle"]
    ELSE \E u \in At(S, "asleep") : pc' = [pc EXCEPT ![t] = "idle", ![u] = "wait"]

\* notify_all by thread t, which goes on to place.
NotifyAllMutant(t, S, place) ==
    IF At(S, "asleep") = {} THEN pc' = [pc EXCEPT ![t] = place]
    ELSE \E u \in At(S, "asleep") : pc' = [pc EXCEPT ![t] = place, ![u] = "wait"]

NotifyAll(t, S, place) ==
    pc' = [u \in Threads |-> IF u = t THEN place
                             ELSE IF u \in At(S, "asleep") THEN "wait" ELSE pc[u]]

--------------------------------------------------------------------------------
(* Senders *)

CallSend(s) ==
    /\ pc[s] = "idle" /\ tried[s] < MaxSends
    /\ pc' = [pc EXCEPT ![s] = "wait"]
    /\ tried' = [tried EXCEPT ![s] = @ + 1]
    /\ UNCHANGED <<queue, closed, accepted, taken>>

\* Send under the lock: refuse, push or sleep.
Send(s) ==
    /\ pc[s] = "wait"
    /\ \/ /\ closed
          /\ pc' = [pc EXCEPT ![s] = "idle"]
          /\ UNCHANGED <<queue, accepted>>
       \/ /\ ~closed /\ HasRoom
          /\ Push(<<s, tried[s]>>)
          /\ pc' = [pc EXCEPT ![s] = "notify"]
       \/ /\ ~closed /\ ~HasRoom
          /\ pc' = [pc EXCEPT ![s] = "asleep"]
          /\ UNCHANGED <<queue, accepted>>
    /\ UNCHANGED <<closed, tried, taken>>

\* TrySend never sleeps.
TrySend(s) ==
    /\ pc[s] = "idle" /\ tried[s] < MaxSends
    /\ tried' = [tried EXCEPT ![s] = @ + 1]
    /\ \/ /\ closed \/ ~HasRoom
          /\ UNCHANGED <<queue, accepted, pc>>
       \/ /\ ~closed /\ HasRoom
          /\ Push(<<s, tried[s] + 1>>)
          /\ pc' = [pc EXCEPT ![s] = "notify"]
    /\ UNCHANGED <<closed, taken>>

\* cv_.notify_one after the unlock.
SenderNotifiesMutant(s) ==
    /\ pc[s] = "notify"
    /\ pc' = [pc EXCEPT ![s] = "idle"]
    /\ UNCHANGED <<queue, closed, tried, accepted, taken>>

SenderNotifies(s) ==
    /\ pc[s] = "notify"
    /\ NotifyOne(s, Receivers)
    /\ UNCHANGED <<queue, closed, tried, accepted, taken>>

--------------------------------------------------------------------------------
(* Receivers *)

CallReceive(r) ==
    /\ pc[r] = "idle"
    /\ pc' = [pc EXCEPT ![r] = "wait"]
    /\ UNCHANGED <<queue, closed, tried, accepted, taken>>

\* AsyncReceive under the lock.  closed_ is looked at first: what is still queued when
\* the channel closes is never handed out.
AsyncReceive(r) ==
    /\ pc[r] = "wait"
    /\ \/ /\ closed
          /\ pc' = [pc EXCEPT ![r] = "idle"]
          /\ UNCHANGED <<queue, taken>>
       \/ /\ ~closed /\ queue # <<>>
          /\ taken' = Append(taken, Head(queue)) /\ queue' = Tail(queue)
          /\ pc' = [pc EXCEPT ![r] = "notify"]
       \/ /\ ~closed /\ queue = <<>>
          /\ pc' = [pc EXCEPT ![r] = "asleep"]
          /\ UNCHANGED <<queue, taken>>
    /\ UNCHANGED <<closed, tried, accepted>>

\* cv_send_.notify_one after the unlock, then the callback.
ReceiverNotifies(r) ==
    /\ pc[r] = "notify"
    /\ NotifyOne(r, Senders)
    /\ UNCHANGED <<queue, closed, tried, accepted, taken>>

--------------------------------------------------------------------------------
(* Close, and the wakeups a condition variable makes of itself *)

Close(c) ==
    /\ pc[c] = "idle"
    /\ closed' = TRUE
    /\ pc' = [pc EXCEPT ![c] = "wakeReceivers"]
    /\ UNCHANGED <<queue, tried, accepted, taken>>

CloseWakesReceivers(c) ==
    /\ pc[c] = "wakeReceivers"
    /\ NotifyAll(c, Receivers, "wakeSenders")
    /\ UNCHANGED <<queue, closed, tried, accepted, taken>>

CloseWakesSenders(c) ==
    /\ pc[c] = "wakeSenders"
    /\ NotifyAll(c, Senders, "idle")
    /\ UNCHANGED <<queue, closed, tried, accepted, taken>>

SpuriousWakeup(t) ==
    /\ pc[t] = "asleep"
    /\ pc' = [pc EXCEPT ![t] = "wait"]
    /\ UNCHANGED <<queue, closed, tried, accepted, taken>>

--------------------------------------------------------------------------------
ChannelNext ==
    \/ \E s \in Senders : CallSend(s) \/ Send(s) \/ TrySend(s) \/ SenderNotifies(s)
    \/ \E r \in Receivers : CallReceive(r) \/ AsyncReceive(r) \/ ReceiverNotifies(r)
    \/ \E c \in Closers : Close(c) \/ CloseWakesReceivers(c) \/ CloseWakesSenders(c)
    \/ \E t \in Senders \cup Receivers : SpuriousWakeup(t)

ChannelSpec == ChannelInit /\ [][ChannelNext]_channelVars

\* A thread inside a call goes on, and the message loop calls AsyncReceive again as long
\* as its callback reports no error.  Nobody has to send or to close, and no spurious
\* wakeup has to come.
Fairness ==
    /\ \A s \in Senders : WF_channelVars(Send(s)) /\ WF_channelVars(SenderNotifies(s))
    /\ \A r \in Receivers :
           WF_channelVars(CallReceive(r) /\ ~closed) /\ WF_channelVars(AsyncReceive(r)) /\ WF_channelVars(ReceiverNotifies(r))
    /\ \A c \in Closers : WF_channelVars(CloseWakesReceivers(c)) /\ WF_channelVars(CloseWakesSenders(c))

FairChannelSpec == ChannelSpec /\ Fairness

--------------------------------------------------------------------------------
(* Safety *)

(* Messages come out in the order they went in: none is lost, duplicated or            *)
(* overtaken between Send and AsyncReceive, whichever threads call them.               *)
Fifo == accepted = taken \o queue

(* No wakeup is lost.  While a receiver sleeps on an open channel, every queued message *)
(* has a receiver already awake for it or a notify under way; while a sender sleeps,    *)
(* every free place has.                                                                *)
NoLostWakeup ==
    ~closed =>
        /\ At(Receivers, "asleep") # {} =>
               Len(queue) <= Cardinality(At(Senders, "notify") \cup At(Receivers, "wait"))
        /\ At(Senders, "asleep") # {} =>
               MaxBuffer - Len(queue) <= Cardinality(At(Receivers, "notify") \cup At(Senders, "wait"))

(* Nobody sleeps on a closed channel unless the thread that closed it has still to wake *)
(* them: no thread goes to sleep behind Close's notify_all.                             *)
ClosedWakesEveryone ==
    closed =>
        /\ At(Receivers, "asleep") # {} => At(Closers, "wakeReceivers") # {}
        /\ At(Senders, "asleep") # {} => At(Closers, "wakeReceivers") \cup At(Closers, "wakeSenders") # {}

(* No message overtakes another and no sleeper is forgotten, open or closed. *)
NobodyForgotten == ChannelTypeOK /\ Fifo /\ NoLostWakeup /\ ClosedWakesEveryone

--------------------------------------------------------------------------------
(* Liveness *)

(* A sender that has to wait for room gets its answer, and a receiver is never left      *)
(* asleep beside a queued message, although each notify wakes only one thread.           *)
BlockedThreadsProceed ==
    /\ \A s \in Senders : pc[s] = "asleep" ~> pc[s] = "idle"
    /\ \A r \in Receivers : (pc[r] = "asleep" /\ queue # <<>>) ~> pc[r] # "asleep" \/ queue = <<>>

(* Every call that was inside the channel when it closed returns. *)
CloseReleasesEveryone ==
    \A t \in Senders \cup Receivers : (closed /\ pc[t] # "idle") ~> pc[t] = "idle"

(* No thread stays in the channel for ever, open or closed, beside what it waits for. *)
NobodyStuck == BlockedThreadsProceed /\ CloseReleasesEveryone
================================================================================
