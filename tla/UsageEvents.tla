----------------------------- MODULE UsageEvents -----------------------------
(***************************************************************************)
(* The usage event emitter (app/gateway/usage_events.py) of one gateway: a *)
(* bounded queue, one worker that posts to a webhook and retries with a    *)
(* backoff, and the drain when the gateway shuts down (main.py).           *)
(*                                                                         *)
(* The event loop switches tasks only at an await that has to wait.  No    *)
(* section under `_lock` awaits anything, so the lock is always free and   *)
(* each section, with the synchronous code around it, is one action.  What *)
(* does wait, and is a point where others run, is the post, the worker's   *)
(* sleep, and the poll of the drain.                                       *)
(***************************************************************************)
EXTENDS Integers, FiniteSets, SequencesExt

CONSTANTS
    Event,        \* the events of a run; each is emitted at most once
    BufferMax,    \* USAGE_EVENTS_BUFFER_MAX
    MaxAttempts,  \* USAGE_EVENTS_MAX_ATTEMPTS
    NoEvent       \* the worker has no event in its hands

ASSUME UsageAssumption ==
    /\ IsFiniteSet(Event)
    /\ BufferMax \in Nat \ {0}
    /\ MaxAttempts \in Nat \ {0}
    /\ NoEvent \notin Event

Reasons == {"not_accepting", "buffer_overflow", "max_attempts", "shutdown_timeout"}
WorkerStates == {"scanning", "asleep", "posting", "cancelled"}

VARIABLES
    pending,   \* the deque, oldest first
    backoff,   \* the events whose next_attempt_at has not come
    attempts,  \* failed posts of each event
    item,      \* what the worker took off the deque and is posting
    worker,    \* where the worker task is
    wake,      \* the asyncio.Event
    closing,   \* "no", "draining" (accepting is off), "closed"
    dropped    \* the counter USAGE_EVENTS_DROPPED, by reason

\* History, kept for the properties only; no guard but Emit's reads it.
VARIABLES
    emitted,   \* the events handed to emit()
    posts,     \* how often each event was posted
    acked,     \* the events the webhook confirmed
    lost       \* the events that were in the worker's hands when it was cancelled

queue == <<pending, backoff, attempts>>
history == <<emitted, posts, acked, lost>>
emitterVars == <<queue, item, worker, wake, closing, dropped, history>>

-----------------------------------------------------------------------------
(* The queue                                                               *)

Dropped(reason, n) == dropped' = [dropped EXCEPT ![reason] = @ + n]

Full == Len(pending) >= BufferMax

\* What emit() and a failed delivery do: a full deque drops its oldest entry,
\* whether or not that one is being retried, and counts it.
Enqueue(e) ==
    IF Full
    THEN pending' = Append(Tail(pending), e) /\ Dropped("buffer_overflow", 1)
    ELSE pending' = Append(pending, e) /\ UNCHANGED dropped

\* emit().  The webhook is configured.
Emit(e) ==
    /\ e \notin emitted
    /\ emitted' = emitted \cup {e}
    /\ IF closing = "no"
       THEN Enqueue(e) /\ wake' = TRUE
       ELSE Dropped("not_accepting", 1) /\ UNCHANGED <<pending, wake>>
    /\ UNCHANGED <<backoff, attempts, item, worker, closing, posts, acked, lost>>

-----------------------------------------------------------------------------
(* The worker                                                              *)

Due == {i \in DOMAIN pending : pending[i] \notin backoff}
FirstDue == CHOOSE i \in Due : \A j \in Due : i <= j

\* _next_ready() finds an entry and _deliver() sends it.
Take ==
    /\ worker = "scanning"
    /\ Due # {}
    /\ item' = pending[FirstDue]
    /\ pending' = RemoveAt(pending, FirstDue)
    /\ posts' = [posts EXCEPT ![item'] = @ + 1]
    /\ worker' = "posting"
    /\ UNCHANGED <<backoff, attempts, wake, closing, dropped, emitted, acked, lost>>

\* It finds none, clears the event and waits for it.
FallAsleep ==
    /\ worker = "scanning"
    /\ Due = {}
    /\ worker' = "asleep"
    /\ wake' = FALSE
    /\ UNCHANGED <<queue, item, closing, dropped, history>>

BugWakeUp ==
    /\ worker = "asleep" /\ wake
    /\ worker' = "scanning"
    /\ UNCHANGED <<queue, item, wake, closing, dropped, history>>

\* The event is set, or the second of the wait is over: nothing sets the event
\* when a backoff ends, so the retries depend on that second.
WakeUp ==
    /\ worker = "asleep"
    /\ worker' = "scanning"
    /\ UNCHANGED <<queue, item, wake, closing, dropped, history>>

PostSucceeds ==
    /\ worker = "posting"
    /\ acked' = acked \cup {item}
    /\ item' = NoEvent
    /\ worker' = "scanning"
    /\ UNCHANGED <<queue, wake, closing, dropped, emitted, posts, lost>>

BugGivesUp(e) == attempts[e] >= MaxAttempts

GivesUp(e) == attempts[e] + 1 >= MaxAttempts

\* A timeout, a refused connection or an error status; the webhook may have
\* taken the event all the same.  A retry joins the queue like a new event,
\* also while the gateway drains.
PostFails ==
    /\ worker = "posting"
    /\ attempts' = [attempts EXCEPT ![item] = @ + 1]
    /\ IF GivesUp(item)
       THEN Dropped("max_attempts", 1) /\ UNCHANGED <<pending, backoff>>
       ELSE Enqueue(item) /\ backoff' = backoff \cup {item}
    /\ item' = NoEvent
    /\ worker' = "scanning"
    /\ UNCHANGED <<wake, closing, history>>

BackoffEnds(e) ==
    /\ e \in backoff
    /\ backoff' = backoff \ {e}
    /\ UNCHANGED <<pending, attempts, item, worker, wake, closing, dropped, history>>

-----------------------------------------------------------------------------
(* aclose(): the end of the lifespan                                       *)

StartClose ==
    /\ closing = "no"
    /\ closing' = "draining"
    /\ wake' = TRUE
    /\ UNCHANGED <<queue, item, worker, dropped, history>>

\* _drain_until_empty() looks every 50 ms and wakes the worker.
DrainPoll ==
    /\ closing = "draining"
    /\ pending # <<>>
    /\ wake' = TRUE
    /\ UNCHANGED <<queue, item, worker, closing, dropped, history>>

\* The worker is cancelled wherever it is.  _deliver() catches Exception, which
\* a cancellation is not: the event in its hands is neither put back nor counted.
CancelWorker ==
    /\ worker' = "cancelled"
    /\ closing' = "closed"
    /\ lost' = IF item = NoEvent THEN lost ELSE lost \cup {item}
    /\ item' = NoEvent

\* The deque is empty; an event that is being posted is not in it.
DrainDone ==
    /\ closing = "draining"
    /\ pending = <<>>
    /\ CancelWorker
    /\ UNCHANGED <<queue, wake, dropped, emitted, posts, acked>>

BugClear == pending' = <<>> /\ UNCHANGED dropped

Clear == pending' = <<>> /\ Dropped("shutdown_timeout", Len(pending))

\* drain_timeout_seconds are over.
DrainTimeout ==
    /\ closing = "draining"
    /\ pending # <<>>
    /\ Clear
    /\ CancelWorker
    /\ UNCHANGED <<backoff, attempts, wake, emitted, posts, acked>>

-----------------------------------------------------------------------------
EmitterInit ==
    /\ pending = <<>> /\ backoff = {} /\ attempts = [e \in Event |-> 0]
    /\ item = NoEvent /\ worker = "scanning" /\ wake = FALSE
    /\ closing = "no"
    /\ dropped = [r \in Reasons |-> 0]
    /\ emitted = {} /\ acked = {} /\ lost = {}
    /\ posts = [e \in Event |-> 0]

Worker == Take \/ FallAsleep \/ WakeUp \/ PostSucceeds \/ PostFails

EmitterNext ==
    \/ \E e \in Event : Emit(e) \/ BackoffEnds(e)
    \/ Worker
    \/ StartClose \/ DrainPoll \/ DrainDone \/ DrainTimeout

\* The worker's task runs and its posts end (they have a timeout of 2 s), a
\* backoff ends.  Nothing obliges anybody to emit or the gateway to stop; what
\* a drain does not finish is ended by its timeout.
EmitterSpec ==
    /\ EmitterInit /\ [][EmitterNext]_emitterVars
    /\ WF_emitterVars(Worker)
    /\ \A e \in Event : WF_emitterVars(BackoffEnds(e))
    /\ WF_emitterVars(DrainDone \/ DrainTimeout)

-----------------------------------------------------------------------------
(* Properties                                                              *)

InFlight == IF item = NoEvent THEN {} ELSE {item}

\* Every variable has its type, the deque never passes its limit, and the
\* worker holds an event exactly while it posts.
EmitterTypeOK ==
    /\ pending \in Seq(Event) /\ Len(pending) <= BufferMax
    /\ backoff \subseteq Event
    /\ attempts \in [Event -> Nat]
    /\ item \in Event \cup {NoEvent}
    /\ worker \in WorkerStates
    /\ (worker = "posting") <=> (item # NoEvent)
    /\ wake \in BOOLEAN
    /\ closing \in {"no", "draining", "closed"}
    /\ dropped \in [Reasons -> Nat]
    /\ emitted \subseteq Event /\ acked \subseteq Event /\ lost \subseteq Event
    /\ posts \in [Event -> Nat]

Drops == dropped["not_accepting"] + dropped["buffer_overflow"]
         + dropped["max_attempts"] + dropped["shutdown_timeout"]

\* No event disappears unseen: whatever the overflows, retries and the drain
\* do, the events handed to emit() are the confirmed ones, the queued ones, the
\* one being posted and the ones the drop counter reports -- except one event
\* that the shutdown takes out of the worker's hands, and that is the only one.
Accounted ==
    /\ Cardinality(emitted) = Cardinality(acked) + Drops + Len(pending)
                              + Cardinality(InFlight) + Cardinality(lost)
    /\ Cardinality(lost) <= 1
    /\ lost # {} => closing = "closed"

\* The webhook never sees an event more often than the configured attempts, and
\* never again after it was confirmed or after the gateway closed, although a
\* failed event goes back through the same queue.
PostedWithinAttempts ==
    [][\A e \in Event : posts'[e] # posts[e] =>
          /\ posts'[e] <= MaxAttempts
          /\ e \notin acked
          /\ closing # "closed"]_emitterVars

\* An event that left the emitter never comes back: neither a retry nor an
\* overflow nor the drain brings up again what was confirmed, dropped or lost.
NeverReturns ==
    [][\A e \in emitted :
          e \notin ToSet(pending) \cup InFlight => e \notin (ToSet(pending) \cup InFlight)']_emitterVars

\* No event starves: one that is queued leaves the queue for good, delivered,
\* dropped or lost at shutdown, whatever new events and retries come around it.
EventSettles ==
    \A e \in Event :
        (e \in ToSet(pending) \cup InFlight) ~>
            [](e \notin ToSet(pending) \cup InFlight)
=============================================================================
