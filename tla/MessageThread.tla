--------------------------- MODULE MessageThread ---------------------------
(***************************************************************************)
(* tgvoip::MessageThread (libtgvoip/MessageThread.cpp), the timer thread   *)
(* of a VoIPController: a queue of functions ordered by delivery time, run *)
(* one batch at a time with queueMutex held, and posted or cancelled from  *)
(* any thread, the functions themselves included.                          *)
(*                                                                         *)
(* The mutex is free only while the thread waits, so Post and Cancel of    *)
(* another thread are single steps there.  Stop takes no lock.             *)
(*                                                                         *)
(* Times are relative to the present: Tick brings every one closer, and    *)
(* a message is late by at most MaxLate, after which it stays as late.     *)
(* deliverAt = 0.0, as soon as possible, sorts before every other time.    *)
(***************************************************************************)
EXTENDS Integers, Sequences

CONSTANTS
    MaxPosts,   \* bound: messages posted in one behaviour
    Delays,     \* delays of Post, without 0.0
    Intervals,  \* intervals of Post; 0 is a message delivered once
    MaxLate,    \* bound: how late a message is known to be
    Never       \* DBL_MAX, beyond every delay

ASSUME ThreadAssumption ==
    /\ MaxPosts \in Nat /\ MaxLate \in Nat
    /\ Delays \subseteq Nat \ {0} /\ Intervals \subseteq Nat
    /\ Never \in Nat /\ \A d \in Delays \cup Intervals : d < Never

VARIABLES
    queue,          \* MessageThread::queue
    batch,          \* Run: msgsToDeliverNow
    lastMessageID,  \* ids given out so far
    running,        \* MessageThread::running
    pc,             \* where Run is
    timer,          \* the timeout of its wait
    signalled,      \* cond was signalled while it waits
    stopper,        \* where a call of Stop is
    cancelled       \* history: messages another thread cancelled

vars == <<queue, batch, lastMessageID, running, pc, timer, signalled, stopper,
          cancelled>>

Immediately == -(MaxLate + 1)                       \* deliverAt = 0.0
Ids == 1 .. MaxPosts
Message == [id : Ids, deliverAt : Int, interval : Intervals]

IdsIn(q) == {q[n].id : n \in 1 .. Len(q)}

TypeOK ==
    /\ queue \in Seq(Message) /\ Len(queue) <= MaxPosts
    /\ batch \in Seq(Message)
    /\ lastMessageID \in 0 .. MaxPosts
    /\ running \in BOOLEAN /\ signalled \in BOOLEAN
    /\ pc \in {"test", "enter", "wait", "collect", "deliver", "ended"}
    /\ timer \in -(MaxLate + 1) .. Never
    /\ stopper \in {"none", "signal", "join", "returned"}
    /\ cancelled \subseteq Ids

Init ==
    /\ queue = << >>
    /\ batch = << >>
    /\ lastMessageID = 0
    /\ running = TRUE
    /\ pc = "test"
    /\ timer = Never
    /\ signalled = FALSE
    /\ stopper = "none"
    /\ cancelled = {}

-----------------------------------------------------------------------------
(* InsertMessageInternal: at the front, or after the first message that is *)
(* the last or not later and followed by a later one.                      *)
InsertMessageInternal(q, m) ==
    IF q = << >> \/ q[1].deliverAt > m.deliverAt THEN <<m>> \o q
    ELSE LET Fits(n) == \/ n = Len(q)
                        \/ /\ q[n + 1].deliverAt > m.deliverAt
                           /\ q[n].deliverAt <= m.deliverAt
             n == CHOOSE i \in 1 .. Len(q) :
                      Fits(i) /\ \A j \in 1 .. i - 1 : ~Fits(j)
         IN  SubSeq(q, 1, n) \o <<m>> \o SubSeq(q, n + 1, Len(q))

(* The loops that erase from the queue: of q only the members of S stay,   *)
(* in their order.                                                         *)
Keep(q, S) ==
    LET Kept[n \in 0 .. Len(q)] ==
            IF n = 0 THEN << >>
            ELSE IF q[n] \in S THEN Append(Kept[n - 1], q[n]) ELSE Kept[n - 1]
    IN  Kept[Len(q)]

Without(q, id) == Keep(q, {m \in Message : m.id # id})

NewMessage(d, i) ==
    [id |-> lastMessageID + 1, deliverAt |-> d, interval |-> i]

-----------------------------------------------------------------------------
(* Run. *)

(* mutant: the wait has no timeout *)
TimeoutNever == Never

Timeout == IF queue = << >> THEN Never ELSE queue[1].deliverAt

(* while(running): how long to wait, if at all. *)
Test ==
    /\ pc = "test"
    /\ IF ~running THEN pc' = "ended" /\ UNCHANGED timer
       ELSE IF queue = << >> \/ queue[1].deliverAt > 0
            THEN pc' = "enter" /\ timer' = Timeout
            ELSE pc' = "collect" /\ UNCHANGED timer
    /\ UNCHANGED <<queue, batch, lastMessageID, running, signalled, stopper,
                   cancelled>>

(* pthread_cond_timedwait, or pthread_cond_wait: the mutex is free. *)
EnterWait ==
    /\ pc = "enter"
    /\ pc' = "wait"
    /\ signalled' = FALSE
    /\ UNCHANGED <<queue, batch, lastMessageID, running, timer, stopper,
                   cancelled>>

Awake == pc' = IF running THEN "collect" ELSE "ended"

Wake ==
    /\ pc = "wait"
    /\ signalled \/ timer <= 0
    /\ Awake
    /\ UNCHANGED <<queue, batch, lastMessageID, running, timer, signalled,
                   stopper, cancelled>>

(* A condition variable may wake without cause. *)
SpuriousWake ==
    /\ pc = "wait"
    /\ Awake
    /\ UNCHANGED <<queue, batch, lastMessageID, running, timer, signalled,
                   stopper, cancelled>>

Due == {m \in Message : m.deliverAt <= 0}

Collect ==
    /\ pc = "collect"
    /\ batch' = Keep(queue, Due)
    /\ queue' = Keep(queue, Message \ Due)
    /\ pc' = "deliver"
    /\ UNCHANGED <<lastMessageID, running, timer, signalled, stopper,
                   cancelled>>

(* The function is run; it may post, cancel a message, or cancel itself;   *)
(* then a periodic message that was not cancelled is inserted again.  A    *)
(* message already in the batch is out of Cancel's reach.                  *)
Deliver ==
    /\ pc = "deliver"
    /\ batch # << >>
    /\ batch' = Tail(batch)
    /\ LET m == Head(batch)
           at == IF m.deliverAt = Immediately THEN 0 ELSE m.deliverAt
           Again(q, self) ==
               IF m.interval > 0 /\ ~self
               THEN InsertMessageInternal(q, [m EXCEPT !.deliverAt =
                                                 at + m.interval])
               ELSE q
       IN  \/ \E self \in BOOLEAN :
                queue' = Again(queue, self) /\ UNCHANGED lastMessageID
           \/ \E id \in Ids :
                queue' = Again(Without(queue, id), FALSE)
                /\ UNCHANGED lastMessageID
           \/ /\ lastMessageID < MaxPosts
              /\ lastMessageID' = lastMessageID + 1
              /\ \E d \in Delays \cup {Immediately}, i \in Intervals :
                    queue' = Again(InsertMessageInternal(queue,
                                                    NewMessage(d, i)), FALSE)
    /\ UNCHANGED <<running, pc, timer, signalled, stopper, cancelled>>

BatchDone ==
    /\ pc = "deliver"
    /\ batch = << >>
    /\ pc' = "test"
    /\ UNCHANGED <<queue, batch, lastMessageID, running, timer, signalled,
                   stopper, cancelled>>

-----------------------------------------------------------------------------
(* Other threads. *)

(* mutant: a message with a delay does not signal *)
PostQuietly(d, i) ==
    /\ pc = "wait"
    /\ lastMessageID < MaxPosts
    /\ queue' = InsertMessageInternal(queue, NewMessage(d, i))
    /\ lastMessageID' = lastMessageID + 1
    /\ signalled' = (signalled \/ d = Immediately)
    /\ UNCHANGED <<batch, running, pc, timer, stopper, cancelled>>

Post(d, i) ==
    /\ pc = "wait"
    /\ lastMessageID < MaxPosts
    /\ queue' = InsertMessageInternal(queue, NewMessage(d, i))
    /\ lastMessageID' = lastMessageID + 1
    /\ signalled' = TRUE
    /\ UNCHANGED <<batch, running, pc, timer, stopper, cancelled>>

(* mutant: Cancel does not lock queueMutex *)
CancelUnlocked(id) ==
    /\ pc # "ended" /\ id <= lastMessageID
    /\ queue' = Without(queue, id)
    /\ cancelled' = cancelled \cup {id}
    /\ UNCHANGED <<batch, lastMessageID, running, pc, timer, signalled,
                   stopper>>

Cancel(id) ==
    /\ pc = "wait" /\ id <= lastMessageID
    /\ queue' = Without(queue, id)
    /\ cancelled' = cancelled \cup {id}
    /\ UNCHANGED <<batch, lastMessageID, running, pc, timer, signalled,
                   stopper>>

(* Stop: running is cleared, then cond signalled, without the mutex. *)
Stop ==
    /\ stopper = "none"
    /\ stopper' = "signal"
    /\ running' = FALSE
    /\ UNCHANGED <<queue, batch, lastMessageID, pc, timer, signalled,
                   cancelled>>

StopSignal ==
    /\ stopper = "signal"
    /\ stopper' = "join"
    /\ signalled' = (signalled \/ pc = "wait")
    /\ UNCHANGED <<queue, batch, lastMessageID, running, pc, timer, cancelled>>

Join ==
    /\ stopper = "join"
    /\ pc = "ended"
    /\ stopper' = "returned"
    /\ UNCHANGED <<queue, batch, lastMessageID, running, pc, timer, signalled,
                   cancelled>>

(* Time passes, but not noticeably between the reading of the clock and    *)
(* the wait that is set from it.                                           *)
Closer(t) == IF t \in {Immediately, -MaxLate} THEN t ELSE t - 1
Aged(q) == [n \in 1 .. Len(q) |->
              [q[n] EXCEPT !.deliverAt = Closer(q[n].deliverAt)]]

Tick ==
    /\ pc \notin {"enter", "ended"}
    /\ queue' = Aged(queue)
    /\ batch' = Aged(batch)
    /\ timer' = IF timer = Never THEN Never ELSE Closer(timer)
    /\ UNCHANGED <<lastMessageID, running, pc, signalled, stopper, cancelled>>

Run == Test \/ EnterWait \/ Wake \/ Collect \/ Deliver \/ BatchDone

Others ==
    \/ SpuriousWake \/ Stop
    \/ \E d \in Delays \cup {Immediately}, i \in Intervals : Post(d, i)
    \/ \E id \in Ids : Cancel(id)

Next == Run \/ Others \/ StopSignal \/ Join \/ Tick

Spec == Init /\ [][Next]_vars

(* The thread and a caller of Stop are scheduled, and time passes. *)
FairSpec == Spec /\ WF_vars(Run) /\ WF_vars(StopSignal) /\ WF_vars(Join)
                 /\ WF_vars(Tick)
-----------------------------------------------------------------------------
(* Correctness. *)

(* The thread never sleeps past a message: unless it has been signalled,   *)
(* its timeout, computed from the first message only, is no later than any *)
(* in the queue, whatever posts, cancels and re-insertions made the queue  *)
(* (MessageThread.cpp:60, 140-158).                                        *)
NeverOversleeps ==
    pc = "wait" =>
        signalled \/ \A n \in 1 .. Len(queue) : timer <= queue[n].deliverAt

(* A message is in the queue or in the batch, not in both, and one another *)
(* thread has cancelled is never delivered again: Cancel cannot fall       *)
(* between a batch's collection and its delivery, although a function's    *)
(* own Cancel can (MessageThread.cpp:160-176).                             *)
CancelIsFinal ==
    /\ TypeOK
    /\ IdsIn(queue) \cap IdsIn(batch) = {}
    /\ cancelled \cap (IdsIn(queue) \cup IdsIn(batch)) = {}

(* A message that is due is taken for delivery, or cancelled, or the       *)
(* thread is being stopped.                                                *)
DueIsTaken ==
    \A id \in Ids :
        (\E n \in 1 .. Len(queue) : queue[n].id = id /\ queue[n] \in Due)
            ~> id \notin IdsIn(queue) \/ ~running

(* Stop returns, although it signals without the mutex and the signal may  *)
(* come before the wait: any message left in the queue ends that wait.     *)
StopReturns == stopper = "join" /\ queue # << >> ~> stopper = "returned"
=============================================================================
