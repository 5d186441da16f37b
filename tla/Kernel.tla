------------------------------- MODULE Kernel -------------------------------
(***************************************************************************)
(* Threads and message queues of libultra (src/libultra/src/os): creating, *)
(* starting, stopping and destroying threads, priorities, yielding,        *)
(* blocking send, jam and receive, and what an exception does to them      *)
(* (exceptasm.s).                                                          *)
(*                                                                         *)
(* One CPU.  The thread calls run with interrupts masked, so that each is  *)
(* one step up to the point where it dispatches another thread.  A thread  *)
(* that had to wait goes on in its loop when it is dispatched, interrupts  *)
(* still masked.  An exception runs in steps of its own: it begins, posts  *)
(* messages, and dispatches a thread.                                      *)
(*                                                                         *)
(* The linked thread queues are sequences; the run queue is one of them.   *)
(* The list of active threads, which only debuggers walk, and the saved    *)
(* registers are left out.  OS_MESG_NOBLOCK is a call that does not have   *)
(* to wait; when it would have to, it does nothing.  All queues have the   *)
(* same length.  Callers start only threads that are stopped.              *)
(***************************************************************************)
EXTENDS Integers, Sequences, FiniteSets, SequencesExt

CONSTANTS Threads,
          Idle,       \* the thread of boot.c that spins for ever
          Priorities, \* priorities of the other threads
          Queues, Msgs,
          MsgCount,   \* length of a message queue
          NoMsg, NoCall, NoQueue \* no message; no call; NULL

Workers == Threads \ {Idle}

(* The thread queues: the run queue, and two for each message queue. *)
RunQueue == [of |-> NoQueue, kind |-> "run"]
MtQueue(q) == [of |-> q, kind |-> "mt"]
FullQueue(q) == [of |-> q, kind |-> "full"]
ThreadQueues ==
  {RunQueue} \union {MtQueue(q) : q \in Queues} \union {FullQueue(q) : q \in Queues}

MailCalls == [op : {"send", "jam", "recv"}, q : Queues, m : Msgs \union {NoMsg}]
Calls ==
  [op : {"send", "jam"}, q : Queues, m : Msgs]
    \union [op : {"recv"}, q : Queues, m : {NoMsg}]

ASSUME KernelAssumption ==
  /\ Idle \in Threads /\ IsFiniteSet(Threads)
  /\ Priorities \subseteq Nat \ {0}
  /\ MsgCount \in Nat \ {0}
  /\ NoMsg \notin Msgs
  /\ NoCall \notin MailCalls
  /\ NoQueue \notin ThreadQueues

VARIABLES
  k,       \* the threads, the thread queues and __osRunningThread
  mq,      \* the message queues
  call,    \* the call in which a thread waits
  received,\* the message received last
  mode     \* "thread", or "exception" while the handler runs

vars == <<k, mq, call, received, mode>>

-----------------------------------------------------------------------------
(* Thread queues.  An empty queue ends in a dummy of priority -1. *)

HeadPri(s) == IF s.tq[RunQueue] = <<>> THEN -1 ELSE s.pri[Head(s.tq[RunQueue])]

(* Mutant: in front of threads of the same priority. *)
InsertedInFront(s, queue, t) ==
  LET first == SelectInSeq(queue, LAMBDA u : s.pri[u] <= s.pri[t])
  IN  InsertAt(queue, IF first = 0 THEN Len(queue) + 1 ELSE first, t)

(* Before the first thread of lower priority. *)
Inserted(s, queue, t) ==
  LET first == SelectInSeq(queue, LAMBDA u : s.pri[u] < s.pri[t])
  IN  InsertAt(queue, IF first = 0 THEN Len(queue) + 1 ELSE first, t)

__osEnqueueThread(s, tq, t) ==
  [s EXCEPT !.tq[tq] = Inserted(s, @, t), !.at[t] = tq]

__osPopThread(s, tq) == [s EXCEPT !.tq[tq] = Tail(@)]

__osDequeueThread(s, t) == [s EXCEPT !.tq[s.at[t]] = RemoveFirst(@, t)]

__osDispatchThread(s) ==
  LET t == Head(s.tq[RunQueue])
  IN  [__osPopThread(s, RunQueue) EXCEPT !.running = t, !.state[t] = "running"]

__osEnqueueAndYield(s, tq) ==
  __osDispatchThread(__osEnqueueThread(s, tq, s.running))

(* The end of osStartThread and osSetThreadPri. *)
Preempted(s) ==
  IF s.pri[s.running] < HeadPri(s)
  THEN __osEnqueueAndYield([s EXCEPT !.state[s.running] = "runnable"], RunQueue)
  ELSE s

(* A stopped thread that was waiting takes its place again, and the first  *)
(* of its queue looks at the message queue in case something has come.     *)
Started(s, t) ==
  IF s.state[t] = "stopped" /\ s.at[t] \notin {NoQueue, RunQueue}
  THEN LET waiting == __osEnqueueThread([s EXCEPT !.state[t] = "waiting"], s.at[t], t)
       IN  __osEnqueueThread(__osPopThread(waiting, s.at[t]), RunQueue,
                             Head(waiting.tq[s.at[t]]))
  ELSE __osEnqueueThread([s EXCEPT !.state[t] = "runnable"], RunQueue, t)

(* Mutant: the thread started waits for its turn. *)
StartOnly(s, t) == Started(s, t)

StartThread(s, t) == Preempted(Started(s, t))

(* One of those who wait on tq is started. *)
Wake(s, tq) ==
  IF s.tq[tq] = <<>> THEN s ELSE StartThread(__osPopThread(s, tq), Head(s.tq[tq]))

-----------------------------------------------------------------------------
(* The ring of messages. *)

EndOf(r) == (r.first + r.validCount) % MsgCount

Sent(r, m) == [r EXCEPT !.msg[EndOf(r)] = m, !.validCount = @ + 1]

(* Mutant: no wrap around. *)
JammedNoWrap(r, m) ==
  [r EXCEPT !.first = @ - 1, !.msg[r.first - 1] = m, !.validCount = @ + 1]

Jammed(r, m) ==
  LET first == (r.first + MsgCount - 1) % MsgCount
  IN  [r EXCEPT !.first = first, !.msg[first] = m, !.validCount = @ + 1]

Taken(r) == [r EXCEPT !.first = (@ + 1) % MsgCount, !.validCount = @ - 1]

MQ_IS_EMPTY(q) == mq[q].validCount = 0
MQ_IS_FULL(q) == mq[q].validCount >= MsgCount

MustWait(c) == IF c.op = "recv" THEN MQ_IS_EMPTY(c.q) ELSE MQ_IS_FULL(c.q)

SleepsOn(c) == IF c.op = "recv" THEN MtQueue(c.q) ELSE FullQueue(c.q)
Wakes(c) == IF c.op = "recv" THEN FullQueue(c.q) ELSE MtQueue(c.q)

-----------------------------------------------------------------------------
Init ==
  /\ k = [pri |-> [t \in Threads |-> 0],
          state |-> [t \in Threads |-> IF t = Idle THEN "running" ELSE "none"],
          at |-> [t \in Threads |-> IF t = Idle THEN RunQueue ELSE NoQueue],
          tq |-> [tq \in ThreadQueues |-> <<>>],
          running |-> Idle]
  /\ mq = [q \in Queues |->
            [msg |-> [i \in 0..MsgCount - 1 |-> NoMsg], first |-> 0, validCount |-> 0]]
  /\ call = [t \in Threads |-> NoCall]
  /\ received = NoMsg
  /\ mode = "thread"

(* The running thread is in code of its own, interrupts enabled. *)
Free == mode = "thread" /\ call[k.running] = NoCall

osCreateThread(t, p) ==
  /\ Free
  /\ k.state[t] = "none"
  /\ k' = [k EXCEPT !.pri[t] = p, !.state[t] = "stopped", !.at[t] = NoQueue]
  /\ UNCHANGED <<mq, call, received, mode>>

osStartThread(t) ==
  /\ Free
  /\ k.state[t] = "stopped"
  /\ k' = StartThread(k, t)
  /\ UNCHANGED <<mq, call, received, mode>>

(* Mutant: a stopped thread stays in its queue. *)
StoppedInPlace(s, t) ==
  LET stopped == [s EXCEPT !.state[t] = "stopped"]
  IN  IF t = s.running THEN __osDispatchThread(stopped) ELSE stopped

Stopped(s, t) ==
  LET stopped == [s EXCEPT !.state[t] = "stopped"]
  IN  IF t = s.running THEN __osDispatchThread(stopped) ELSE __osDequeueThread(stopped, t)

osStopThread(t) ==
  /\ Free
  /\ k.state[t] \in {"running", "runnable", "waiting"}
  /\ k' = Stopped(k, t)
  /\ UNCHANGED <<mq, call, received, mode>>

(* A destroyed thread is never used again; its call is kept to remember    *)
(* what it waited for.                                                     *)
osDestroyThread(t) ==
  /\ Free
  /\ k.state[t] \in {"running", "runnable", "waiting", "stopped"}
  /\ LET gone == [k EXCEPT !.state[t] = "destroyed"]
     IN  k' = IF t = k.running THEN __osDispatchThread(gone)
              ELSE IF k.state[t] = "stopped" THEN gone
              ELSE __osDequeueThread(gone, t)
  /\ UNCHANGED <<mq, call, received, mode>>

(* Mutant: a thread that waits for a message keeps its place. *)
RequeuedIfRunnable(s, t) ==
  IF t # s.running /\ s.state[t] = "runnable"
  THEN __osEnqueueThread(__osDequeueThread(s, t), s.at[t], t)
  ELSE s

(* A waiting thread moves to its place in the queue it is in. *)
Requeued(s, t) ==
  IF t # s.running /\ s.state[t] # "stopped"
  THEN __osEnqueueThread(__osDequeueThread(s, t), s.at[t], t)
  ELSE s

osSetThreadPri(t, p) ==
  /\ Free
  /\ k.state[t] \notin {"none", "destroyed"}
  /\ k.pri[t] # p
  /\ k' = Preempted(Requeued([k EXCEPT !.pri[t] = p], t))
  /\ UNCHANGED <<mq, call, received, mode>>

osYieldThread ==
  /\ Free
  /\ k' = __osEnqueueAndYield([k EXCEPT !.state[k.running] = "runnable"], RunQueue)
  /\ UNCHANGED <<mq, call, received, mode>>

(* A turn of the while loop of osSendMesg, osJamMesg or osRecvMesg. *)
Sleep(c) ==
  /\ MustWait(c)
  /\ k' = __osEnqueueAndYield([k EXCEPT !.state[k.running] = "waiting"], SleepsOn(c))
  /\ call' = [call EXCEPT ![k.running] = c]
  /\ UNCHANGED <<mq, received, mode>>

Transferred(r, c) ==
  CASE c.op = "send" -> Sent(r, c.m)
    [] c.op = "jam" -> Jammed(r, c.m)
    [] c.op = "recv" -> Taken(r)

(* The rest of the function, after the loop. *)
Transfer(c) ==
  /\ mq' = [mq EXCEPT ![c.q] = Transferred(@, c)]
  /\ received' = IF c.op = "recv" THEN mq[c.q].msg[mq[c.q].first] ELSE received
  /\ k' = Wake(k, Wakes(c))
  /\ call' = [call EXCEPT ![k.running] = NoCall]
  /\ UNCHANGED mode

(* A call from its beginning.  The idle thread never waits. *)
Call(c) ==
  /\ Free
  /\ \/ k.running # Idle /\ Sleep(c)
     \/ ~MustWait(c) /\ Transfer(c)

(* Mutant: the loop is an if. *)
ResumeWithoutLooking ==
  /\ mode = "thread"
  /\ call[k.running] # NoCall
  /\ Transfer(call[k.running])

(* A thread that waited has been dispatched and looks again. *)
Resume ==
  /\ mode = "thread"
  /\ call[k.running] # NoCall
  /\ LET c == call[k.running]
     IN  Sleep(c) \/ (~MustWait(c) /\ Transfer(c))

-----------------------------------------------------------------------------
(* Exceptions. *)

__osException ==
  /\ Free
  /\ k' = [k EXCEPT !.state[k.running] = "runnable"]
  /\ mode' = "exception"
  /\ UNCHANGED <<mq, call, received>>

(* Mutant: the queue field still names the message queue. *)
ReadiedKeepsField(s, tq) ==
  IF s.tq[tq] = <<>> THEN s
  ELSE [__osPopThread(s, tq) EXCEPT
          !.tq[RunQueue] = Inserted(s, @, Head(s.tq[tq]))]

(* The thread woken keeps its state, and nobody is dispatched yet. *)
Readied(s, tq) ==
  IF s.tq[tq] = <<>> THEN s
  ELSE __osEnqueueThread(__osPopThread(s, tq), RunQueue, Head(s.tq[tq]))

(* Mutant: only the message that ends emptiness wakes anyone. *)
send_mesg_first_wakes(q, m) ==
  /\ mode = "exception"
  /\ ~MQ_IS_FULL(q)
  /\ mq' = [mq EXCEPT ![q] = Sent(@, m)]
  /\ k' = IF MQ_IS_EMPTY(q) THEN Readied(k, MtQueue(q)) ELSE k
  /\ UNCHANGED <<call, received, mode>>

(* The message of an event; lost when the queue is full. *)
send_mesg(q, m) ==
  /\ mode = "exception"
  /\ ~MQ_IS_FULL(q)
  /\ mq' = [mq EXCEPT ![q] = Sent(@, m)]
  /\ k' = Readied(k, MtQueue(q))
  /\ UNCHANGED <<call, received, mode>>

redispatch ==
  /\ mode = "exception"
  /\ k' = IF k.pri[k.running] >= HeadPri(k)
          THEN [k EXCEPT !.state[k.running] = "running"]
          ELSE __osEnqueueAndYield(k, RunQueue)
  /\ mode' = "thread"
  /\ UNCHANGED <<mq, call, received>>

(* A fault: the thread is stopped, the fault message is posted, if there   *)
(* is room, and another thread is dispatched.                              *)
panic(q, m) ==
  /\ Free
  /\ LET stopped == [k EXCEPT !.state[k.running] = "stopped"]
     IN  IF MQ_IS_FULL(q)
         THEN k' = __osDispatchThread(stopped) /\ UNCHANGED mq
         ELSE /\ k' = __osDispatchThread(Readied(stopped, MtQueue(q)))
              /\ mq' = [mq EXCEPT ![q] = Sent(@, m)]
  /\ UNCHANGED <<call, received, mode>>

Next ==
  \/ \E t \in Workers :
       \/ \E p \in Priorities : osCreateThread(t, p) \/ osSetThreadPri(t, p)
       \/ osStartThread(t)
       \/ osStopThread(t)
       \/ osDestroyThread(t)
  \/ osYieldThread
  \/ \E c \in Calls : Call(c)
  \/ Resume
  \/ __osException
  \/ \E q \in Queues, m \in Msgs :
       send_mesg(q, m) \/ (k.running # Idle /\ panic(q, m))
  \/ redispatch

Spec == Init /\ [][Next]_vars

-----------------------------------------------------------------------------
(* Type invariant. *)
TypeOK ==
  /\ k \in [pri : [Threads -> Priorities \union {0}],
            state : [Threads -> {"none", "stopped", "runnable", "running",
                                 "waiting", "destroyed"}],
            at : [Threads -> ThreadQueues \union {NoQueue}],
            tq : [ThreadQueues -> Seq(Threads)],
            running : Threads]
  /\ mq \in [Queues -> [msg : [0..MsgCount - 1 -> Msgs \union {NoMsg}],
                        first : 0..MsgCount - 1, validCount : 0..MsgCount]]
  /\ call \in [Threads -> Calls \union {NoCall}]
  /\ received \in Msgs \union {NoMsg}
  /\ mode \in {"thread", "exception"}

Positions(tq, t) == {i \in DOMAIN k.tq[tq] : k.tq[tq][i] = t}

(* A thread that can go on or waits is in exactly one queue, once, and its *)
(* queue field, from which stop, destroy and set-priority remove it, names *)
(* it; the running thread and those stopped or destroyed are in none, even *)
(* while an exception has marked the running one runnable and a thread it  *)
(* woke is still marked waiting.  Every queue is sorted by priority, as    *)
(* the insertion and the dispatcher rely on, although priorities change    *)
(* while threads wait.                                                     *)
InOneSortedQueue ==
  /\ \A t \in Threads :
       IF t = k.running \/ k.state[t] \in {"none", "stopped", "destroyed"}
       THEN \A tq \in ThreadQueues : Positions(tq, t) = {}
       ELSE /\ \E i \in DOMAIN k.tq[k.at[t]] : Positions(k.at[t], t) = {i}
            /\ \A tq \in ThreadQueues \ {k.at[t]} : Positions(tq, t) = {}
  /\ \A tq \in ThreadQueues : \A i, j \in DOMAIN k.tq[tq] :
       i < j => k.pri[k.tq[tq][i]] >= k.pri[k.tq[tq][j]]

(* Outside the exception handler the running thread has the highest        *)
(* priority of all that can run, after every call that wakes, starts,      *)
(* stops or re-prioritizes anyone.                                         *)
HighestRuns ==
  mode = "thread" =>
    /\ k.state[k.running] = "running"
    /\ \A i \in DOMAIN k.tq[RunQueue] :
         k.pri[k.tq[RunQueue][i]] <= k.pri[k.running]

Asleep(t) == \E q \in Queues : k.at[t] \in {MtQueue(q), FullQueue(q)}

(* A thread sleeps where its own call waits, receivers on the queue's      *)
(* mtqueue and senders on its fullqueue, through stops and restarts.       *)
SleepsForItsCall ==
  \A t \in Threads : Asleep(t) => call[t] # NoCall /\ k.at[t] = SleepsOn(call[t])

(* Threads whose wait on tq has ended although their call has not: they    *)
(* are on their way back to it, unless someone stopped or destroyed them.  *)
OnTheWay(tq) ==
  {t \in Threads : call[t] # NoCall /\ SleepsOn(call[t]) = tq /\ k.at[t] = RunQueue}

(* No lost wakeup: while receivers sleep, one is on its way for every      *)
(* message in the queue; while senders sleep, one for every free place.    *)
(* Each operation wakes only one thread, a third one may take what that    *)
(* thread was woken for, and threads are stopped and restarted in between. *)
NoLostWakeup ==
  \A q \in Queues :
    /\ k.tq[MtQueue(q)] # <<>> =>
         Cardinality(OnTheWay(MtQueue(q))) >= mq[q].validCount
    /\ k.tq[FullQueue(q)] # <<>> =>
         Cardinality(OnTheWay(FullQueue(q))) >= MsgCount - mq[q].validCount

Before(s, tq, t, u) ==
  \E i, j \in DOMAIN s.tq[tq] : i < j /\ s.tq[tq][i] = t /\ s.tq[tq][j] = u

Queued(s, tq) == {s.tq[tq][i] : i \in DOMAIN s.tq[tq]}

NobodyOvertakes(s, after) ==
  \A tq \in ThreadQueues :
    \A t \in Queued(s, tq) \intersect Queued(after, tq), u \in Queued(after, tq) :
      /\ u \notin Queued(s, tq) \/ (Before(s, tq, t, u) /\ after.pri[u] = s.pri[u])
      /\ after.pri[t] = s.pri[t] /\ after.pri[t] = after.pri[u]
      => Before(after, tq, t, u)

(* Among threads of the same priority the first to wait is the first to be *)
(* served: nobody gets in front of one who was there before, neither one   *)
(* who comes now nor one who was behind, unless a priority was set anew.   *)
FirstComeFirstServed == [][NobodyOvertakes(k, k')]_vars

-----------------------------------------------------------------------------
(* The abstract mail boxes. *)
Contents(q) ==
  [i \in 1..mq[q].validCount |-> mq[q].msg[(mq[q].first + i - 1) % MsgCount]]

Mailbox == INSTANCE AbstractMailbox WITH
  box <- [q \in Queues |-> Contents(q)], pending <- call

(* The ring buffers, the wait queues and the loops that look again give    *)
(* every caller a bounded queue in which each waiting call takes effect    *)
(* exactly once, on whatever thread and in whatever order they wake up.    *)
MailboxSpec == Mailbox!Spec
=============================================================================
