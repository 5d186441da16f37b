--------------------------- MODULE AbstractMailbox --------------------------
(***************************************************************************)
(* What the message queues of libultra promise to their callers: bounded   *)
(* boxes; a message put in is taken out once, in order, except that a      *)
(* jammed one goes to the front; a call that waits has its effect once,    *)
(* when there is room or a message.                                        *)
(***************************************************************************)
EXTENDS Integers, Sequences

CONSTANTS Threads, Queues, Msgs, MsgCount, NoMsg, NoCall

VARIABLES box,     \* messages of each queue, the next one first
          pending, \* the call a thread is waiting in
          received \* the message taken last

boxVars == <<box, pending, received>>

MailCalls == [op : {"send", "jam", "recv"}, q : Queues, m : Msgs \union {NoMsg}]

Init ==
  /\ box = [q \in Queues |-> <<>>]
  /\ pending = [t \in Threads |-> NoCall]
  /\ received = NoMsg

Put(c) ==
  /\ c.op = "send"
  /\ Len(box[c.q]) < MsgCount
  /\ box' = [box EXCEPT ![c.q] = Append(@, c.m)]
  /\ UNCHANGED received

PutFirst(c) ==
  /\ c.op = "jam"
  /\ Len(box[c.q]) < MsgCount
  /\ box' = [box EXCEPT ![c.q] = <<c.m>> \o @]
  /\ UNCHANGED received

Take(c) ==
  /\ c.op = "recv"
  /\ box[c.q] # <<>>
  /\ received' = Head(box[c.q])
  /\ box' = [box EXCEPT ![c.q] = Tail(@)]

Effect(c) == Put(c) \/ PutFirst(c) \/ Take(c)

AtOnce == \E c \in MailCalls : Effect(c) /\ UNCHANGED pending

Wait(t) ==
  /\ pending[t] = NoCall
  /\ \E c \in MailCalls : pending' = [pending EXCEPT ![t] = c]
  /\ UNCHANGED <<box, received>>

Finish(t) ==
  /\ pending[t] # NoCall
  /\ Effect(pending[t])
  /\ pending' = [pending EXCEPT ![t] = NoCall]

Next == AtOnce \/ \E t \in Threads : Wait(t) \/ Finish(t)

Spec == Init /\ [][Next]_boxVars
=============================================================================
