----------------------------- MODULE AbstractRcp ----------------------------
(***************************************************************************)
(* What src/sched.c promises to its clients, without lists, interrupts or  *)
(* yields.  A client submits a task; the RSP, and for graphics the RDP,    *)
(* does its part; then the client is told, once.  The RSP hands its output *)
(* to the RDP in a buffer, so that two graphics tasks are never half done. *)
(***************************************************************************)
CONSTANTS AudioTasks, GfxTasks

VARIABLES left,  \* what the RCP has still to do for a task
          client \* what the task's client is doing

rcpVars == <<left, client>>

AllTasks == AudioTasks \union GfxTasks

Parts(t) == IF t \in AudioTasks THEN {"SP"} ELSE {"SP", "DP"}

Init ==
  /\ left = [t \in AllTasks |-> {}]
  /\ client = [t \in AllTasks |-> "idle"]

Submit(t) ==
  /\ client[t] = "idle"
  /\ client' = [client EXCEPT ![t] = "waiting"]
  /\ left' = [left EXCEPT ![t] = Parts(t)]

(* One unit ends its part of t. *)
EndPart(t, unit) ==
  /\ unit \in left[t]
  /\ t \in GfxTasks =>
       \A o \in GfxTasks \ {t} : left[o] \in {{}, Parts(o)}
  /\ left' = [left EXCEPT ![t] = @ \ {unit}]
  /\ UNCHANGED client

Answer(t) ==
  /\ client[t] = "waiting"
  /\ left[t] = {}
  /\ client' = [client EXCEPT ![t] = "answered"]
  /\ UNCHANGED left

Receive(t) ==
  /\ client[t] = "answered"
  /\ client' = [client EXCEPT ![t] = "idle"]
  /\ UNCHANGED left

Next ==
  \E t \in AllTasks :
    \/ Submit(t)
    \/ \E unit \in {"SP", "DP"} : EndPart(t, unit)
    \/ Answer(t)
    \/ Receive(t)

Spec == Init /\ [][Next]_rcpVars
=============================================================================
