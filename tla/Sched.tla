------------------------------- MODULE Sched --------------------------------
(***************************************************************************)
(* The RCP task scheduler (src/sched.c), the hardware it drives and the    *)
(* threads that give it work.                                              *)
(*                                                                         *)
(* The scheduler thread takes messages from interruptQ: the vertical       *)
(* retrace, the end of the RSP's or the RDP's work, a request to run       *)
(* audio, or a task.  Each message is handled to the end before the next.  *)
(* The clients run at a lower priority, so they take a step only while     *)
(* the scheduler waits on an empty queue; the hardware may post at any     *)
(* time.  The handlers are functions of the scheduler's state; each one    *)
(* ends with Dispatch, which is __scSchedule followed by __scExec.         *)
(*                                                                         *)
(* Audio tasks use the RSP only.  Graphics tasks use the RSP and the RDP   *)
(* (type XBUS); the RSP feeds the RDP as it goes, so that a task can be    *)
(* interrupted ("yield"), put back on the list, and resumed, while the RDP *)
(* keeps belonging to it.  Task types DRAM, SP-only graphics and PARALLEL  *)
(* are left out, and so are PRE_NMI_MSG, which is only passed on, and the  *)
(* text of the crash screen, in which the scheduler stays for ever.        *)
(***************************************************************************)
EXTENDS Integers, Sequences, FiniteSets

CONSTANTS AudioTasks,    \* the audio manager's tasks
          Frame,         \* graphics tasks of one frame, in the order submitted
          LastTasks,     \* graphics tasks with OS_SC_LAST_TASK
          NoTask,        \* NULL
          WatchdogLimit, \* retraces a task may take (10)
          FrameCounts,   \* values of amAudioMgrGetNextFrameCount()
          AudioQSize,    \* length of the audio manager's frame queue
          MayBeLate,     \* tasks that may run into the watchdog
          MayHang,       \* tasks the RSP may never come to the end of
          SyncEarly      \* the RDP may end a task before the RSP has done so

GfxTasks == {Frame[k] : k \in DOMAIN Frame}
Tasks == AudioTasks \union GfxTasks

ASSUME SchedAssumption ==
  /\ Frame \in Seq(GfxTasks) /\ Frame # <<>>
  /\ \A j, k \in DOMAIN Frame : Frame[j] = Frame[k] => j = k
  /\ AudioTasks \intersect GfxTasks = {}
  /\ LastTasks \subseteq GfxTasks
  /\ NoTask \notin Tasks
  /\ WatchdogLimit \in Nat \ {0}
  /\ FrameCounts \subseteq Nat /\ FrameCounts # {}
  /\ AudioQSize \in Nat \ {0}
  /\ MayBeLate \subseteq Tasks
  /\ MayHang \subseteq Tasks
  /\ SyncEarly \in BOOLEAN

Needs(t) == IF t \in AudioTasks THEN {"SP"} ELSE {"SP", "DP"}

(* Messages of interruptQ. *)
VIDEO_MSG == [kind |-> "video", task |-> NoTask]
RSP_DONE_MSG == [kind |-> "sp", task |-> NoTask]
RDP_DONE_MSG == [kind |-> "dp", task |-> NoTask]
UNK_MSG == [kind |-> "audio", task |-> NoTask]
TaskMsg(t) == [kind |-> "task", task |-> t]

VARIABLES
  sc,          \* the OSSched, the task states, and the RCP's registers
  dpLocal,     \* dp of __scMain, which is never reset (sp is always set anew)
  interruptQ,  \* messages for the scheduler thread
  cmdQ,        \* tasks the next retrace collects
  swapPending, \* the VI still shows the previous framebuffer
  progress,    \* hardware: how far the RSP got with a task
  audioMsgs,   \* retrace messages in the audio manager's queue
  game         \* where the game thread is in its frame

vars == <<sc, dpLocal, interruptQ, cmdQ, swapPending, progress,
          audioMsgs, game>>

-----------------------------------------------------------------------------
(* Choosing what to run: __scSchedule.  r holds the scheduler's state, the *)
(* choice sp and dp made so far and the units still available.             *)

(* Mutant of Available: the RSP is always taken for free. *)
RspAlwaysFree(s) == {"SP"} \union (IF s.curRDP = NoTask THEN {"DP"} ELSE {})

Available(s) == (IF s.curRSP = NoTask THEN {"SP"} ELSE {})
                  \union (IF s.curRDP = NoTask THEN {"DP"} ELSE {})

HeadOf(list) == IF list = <<>> THEN NoTask ELSE Head(list)

(* Graphics tasks wait while a swap is pending. *)
__scTaskReady(t) == t # NoTask /\ ~swapPending

ChooseAudio(r) ==
  [r EXCEPT !.sp = Head(r.s.audioList),
            !.avail = @ \ {"SP"},
            !.s.doAudio = FALSE,
            !.s.audioList = Tail(@)]

(* A yielded task goes on as soon as the RSP is free. *)
ChooseYielded(r, gfx) ==
  [r EXCEPT !.sp = gfx,
            !.dp = IF "DP" \in r.s.state[gfx] THEN gfx ELSE @,
            !.avail = @ \ ({"SP"} \union (r.s.state[gfx] \intersect {"DP"})),
            !.s.gfxList = Tail(@)]

ChooseFresh(r, gfx) ==
  [r EXCEPT !.sp = gfx, !.dp = gfx, !.avail = {}, !.s.gfxList = Tail(@)]

(* Mutant of Choose: a fresh task does not wait for the RDP. *)
ChooseWithoutRdp(r) ==
  LET gfx == HeadOf(r.s.gfxList)
      yielded == "YIELDED" \in r.s.state[gfx]
  IN IF r.s.doAudio /\ "SP" \in r.avail THEN ChooseAudio(r)
     ELSE IF ~__scTaskReady(gfx) THEN r
     ELSE IF yielded /\ "SP" \in r.avail THEN ChooseYielded(r, gfx)
     ELSE IF ~yielded /\ "SP" \in r.avail THEN ChooseFresh(r, gfx)
     ELSE r

Choose(r) ==
  LET gfx == HeadOf(r.s.gfxList)
      yielded == "YIELDED" \in r.s.state[gfx]
  IN IF r.s.doAudio /\ "SP" \in r.avail THEN ChooseAudio(r)
     ELSE IF ~__scTaskReady(gfx) THEN r
     ELSE IF yielded /\ "SP" \in r.avail THEN ChooseYielded(r, gfx)
     ELSE IF ~yielded /\ r.avail = {"SP", "DP"} THEN ChooseFresh(r, gfx)
     ELSE r

(* The recursion ends when a pass takes no unit; there are two of them.    *)
__scSchedule(r) == Choose(Choose(r))

(* The RSP is started with sp.  A dp other than sp is meant for tasks with *)
(* a display list in DRAM: for any other, its output buffer is garbage.    *)
__scExec(s, sp, dp) ==
  [s EXCEPT !.state[sp] = @ \ {"YIELD", "YIELDED"},
            !.rspCount = 0,
            !.rdpCount = 0,
            !.curRSP = sp,
            !.curRDP = IF dp = NoTask THEN @ ELSE dp,
            !.rsp = sp,
            !.yieldSignal = FALSE,
            !.yielded = FALSE,
            !.crashed = IF dp \in {NoTask, sp} THEN @ ELSE "dp"]

(* dp0 is the value of the local dp before the call. *)
Dispatch(s, dp0) ==
  LET from == [s |-> s, sp |-> NoTask, dp |-> dp0, avail |-> Available(s)]
      to == __scSchedule(from)
  IN [s  |-> IF to.avail = from.avail THEN s ELSE __scExec(to.s, to.sp, to.dp),
      dp |-> to.dp]

DispatchNow(s) == Dispatch(s, NoTask).s

-----------------------------------------------------------------------------
(* The handlers. *)

(* Mutant of __scAppendList: the type of a task is not looked at. *)
AppendUntyped(s, t) ==
  [s EXCEPT !.state[t] = Needs(t), !.gfxList = Append(@, t)]

__scAppendList(s, t) ==
  [s EXCEPT !.state[t] = Needs(t),
            !.audioList = IF t \in AudioTasks THEN Append(@, t) ELSE @,
            !.gfxList = IF t \in AudioTasks THEN @ ELSE Append(@, t)]

(* The tasks of cmdQ, one after the other. *)
AppendAll(s, tasks) ==
  LET after[k \in 0 .. Len(tasks)] ==
        IF k = 0 THEN s ELSE __scAppendList(after[k - 1], tasks[k])
  IN after[Len(tasks)]

(* Only a graphics task is asked to yield. *)
__scYield(s) ==
  IF s.curRSP \in GfxTasks
  THEN [s EXCEPT !.state[s.curRSP] = @ \union {"YIELD"}, !.yieldSignal = TRUE]
  ELSE s

(* Mutant of func_80050670: a busy RSP is enough to set doAudio. *)
AskWithoutWork(s) ==
  LET u == [s EXCEPT !.doAudio = @ \/ s.audioList # <<>> \/ s.curRSP # NoTask]
  IN IF u.doAudio /\ u.curRSP # NoTask THEN __scYield(u) ELSE DispatchNow(u)

(* Audio that waits goes first; a graphics task on the RSP is interrupted. *)
func_80050670(s) ==
  LET u == [s EXCEPT !.doAudio = @ \/ s.audioList # <<>>]
  IN IF u.doAudio /\ u.curRSP # NoTask THEN __scYield(u) ELSE DispatchNow(u)

Reply(s, t) == [s EXCEPT !.done[t] = @ + 1]

(* Mutants of __scTaskComplete: only the RSP's part counts; the message    *)
(* that is put off is sent all the same.                                   *)
PutOffAndTell(s, t) ==
  IF s.state[t] \intersect {"SP", "DP"} # {} THEN s
  ELSE IF t \notin LastTasks THEN Reply(s, t)
  ELSE IF s.frameCount <= 1 THEN [Reply(s, t) EXCEPT !.unkTask = t]
  ELSE [Reply(s, t) EXCEPT !.frameCount = 0]

CompleteWithoutRdp(s, t) ==
  IF "SP" \in s.state[t] THEN s
  ELSE IF t \notin LastTasks THEN Reply(s, t)
  ELSE IF s.frameCount <= 1 THEN [s EXCEPT !.unkTask = t]
  ELSE [Reply(s, t) EXCEPT !.frameCount = 0]

(* The done message goes out when nothing is left to do.  That of a frame's *)
(* last task is put off when the previous one is less than two retraces    *)
(* old.                                                                    *)
__scTaskComplete(s, t) ==
  IF s.state[t] \intersect {"SP", "DP"} # {} THEN s
  ELSE IF t \notin LastTasks THEN Reply(s, t)
  ELSE IF s.frameCount <= 1 THEN [s EXCEPT !.unkTask = t]
  ELSE [Reply(s, t) EXCEPT !.frameCount = 0]

(* Mutant of __scHandleRSP: a yielded task gives up the RDP. *)
YieldFreesRdp(s) ==
  LET t == s.curRSP
      u == [s EXCEPT !.curRSP = NoTask]
  IN IF t = NoTask THEN [s EXCEPT !.crashed = "null"]
     ELSE DispatchNow(
       IF "YIELD" \notin s.state[t]
       THEN __scTaskComplete([u EXCEPT !.state[t] = @ \ {"SP"}], t)
       ELSE IF s.yielded
       THEN [u EXCEPT !.state[t] = @ \union {"YIELDED"}, !.curRDP = NoTask,
                      !.gfxList = <<t>> \o @]
       ELSE [u EXCEPT !.state[t] = @ \ {"SP"}])

(* The RSP has stopped: the task yielded, or ended before it saw the       *)
(* request, or ended without one.                                          *)
__scHandleRSP(s) ==
  LET t == s.curRSP
      u == [s EXCEPT !.curRSP = NoTask]
  IN IF t = NoTask THEN [s EXCEPT !.crashed = "null"]
     ELSE DispatchNow(
       IF "YIELD" \notin s.state[t]
       THEN __scTaskComplete([u EXCEPT !.state[t] = @ \ {"SP"}], t)
       ELSE IF s.yielded
       THEN [u EXCEPT !.state[t] = @ \union {"YIELDED"},
                      !.gfxList = <<t>> \o @]
       ELSE [u EXCEPT !.state[t] = @ \ {"SP"}])

__scHandleRDP(s) ==
  LET t == s.curRDP
      u == [s EXCEPT !.curRDP = NoTask, !.state[t] = @ \ {"DP"}]
  IN IF t = NoTask THEN [s EXCEPT !.crashed = "null"]
     ELSE DispatchNow(__scTaskComplete(u, t))

Capped(n, max) == IF n > max THEN max ELSE n

CountRetrace(s) ==
  [s EXCEPT !.rspCount = IF s.curRSP = NoTask THEN @ ELSE @ + 1,
            !.rdpCount = IF s.curRDP = NoTask THEN @ ELSE @ + 1]

RspExpired(s) == s.curRSP # NoTask /\ s.rspCount > WatchdogLimit
RdpExpired(s) == s.curRDP # NoTask /\ s.rdpCount > WatchdogLimit

(* The RSP is halted, which clears the request to yield and its answer. *)
Halted(s) ==
  [s EXCEPT !.rsp = NoTask, !.yieldSignal = FALSE, !.yielded = FALSE]

ForgetRsp(s) == [s EXCEPT !.curRSP = NoTask, !.rspCount = 0]

(* Mutants of HaltExpired: the task stays on the RSP in the scheduler's    *)
(* books; its client is told that it is done.                              *)
HaltKeepsTask(s) ==
  IF RspExpired(s) THEN Halted([s EXCEPT !.rspCount = 0]) ELSE s

HaltReplies(s) ==
  IF RspExpired(s) THEN Reply(Halted(ForgetRsp(s)), s.curRSP) ELSE s

(* A task that has run too long is forgotten, the RDP's with the frames    *)
(* counted so far.                                                         *)
HaltExpired(s) ==
  LET u == IF RspExpired(s) THEN ForgetRsp(s) ELSE s
      v == IF RdpExpired(s)
           THEN [u EXCEPT !.curRDP = NoTask, !.rdpCount = 0, !.frameCount = 0]
           ELSE u
  IN IF RspExpired(s) \/ RdpExpired(s) THEN Halted(v) ELSE s

(* When graphics has run too long, func_80050AA4 looks for the command it  *)
(* was at; if it found one the crash screen is shown for ever.  (The flags *)
(* gCurRSPTaskIsSet and gCurRDPTaskIsSet are set by each of the retraces   *)
(* before, so that they are always set here.)                              *)
ShowsScreen(s, found) ==
  found /\ (RdpExpired(s) \/ (RspExpired(s) /\ s.curRSP \in GfxTasks))

(* Mutant of CountFrame: a put-off message is dropped. *)
CountOnly(s) == [s EXCEPT !.frameCount = Capped(@ + 1, 2)]

(* A put-off done message goes out once two retraces have passed. *)
CountFrame(s) ==
  LET u == [s EXCEPT !.frameCount = Capped(@ + 1, 2)]
  IN IF u.unkTask # NoTask /\ u.frameCount >= 2
     THEN [Reply(u, u.unkTask) EXCEPT !.frameCount = 0, !.unkTask = NoTask]
     ELSE u

(* The audio manager is told of every nextFrame-th retrace. *)
TellAudio(s, n) ==
  LET u == [s EXCEPT !.nextFrame = @ - 1]
  IN IF u.nextFrame > 0 THEN u
     ELSE [(IF u.audioList # <<>> THEN func_80050670(u) ELSE u)
             EXCEPT !.nextFrame = n]

TellsAudio(s) == s.nextFrame - 1 <= 0

(* found: func_80050AA4 found a command; told: unk68 of the RDP's task is  *)
(* 0, and its client is sent the message that skips the swap before        *)
(* anything else.  The client takes that for the end of the task, while it *)
(* is listed or runs: unless the screen comes first, the model ends here.  *)
__scHandleRetrace(s, n, found, told) ==
  LET u == CountRetrace(s)
      early == told /\ RdpExpired(u)
      v == IF early THEN Reply(u, u.curRDP) ELSE u
      ready == DispatchNow(AppendAll(HaltExpired(u), cmdQ))
  IN IF ShowsScreen(u, found) THEN [v EXCEPT !.crashed = "screen"]
     ELSE IF early THEN [v EXCEPT !.crashed = "told"]
     ELSE TellAudio(CountFrame(ready), n)

-----------------------------------------------------------------------------
Init ==
  /\ sc = [curRSP |-> NoTask, curRDP |-> NoTask, unkTask |-> NoTask,
           audioList |-> <<>>, gfxList |-> <<>>,
           frameCount |-> 0, doAudio |-> FALSE, nextFrame |-> 0,
           rspCount |-> 0, rdpCount |-> 0,
           state |-> [t \in Tasks |-> {}],
           done |-> [t \in Tasks |-> 0],
           rsp |-> NoTask, rdp |-> NoTask,
           yieldSignal |-> FALSE, yielded |-> FALSE,
           crashed |-> "no"]
  /\ dpLocal = NoTask
  /\ interruptQ = <<>>
  /\ cmdQ = <<>>
  /\ swapPending = FALSE
  /\ progress = [t \in Tasks |-> "idle"]
  /\ audioMsgs = 0
  /\ game = [pc |-> "submit", k |-> 1]

(* The scheduler thread takes the next message.                            *)
Receives(kind) ==
  /\ interruptQ # <<>>
  /\ Head(interruptQ).kind = kind
  /\ interruptQ' = Tail(interruptQ)
  /\ UNCHANGED <<swapPending, progress, game>>

Retrace ==
  /\ Receives("video")
  /\ \E n \in FrameCounts, found, told \in BOOLEAN :
       sc' = __scHandleRetrace(sc, n, found, told)
  /\ cmdQ' = IF sc'.crashed = "no" THEN <<>> ELSE cmdQ
  /\ audioMsgs' = IF sc'.crashed = "no" /\ TellsAudio(sc)
                  THEN Capped(audioMsgs + 1, AudioQSize)
                  ELSE audioMsgs
  /\ UNCHANGED dpLocal

RspDone ==
  /\ Receives("sp")
  /\ sc' = __scHandleRSP(sc)
  /\ UNCHANGED <<dpLocal, cmdQ, audioMsgs>>

RdpDone ==
  /\ Receives("dp")
  /\ sc' = __scHandleRDP(sc)
  /\ UNCHANGED <<dpLocal, cmdQ, audioMsgs>>

AudioWanted ==
  /\ Receives("audio")
  /\ sc' = func_80050670(sc)
  /\ UNCHANGED <<dpLocal, cmdQ, audioMsgs>>

TaskArrives ==
  /\ Receives("task")
  /\ LET d == Dispatch(__scAppendList(sc, Head(interruptQ).task), dpLocal)
     IN sc' = d.s /\ dpLocal' = d.dp
  /\ UNCHANGED <<cmdQ, audioMsgs>>

__scMain == Retrace \/ RspDone \/ RdpDone \/ AudioWanted \/ TaskArrives

-----------------------------------------------------------------------------
(* The hardware. *)

Post(msg) == interruptQ' = Append(interruptQ, msg)

(* The RSP sends the full sync that ends t's work for the RDP. *)
RspSync(t) ==
  /\ SyncEarly
  /\ sc.rsp = t
  /\ t \in GfxTasks
  /\ progress[t] = "work"
  /\ progress' = [progress EXCEPT ![t] = "synced"]
  /\ sc' = [sc EXCEPT !.rdp = t]
  /\ UNCHANGED <<dpLocal, interruptQ, cmdQ, swapPending, audioMsgs, game>>

(* The RSP is caught in t for ever, until the watchdog halts it. *)
RspHangs(t) ==
  /\ t \in MayHang
  /\ sc.rsp = t
  /\ progress[t] = "work"
  /\ progress' = [progress EXCEPT ![t] = "hung"]
  /\ UNCHANGED <<sc, dpLocal, interruptQ, cmdQ, swapPending, audioMsgs, game>>

(* The RSP comes to the end of t; the full sync may be its last act. *)
RspFinish(t) ==
  /\ sc.rsp = t
  /\ progress[t] # "hung"
  /\ \/ /\ t \in AudioTasks \/ progress[t] = "synced"
        /\ sc' = [sc EXCEPT !.rsp = NoTask, !.yielded = FALSE]
     \/ /\ t \in GfxTasks /\ progress[t] = "work" /\ ~SyncEarly
        /\ sc' = [sc EXCEPT !.rsp = NoTask, !.yielded = FALSE, !.rdp = t]
  /\ progress' = [progress EXCEPT ![t] = "finished"]
  /\ Post(RSP_DONE_MSG)
  /\ UNCHANGED <<dpLocal, cmdQ, swapPending, audioMsgs, game>>

(* The RSP sees the request to yield, at any point of a graphics task. *)
RspYield ==
  /\ sc.rsp # NoTask
  /\ sc.yieldSignal
  /\ progress[sc.rsp] # "hung"
  /\ sc' = [sc EXCEPT !.rsp = NoTask, !.yielded = TRUE]
  /\ Post(RSP_DONE_MSG)
  /\ UNCHANGED <<dpLocal, cmdQ, swapPending, progress, audioMsgs, game>>

RdpFinish ==
  /\ sc.rdp # NoTask
  /\ sc' = [sc EXCEPT !.rdp = NoTask]
  /\ Post(RDP_DONE_MSG)
  /\ UNCHANGED <<dpLocal, cmdQ, swapPending, progress, audioMsgs, game>>

(* The vertical retrace, at which a pending swap takes place.  The         *)
(* scheduler has handled the retrace before.  A task ends in time unless   *)
(* it overruns, or has yielded to one that does.                           *)
Hung(t) == t \in Tasks /\ progress[t] = "hung"
Overruns(t) == t \in MayBeLate \/ Hung(t)
MayTake(t) ==
  Overruns(t) \/ ("YIELDED" \in sc.state[t] /\ Overruns(sc.curRSP))

InTime ==
  /\ sc.curRSP # NoTask /\ ~Overruns(sc.curRSP) => sc.rspCount < WatchdogLimit
  /\ sc.curRDP # NoTask /\ ~MayTake(sc.curRDP) => sc.rdpCount < WatchdogLimit

VerticalRetrace ==
  /\ \A k \in DOMAIN interruptQ : interruptQ[k] # VIDEO_MSG
  /\ InTime
  /\ Post(VIDEO_MSG)
  /\ swapPending' = FALSE
  /\ UNCHANGED <<sc, dpLocal, cmdQ, progress, audioMsgs, game>>

-----------------------------------------------------------------------------
(* The clients.  A task is used again once its done message was received.  *)

ClientRuns == interruptQ = <<>>

(* A task goes to interruptQ, or to cmdQ. *)
SendTask(t) ==
  /\ progress' = [progress EXCEPT ![t] = "work"]
  /\ \/ Post(TaskMsg(t)) /\ UNCHANGED cmdQ
     \/ UNCHANGED interruptQ /\ cmdQ' = Append(cmdQ, t)

TakeDone(t) ==
  /\ sc.done[t] > 0
  /\ sc' = [sc EXCEPT !.done[t] = @ - 1]
  /\ progress' = [progress EXCEPT ![t] = "idle"]

(* The audio manager answers a retrace message with a task. *)
AudioSubmit(t) ==
  /\ ClientRuns
  /\ audioMsgs > 0
  /\ progress[t] = "idle"
  /\ SendTask(t)
  /\ audioMsgs' = audioMsgs - 1
  /\ UNCHANGED <<sc, dpLocal, swapPending, game>>

AudioTaskDone(t) ==
  /\ ClientRuns
  /\ TakeDone(t)
  /\ UNCHANGED <<dpLocal, interruptQ, cmdQ, swapPending, audioMsgs, game>>

(* The audio manager asks for its waiting tasks to be run at once. *)
AudioHurry ==
  /\ ClientRuns
  /\ Post(UNK_MSG)
  /\ UNCHANGED <<sc, dpLocal, cmdQ, swapPending, progress, audioMsgs, game>>

NextStep(pc) == IF game.k < Len(Frame) THEN [game EXCEPT !.k = @ + 1]
                ELSE [pc |-> pc, k |-> 1]

(* The game thread submits the tasks of a frame ... *)
GameSubmit ==
  /\ ClientRuns
  /\ game.pc = "submit"
  /\ SendTask(Frame[game.k])
  /\ game' = NextStep("wait")
  /\ UNCHANGED <<sc, dpLocal, swapPending, audioMsgs>>

(* Mutant of rcpWaitDP: the swap is asked for when the first task is done. *)
SwapAfterFirst ==
  /\ ClientRuns
  /\ game.pc = "wait"
  /\ TakeDone(Frame[game.k])
  /\ game' = NextStep("submit")
  /\ swapPending' = TRUE
  /\ UNCHANGED <<dpLocal, interruptQ, cmdQ, audioMsgs>>

(* ... waits for each of them (rcpWaitDP), and then asks for the swap. *)
rcpWaitDP ==
  /\ ClientRuns
  /\ game.pc = "wait"
  /\ TakeDone(Frame[game.k])
  /\ game' = NextStep("submit")
  /\ swapPending' = (swapPending \/ game.k = Len(Frame))
  /\ UNCHANGED <<dpLocal, interruptQ, cmdQ, audioMsgs>>

-----------------------------------------------------------------------------
Hardware ==
  \/ \E t \in Tasks : RspSync(t) \/ RspHangs(t) \/ RspFinish(t)
  \/ RspYield
  \/ RdpFinish
  \/ VerticalRetrace

Clients ==
  \/ \E t \in AudioTasks : AudioSubmit(t) \/ AudioTaskDone(t)
  \/ AudioHurry
  \/ GameSubmit
  \/ rcpWaitDP

Stopped == sc.crashed # "no" /\ UNCHANGED vars

Next == (sc.crashed = "no" /\ (__scMain \/ Hardware \/ Clients)) \/ Stopped

Spec == Init /\ [][Next]_vars

(* The scheduler thread takes a message whenever there is one (only it     *)
(* shortens the queue), and the RDP never rests.  The RSP comes to the end *)
(* of a graphics task although it is interrupted again and again, since it *)
(* goes on where it stopped.  Nothing is asked of the clients, except that *)
(* audio leaves the RSP pauses: its tasks take a part of the time.         *)
TakesMessage == interruptQ # <<>> /\ interruptQ' = Tail(interruptQ)

RspWorksOn(tasks) == \E t \in tasks : RspSync(t) \/ RspFinish(t)

AudioPauses == []<>(sc.curRSP \notin AudioTasks \/ Hung(sc.curRSP))

Fairness ==
  /\ WF_interruptQ(sc.crashed = "no" /\ TakesMessage)
  /\ WF_vars(sc.crashed = "no" /\ RdpFinish)
  /\ WF_vars(sc.crashed = "no" /\ VerticalRetrace)
  /\ WF_vars(sc.crashed = "no" /\ RspWorksOn(AudioTasks))
  /\ SF_vars(sc.crashed = "no" /\ RspWorksOn(GfxTasks))
  /\ AudioPauses

FairSpec == Spec /\ Fairness
-----------------------------------------------------------------------------
(* Properties.                                                             *)

TaskOrNone == Tasks \union {NoTask}
States ==
  [curRSP : TaskOrNone, curRDP : TaskOrNone, unkTask : TaskOrNone,
   audioList : Seq(AudioTasks), gfxList : Seq(GfxTasks),
   frameCount : 0 .. 2, doAudio : BOOLEAN, nextFrame : Int,
   rspCount : Nat, rdpCount : Nat,
   state : [Tasks -> SUBSET {"SP", "DP", "YIELD", "YIELDED"}],
   done : [Tasks -> Nat],
   rsp : TaskOrNone, rdp : TaskOrNone,
   yieldSignal : BOOLEAN, yielded : BOOLEAN,
   crashed : {"no", "screen", "told", "null", "dp"}]
Messages == {VIDEO_MSG, RSP_DONE_MSG, RDP_DONE_MSG, UNK_MSG}
              \union {TaskMsg(t) : t \in Tasks}

(* Every variable has its type. *)
TypeOK ==
  /\ sc \in States
  /\ dpLocal \in TaskOrNone
  /\ interruptQ \in Seq(Messages)
  /\ cmdQ \in Seq(Tasks)
  /\ swapPending \in BOOLEAN
  /\ progress \in [Tasks -> {"idle", "work", "synced", "hung", "finished"}]
  /\ audioMsgs \in 0 .. AudioQSize
  /\ game \in [pc : {"submit", "wait"}, k : DOMAIN Frame]

Count(seq, x) == Cardinality({k \in DOMAIN seq : seq[k] = x})

(* While the scheduler believes the RSP to be busy, and only then, the RSP *)
(* runs that task or its end is on the way; the RDP runs no other task     *)
(* than it believes; and a yielded task that still needs the RDP owns it   *)
(* (the assertion in __scSchedule, which is compiled out).                 *)
UnitsAsBelieved ==
  /\ sc.rsp # NoTask => sc.rsp = sc.curRSP
  /\ Count(interruptQ, RSP_DONE_MSG)
       = (IF sc.curRSP # NoTask /\ sc.rsp = NoTask THEN 1 ELSE 0)
  /\ sc.rdp # NoTask => sc.rdp = sc.curRDP
  /\ Count(interruptQ, RDP_DONE_MSG) + (IF sc.rdp # NoTask THEN 1 ELSE 0)
       <= (IF sc.curRDP # NoTask THEN 1 ELSE 0)
  /\ \A t \in GfxTasks :
       "YIELDED" \in sc.state[t] /\ "DP" \in sc.state[t] => sc.curRDP = t

(* Nothing is started on what no longer holds: doAudio is set only while   *)
(* audio waits for the RSP, so that __scSchedule never takes the head of   *)
(* an empty list, and the RDP is never started with the task that an       *)
(* earlier message left in dp.                                             *)
NoStaleStart ==
  /\ sc.doAudio => sc.audioList # <<>> /\ sc.curRSP # NoTask
  /\ sc.crashed # "dp"

(* The places a task can be in.                                            *)
Queued(t) == Count(interruptQ, TaskMsg(t)) + Count(cmdQ, t)
Listed(t) == Count(sc.audioList, t) + Count(sc.gfxList, t)
Running(t) ==
  IF sc.curRSP = t \/ (sc.curRDP = t /\ Listed(t) = 0) THEN 1 ELSE 0
PutOff(t) == IF sc.unkTask = t THEN 1 ELSE 0

(* A task a client has submitted is in one place, from the queue to its    *)
(* done message: it is neither lost nor run twice.  One that hangs is not  *)
(* reported, and is in no place once it was halted.                        *)
OnePlace ==
  sc.crashed = "no" =>
    \A t \in Tasks :
      LET places == Queued(t) + Listed(t) + Running(t) + PutOff(t) + sc.done[t]
      IN IF progress[t] = "hung" THEN places <= 1 /\ sc.done[t] = 0
         ELSE places = (IF progress[t] = "idle" THEN 0 ELSE 1)

(* A task with nothing left to do is reported to its client.               *)
CompleteIsReported ==
  \A t \in Tasks :
    progress[t] = "finished" /\ sc.state[t] \intersect {"SP", "DP"} = {} =>
      sc.unkTask = t \/ sc.done[t] > 0

(* A client is told that its task is done only when both units have ended  *)
(* it ("checks to see if the task is complete").                           *)
ReportedIsDone ==
  sc.crashed = "no" =>
    \A t \in Tasks :
      sc.done[t] > 0 => progress[t] = "finished" /\ sc.rdp # t

(* Every task submitted is answered, those that come after a task that     *)
(* hangs and is halted included, unless the scheduler has stopped for good *)
(* on account of such a task.                                              *)
StoppedByHang ==
  sc.crashed \in {"screen", "told"} /\ \E t \in MayHang : progress[t] = "hung"

EveryTaskAnswered ==
  \A t \in Tasks :
    progress[t] # "idle" ~>
      (sc.done[t] > 0 \/ progress[t] = "hung" \/ StoppedByHang)

(* The scheduler keeps the promises of AbstractRcp: a client is told only  *)
(* when the hardware has really finished with its task, and once; two      *)
(* graphics tasks are never under way together.                            *)
HardwareLeft ==
  [t \in Tasks |->
     (IF progress[t] \in {"work", "synced", "hung"} THEN {"SP"} ELSE {})
       \union (IF t \in GfxTasks
                    /\ (progress[t] \in {"work", "hung"} \/ sc.rdp = t)
               THEN {"DP"} ELSE {})]

ClientState ==
  [t \in Tasks |-> IF progress[t] = "idle" THEN "idle"
                   ELSE IF sc.done[t] > 0 THEN "answered" ELSE "waiting"]

Rcp == INSTANCE AbstractRcp WITH left <- HardwareLeft, client <- ClientState

RcpSpec == Rcp!Spec
=============================================================================
