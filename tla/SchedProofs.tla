---------------------------- MODULE SchedProofs -----------------------------
(***************************************************************************)
(* Proofs about the RCP scheduler, for any audio tasks, any frame of       *)
(* graphics tasks and any watchdog, as long as no task runs into it.       *)
(*                                                                         *)
(* The handlers are functions of the scheduler's state s.  What they meet  *)
(* beside it is gathered in a record h: how often each task is still on    *)
(* its way to the scheduler, how many ends of the RSP's and the RDP's work *)
(* are, how far the hardware is with each task, and whether a swap is      *)
(* pending.  First how the pieces of a handler keep the books, then the    *)
(* handlers, the hardware and the clients, and last what follows.          *)
(***************************************************************************)
EXTENDS Sched, FiniteSetTheorems, SequenceTheorems, FunctionTheorems, WellFoundedInduction, TLAPS

-----------------------------------------------------------------------------
(* The books.                                                              *)

\* The assumption of the theorems: every task ends before the watchdog halts
\* it.
Punctual == MayBeLate = {} /\ MayHang = {}

Envs ==
  [w : [Tasks -> Nat], sp : Nat, dp : Nat,
   prog : [Tasks -> {"idle", "work", "synced", "finished"}], swap : BOOLEAN]

Env ==
  [w |-> [t \in Tasks |-> Queued(t)],
   sp |-> Count(interruptQ, RSP_DONE_MSG), dp |-> Count(interruptQ, RDP_DONE_MSG),
   prog |-> progress, swap |-> swapPending]

In(s, t) == Count(s.audioList, t) + Count(s.gfxList, t)

Runs(s, t) == IF s.curRSP = t \/ (s.curRDP = t /\ In(s, t) = 0) THEN 1 ELSE 0

Places(s, h, t) ==
  h.w[t] + In(s, t) + Runs(s, t) + (IF s.unkTask = t THEN 1 ELSE 0) + s.done[t]

\* The RSP ends every graphics task before the RDP does, and a frame has one
\* last task: then no task is lost.
Exact == ~SyncEarly /\ \A t, u \in LastTasks : t = u

\* A task is in at most one place, and in one if nothing can be lost.
OncePlaced(s, h) ==
  \A t \in Tasks :
    /\ Places(s, h, t) <= (IF h.prog[t] = "idle" THEN 0 ELSE 1)
    /\ Exact => Places(s, h, t) = (IF h.prog[t] = "idle" THEN 0 ELSE 1)

\* A graphics task that the RSP has begun: it has the RDP until that has ended.
Begun(s, h, t) ==
  /\ t \in GfxTasks /\ ~h.swap
  /\ "DP" \in s.state[t] <=> s.curRDP = t
  /\ h.prog[t] = "work" => "DP" \in s.state[t]
  /\ s.curRDP \in {NoTask, t}
  /\ ~SyncEarly => s.curRDP = t

RspSide(s, h) ==
  /\ s.rsp # NoTask => s.rsp = s.curRSP
  /\ h.sp = IF s.curRSP # NoTask /\ s.rsp = NoTask THEN 1 ELSE 0
  /\ \A t \in Tasks : s.curRSP = t =>
       /\ "SP" \in s.state[t] /\ "YIELDED" \notin s.state[t]
       /\ s.rsp = t =>
            h.prog[t] \in {"work", "synced"} /\ (s.yieldSignal => "YIELD" \in s.state[t])
       /\ s.rsp = NoTask =>
            IF s.yielded THEN "YIELD" \in s.state[t] /\ h.prog[t] \in {"work", "synced"}
            ELSE h.prog[t] = "finished"
       /\ t \in AudioTasks => s.state[t] = {"SP"}
       /\ t \in GfxTasks => Begun(s, h, t)

RdpSide(s, h) ==
  /\ s.curRDP = NoTask => s.rdp = NoTask /\ h.dp = 0
  /\ \A t \in Tasks : s.curRDP = t =>
       /\ t \in GfxTasks /\ "DP" \in s.state[t] /\ s.rdp \in {NoTask, t}
       /\ h.dp + (IF s.rdp = NoTask THEN 0 ELSE 1) = (IF h.prog[t] = "work" THEN 0 ELSE 1)
       /\ s.curRSP # t /\ "YIELDED" \notin s.state[t] =>
            "SP" \notin s.state[t] /\ h.prog[t] = "finished"

\* A task that has yielded is the next one, and no other has begun.
YieldedSide(s, h) ==
  \A t \in Tasks : "YIELDED" \in s.state[t] =>
    /\ s.gfxList # <<>> /\ t = Head(s.gfxList)
    /\ "SP" \in s.state[t] /\ h.prog[t] \in {"work", "synced"}
    /\ s.curRSP \notin GfxTasks /\ Begun(s, h, t)

\* Who waits is untouched, and who is answered is finished.
ClientSide(s, h) ==
  /\ s.unkTask \in LastTasks \union {NoTask}
  /\ \A t \in Tasks :
       /\ h.w[t] > 0 => h.prog[t] = "work"
       /\ In(s, t) > 0 /\ "YIELDED" \notin s.state[t] =>
            h.prog[t] = "work" /\ s.state[t] = Needs(t)
       /\ h.prog[t] = "synced" => SyncEarly /\ (s.curRSP = t \/ "YIELDED" \in s.state[t])
       /\ s.unkTask = t \/ s.done[t] > 0 => h.prog[t] = "finished"

\* The books between two steps of a handler, and between two messages.
Mid(s, h) ==
  /\ s \in States /\ h \in Envs /\ s.crashed = "no"
  /\ OncePlaced(s, h) /\ RspSide(s, h) /\ RdpSide(s, h)
  /\ YieldedSide(s, h) /\ ClientSide(s, h)
  /\ s.doAudio => s.audioList # <<>>

Ok(s, h) ==
  /\ Mid(s, h)
  /\ s.doAudio => s.curRSP # NoTask
  /\ s.curRSP = NoTask => \A t \in Tasks : "YIELDED" \notin s.state[t]

\* No task is on the RSP or the RDP for longer than the watchdog lets it.
OnTime(s, v) ==
  /\ v \in 0 .. 1
  /\ s.curRSP # NoTask => s.rspCount + v <= WatchdogLimit
  /\ s.curRDP # NoTask => s.rdpCount + v <= WatchdogLimit

\* The RSP's end of a graphics task comes before the RDP's.
InSequence ==
  ~SyncEarly /\ sc.curRSP \in GfxTasks =>
    \A i, j \in DOMAIN interruptQ :
      interruptQ[i] = RSP_DONE_MSG /\ interruptQ[j] = RDP_DONE_MSG => i < j

\* The game submits the tasks of a frame in turn and waits for them in turn.
GameSide ==
  \A j \in DOMAIN Frame :
    (IF game.pc = "submit" THEN game.k <= j ELSE j < game.k) => progress[Frame[j]] = "idle"

\* No task hangs.
Progresses == [Tasks -> {"idle", "work", "synced", "finished"}]

Typed == TypeOK /\ progress \in Progresses

Inv ==
  /\ Typed
  /\ Ok(sc, Env)
  /\ OnTime(sc, Count(interruptQ, VIDEO_MSG))
  /\ InSequence
  /\ GameSide

-----------------------------------------------------------------------------
(* Numbers and counts.                                                     *)

\* A set of numbers that is not empty has a least one.
LEMMA LeastNumber ==
  ASSUME NEW I \in SUBSET Nat, I # {}
  PROVE  \E n \in I : \A i \in I : n <= i
  <1> DEFINE Less == {ij \in Nat \X Nat : ij[1] < ij[2]}
  <1>1. Less = OpToRel(<, Nat)
    BY Zenon DEF OpToRel
  <1>2. PICK i \in I : \A j \in I : ~(<<j, i>> \in Less)
    BY <1>1, NatLessThanWellFounded, WFMin, Zenon
  <1>3. ASSUME NEW j \in I PROVE i <= j
    <2>1. <<j, i>> \in Nat \X Nat => ~(<<j, i>>[1] < <<j, i>>[2])
      BY <1>2
    <2> QED BY <2>1
  <1> QED BY <1>3

\* How often x is in q.
LEMMA CountNat ==
  ASSUME NEW S, NEW q \in Seq(S), NEW x
  PROVE  /\ IsFiniteSet({i \in DOMAIN q : q[i] = x})
         /\ Count(q, x) \in Nat
         /\ Count(q, x) = 0 <=> \A i \in DOMAIN q : q[i] # x
  <1> DEFINE I == {i \in DOMAIN q : q[i] = x}
  <1>1. DOMAIN q = 1..Len(q) /\ Len(q) \in Nat
    OBVIOUS
  <1>2. IsFiniteSet(1..Len(q))
    BY <1>1, FS_Interval
  <1>3. IsFiniteSet(I)
    BY <1>1, <1>2, FS_Subset
  <1>4. Cardinality(I) \in Nat /\ (Cardinality(I) = 0 <=> I = {})
    BY <1>3, FS_CardinalityType, FS_EmptySet
  <1> QED BY <1>3, <1>4 DEF Count

LEMMA CountEmpty == ASSUME NEW x PROVE Count(<<>>, x) = 0
  <1>1. <<>> \in Seq({x})
    OBVIOUS
  <1> QED BY <1>1, CountNat, DOMAIN <<>> = {}

LEMMA CountAppend ==
  ASSUME NEW S, NEW q \in Seq(S), NEW e \in S, NEW x
  PROVE  Count(Append(q, e), x) = Count(q, x) + (IF e = x THEN 1 ELSE 0)
  <1> DEFINE I == {i \in DOMAIN q : q[i] = x}
             r == Append(q, e)
             J == {i \in DOMAIN r : r[i] = x}
             n == Len(q) + 1
  <1>1. /\ DOMAIN q = 1..Len(q) /\ Len(q) \in Nat /\ r \in Seq(S) /\ DOMAIN r = 1..n
        /\ \A i \in 1..Len(q) : r[i] = q[i]
        /\ r[n] = e
    OBVIOUS
  <1>2. IsFiniteSet(I) /\ Cardinality(I) \in Nat
    BY CountNat, FS_CardinalityType
  <1> HIDE DEF r
  <1>3. n \notin I /\ J = IF e = x THEN I \union {n} ELSE I
    BY <1>1
  <1>4. Cardinality(J) = Cardinality(I) + (IF e = x THEN 1 ELSE 0)
    <2> HIDE DEF I, J, n
    <2>1. Cardinality(I \union {n}) = Cardinality(I) + 1
      BY <1>2, <1>3, FS_AddElement
    <2> QED BY <1>2, <1>3, <2>1
  <1> QED BY <1>4 DEF Count, r

\* q is r with one more element in front.
LEMMA CountShift ==
  ASSUME NEW S, NEW q \in Seq(S), NEW r \in Seq(S), NEW x,
         Len(q) = Len(r) + 1, \A i \in 1..Len(r) : q[i + 1] = r[i]
  PROVE  Count(q, x) = Count(r, x) + (IF q[1] = x THEN 1 ELSE 0)
  <1> DEFINE I == {i \in DOMAIN r : r[i] = x}
             J == {i \in DOMAIN q : q[i] = x}
             K == J \ {1}
             f == [i \in I |-> i + 1]
  <1>1. /\ DOMAIN q = 1..Len(q) /\ DOMAIN r = 1..Len(r) /\ Len(r) \in Nat
    OBVIOUS
  <1>2. IsFiniteSet(I) /\ IsFiniteSet(J) /\ Cardinality(I) \in Nat /\ Cardinality(J) \in Nat
    BY CountNat, FS_CardinalityType
  <1>3. \A i \in I : i + 1 \in K
    BY <1>1
  <1>4. \A j \in K : j - 1 \in I
    <2> SUFFICES ASSUME NEW j \in K PROVE j - 1 \in I
      OBVIOUS
    <2>1. j \in 2..Len(q) /\ q[j] = x
      BY <1>1
    <2>2. j - 1 \in 1..Len(r) /\ (j - 1) + 1 = j
      BY <1>1, <2>1
    <2> QED BY <1>1, <2>1, <2>2
  <1>5. f \in Bijection(I, K)
    <2>1. f \in [I -> K]
      BY <1>3
    <2>2. \A i, j \in I : f[i] = f[j] => i = j
      BY <1>1
    <2>3. \A j \in K : \E i \in I : f[i] = j
      <3> SUFFICES ASSUME NEW j \in K PROVE f[j - 1] = j
        BY <1>4
      <3>1. j - 1 \in I /\ j \in Nat
        BY <1>1, <1>4
      <3> QED BY <3>1
    <2> HIDE DEF f, I, K
    <2> QED BY <2>1, <2>2, <2>3, Fun_IsBij
  <1>6. IsFiniteSet(K) /\ Cardinality(K) = Cardinality(I)
    <2>1. IsFiniteSet(K)
      BY <1>2, FS_Subset, K \subseteq J
    <2> HIDE DEF f, I, K
    <2> QED BY <1>2, <1>5, FS_Bijection DEF ExistsBijection
  <1>7. Cardinality(J) = Cardinality(I) + (IF q[1] = x THEN 1 ELSE 0)
    <2>1. 1 \in DOMAIN q
      BY <1>1
    <2>2. CASE q[1] = x
      <3>1. 1 \in J
        BY <2>1, <2>2
      <3> HIDE DEF I, J, f
      <3>2. Cardinality(K) = Cardinality(J) - 1
        BY <1>2, <3>1, FS_RemoveElement
      <3> QED BY <1>2, <1>6, <2>2, <3>2
    <2>3. CASE q[1] # x
      <3>1. K = J
        BY <2>3
      <3> HIDE DEF I, J, K
      <3> QED BY <1>2, <1>6, <2>3, <3>1
    <2> QED BY <2>2, <2>3
  <1> QED BY <1>7 DEF Count

LEMMA CountTail ==
  ASSUME NEW S, NEW q \in Seq(S), NEW x, q # <<>>
  PROVE  /\ Tail(q) \in Seq(S) /\ Head(q) \in S
         /\ Count(q, x) = Count(Tail(q), x) + (IF Head(q) = x THEN 1 ELSE 0)
  <1> DEFINE r == Tail(q)
  <1>1. /\ r \in Seq(S) /\ Head(q) \in S /\ Head(q) = q[1]
        /\ Len(q) = Len(r) + 1 /\ \A i \in 1..Len(r) : q[i + 1] = r[i]
    OBVIOUS
  <1> HIDE DEF r
  <1>2. Count(q, x) = Count(r, x) + (IF q[1] = x THEN 1 ELSE 0)
    BY <1>1, CountShift
  <1> QED BY <1>1, <1>2 DEF r

LEMMA CountInFront ==
  ASSUME NEW S, NEW q \in Seq(S), NEW e \in S, NEW x
  PROVE  /\ <<e>> \o q \in Seq(S) /\ <<e>> \o q # <<>> /\ Head(<<e>> \o q) = e
         /\ Count(<<e>> \o q, x) = Count(q, x) + (IF e = x THEN 1 ELSE 0)
  <1> DEFINE r == <<e>> \o q
  <1>1. /\ r \in Seq(S) /\ r # <<>> /\ Head(r) = e /\ r[1] = e
        /\ Len(r) = Len(q) + 1 /\ \A i \in 1..Len(q) : r[i + 1] = q[i]
    OBVIOUS
  <1> HIDE DEF r
  <1>2. Count(r, x) = Count(q, x) + (IF r[1] = x THEN 1 ELSE 0)
    BY <1>1, CountShift
  <1> QED BY <1>1, <1>2 DEF r

-----------------------------------------------------------------------------
(* The tasks that wait are taken over into the lists.                      *)

LEMMA KindsOfTask ==
  /\ Tasks = AudioTasks \union GfxTasks /\ AudioTasks \intersect GfxTasks = {}
  /\ NoTask \notin Tasks /\ LastTasks \subseteq GfxTasks
  /\ \A t \in AudioTasks : Needs(t) = {"SP"}
  /\ \A t \in GfxTasks : Needs(t) = {"SP", "DP"}
  BY SchedAssumption DEF Tasks, Needs

\* One task less is on its way.
Taken(h, t) == [h EXCEPT !.w[t] = @ - 1]

LEMMA InNat ==
  ASSUME NEW s \in States, NEW t \in Tasks
  PROVE  /\ In(s, t) \in Nat
         /\ In(s, t) = 0 <=> /\ \A i \in DOMAIN s.audioList : s.audioList[i] # t
                             /\ \A i \in DOMAIN s.gfxList : s.gfxList[i] # t
  <1>1. s.audioList \in Seq(AudioTasks) /\ s.gfxList \in Seq(GfxTasks)
    BY DEF States
  <1>2. /\ Count(s.audioList, t) \in Nat /\ Count(s.gfxList, t) \in Nat
        /\ Count(s.audioList, t) = 0 <=> \A i \in DOMAIN s.audioList : s.audioList[i] # t
        /\ Count(s.gfxList, t) = 0 <=> \A i \in DOMAIN s.gfxList : s.gfxList[i] # t
    BY <1>1, CountNat
  <1> QED BY <1>2 DEF In

LEMMA Accepted ==
  ASSUME NEW s \in States, NEW t \in Tasks
  PROVE  LET r == __scAppendList(s, t)
         IN /\ r \in States
            /\ r.state = [s.state EXCEPT ![t] = Needs(t)]
            /\ \A u \in Tasks : In(r, u) = In(s, u) + (IF u = t THEN 1 ELSE 0)
            /\ s.gfxList # <<>> => r.gfxList # <<>> /\ Head(r.gfxList) = Head(s.gfxList)
            /\ s.audioList # <<>> => r.audioList # <<>>
            /\ r.curRSP = s.curRSP /\ r.curRDP = s.curRDP /\ r.rsp = s.rsp /\ r.rdp = s.rdp
            /\ r.unkTask = s.unkTask /\ r.done = s.done /\ r.doAudio = s.doAudio
            /\ r.yieldSignal = s.yieldSignal /\ r.yielded = s.yielded
            /\ r.rspCount = s.rspCount /\ r.rdpCount = s.rdpCount /\ r.crashed = s.crashed
  <1> DEFINE r == __scAppendList(s, t)
  <1>0. s.audioList \in Seq(AudioTasks) /\ s.gfxList \in Seq(GfxTasks)
    BY DEF States
  <1>1. /\ r.audioList = IF t \in AudioTasks THEN Append(s.audioList, t) ELSE s.audioList
        /\ r.gfxList = IF t \in AudioTasks THEN s.gfxList ELSE Append(s.gfxList, t)
        /\ r.state = [s.state EXCEPT ![t] = Needs(t)]
    BY DEF States, __scAppendList
  <1>2. r \in States
    <2>1. /\ t \in AudioTasks => Append(s.audioList, t) \in Seq(AudioTasks)
          /\ t \notin AudioTasks => Append(s.gfxList, t) \in Seq(GfxTasks)
      BY <1>0, KindsOfTask
    <2>2. [s.state EXCEPT ![t] = Needs(t)] \in [Tasks -> SUBSET {"SP", "DP", "YIELD", "YIELDED"}]
      BY DEF States, Needs
    <2> QED BY <2>1, <2>2 DEF States, __scAppendList
  <1>3. ASSUME NEW u \in Tasks
        PROVE  In(r, u) = In(s, u) + (IF u = t THEN 1 ELSE 0)
    <2>1. Count(s.audioList, u) \in Nat /\ Count(s.gfxList, u) \in Nat
      BY <1>0, CountNat
    <2>2. CASE t \in AudioTasks
      <3>1. Count(r.audioList, u) = Count(s.audioList, u) + (IF t = u THEN 1 ELSE 0)
        BY <1>0, <1>1, <2>2, CountAppend
      <3> QED BY <1>1, <2>1, <2>2, <3>1 DEF In
    <2>3. CASE t \notin AudioTasks
      <3>1. t \in GfxTasks
        BY <2>3, KindsOfTask
      <3>2. Count(r.gfxList, u) = Count(s.gfxList, u) + (IF t = u THEN 1 ELSE 0)
        BY <1>0, <1>1, <2>3, <3>1, CountAppend
      <3> QED BY <1>1, <2>1, <2>3, <3>2 DEF In
    <2> QED BY <2>2, <2>3
  <1>4. /\ s.gfxList # <<>> => r.gfxList # <<>> /\ Head(r.gfxList) = Head(s.gfxList)
        /\ s.audioList # <<>> => r.audioList # <<>>
    BY <1>0, <1>1, KindsOfTask
  <1>5. /\ r.curRSP = s.curRSP /\ r.curRDP = s.curRDP /\ r.rsp = s.rsp /\ r.rdp = s.rdp
        /\ r.unkTask = s.unkTask /\ r.done = s.done /\ r.doAudio = s.doAudio
        /\ r.yieldSignal = s.yieldSignal /\ r.yielded = s.yielded
        /\ r.rspCount = s.rspCount /\ r.rdpCount = s.rdpCount /\ r.crashed = s.crashed
    BY DEF States, __scAppendList
  <1> HIDE DEF r
  <1> QED BY <1>1, <1>2, <1>3, <1>4, <1>5 DEF r

\* What a handler may do to the units: it gives the RSP a new task, but it does
\* not end one unless that one's end was reported, and the watch starts anew.
Follows(s, r) ==
  /\ r.rdp = s.rdp
  /\ r.curRSP # NoTask =>
       r.rspCount = 0 \/ (s.curRSP # NoTask /\ r.rspCount <= s.rspCount)
  /\ r.curRDP # NoTask =>
       r.rdpCount = 0 \/ (s.curRDP # NoTask /\ r.rdpCount <= s.rdpCount)
  /\ r.curRSP # NoTask /\ r.rsp = NoTask => r.curRSP = s.curRSP /\ s.rsp = NoTask

LEMMA FollowsOn ==
  ASSUME NEW s \in States, NEW r \in States, NEW q \in States,
         Follows(s, r), Follows(r, q)
  PROVE  Follows(s, q)
  <1>1. /\ s.rspCount \in Nat /\ r.rspCount \in Nat /\ q.rspCount \in Nat
        /\ s.rdpCount \in Nat /\ r.rdpCount \in Nat /\ q.rdpCount \in Nat
    BY DEF States
  <1> QED BY <1>1 DEF Follows

LEMMA TakenEnv ==
  ASSUME NEW h \in Envs, NEW t \in Tasks, h.w[t] > 0
  PROVE  /\ Taken(h, t) \in Envs
         /\ \A u \in Tasks : Taken(h, t).w[u] = h.w[u] - (IF u = t THEN 1 ELSE 0)
         /\ Taken(h, t).prog = h.prog /\ Taken(h, t).swap = h.swap
         /\ Taken(h, t).sp = h.sp /\ Taken(h, t).dp = h.dp
  <1>1. h.w \in [Tasks -> Nat] /\ h.w[t] - 1 \in Nat
    BY DEF Envs
  <1>2. [h.w EXCEPT ![t] = @ - 1] \in [Tasks -> Nat]
    BY <1>1
  <1> QED BY <1>1, <1>2 DEF Envs, Taken

LEMMA AcceptKeepsBooks ==
  ASSUME NEW s, NEW h, NEW t \in Tasks, Mid(s, h), h.w[t] > 0
  PROVE  LET r == __scAppendList(s, t)
         IN /\ Mid(r, Taken(h, t)) /\ Follows(s, r) /\ r.done = s.done
            /\ Ok(s, h) => Ok(r, Taken(h, t))
  <1> DEFINE r == __scAppendList(s, t)
             g == Taken(h, t)
  <1>1. s \in States /\ h \in Envs
    BY DEF Mid
  <1>2. /\ g \in Envs
        /\ \A u \in Tasks : g.w[u] = h.w[u] - (IF u = t THEN 1 ELSE 0)
        /\ g.prog = h.prog /\ g.swap = h.swap /\ g.sp = h.sp /\ g.dp = h.dp
    BY <1>1, TakenEnv
  <1>3. /\ r \in States
        /\ r.state = [s.state EXCEPT ![t] = Needs(t)]
        /\ \A u \in Tasks : In(r, u) = In(s, u) + (IF u = t THEN 1 ELSE 0)
        /\ s.gfxList # <<>> => r.gfxList # <<>> /\ Head(r.gfxList) = Head(s.gfxList)
        /\ s.audioList # <<>> => r.audioList # <<>>
        /\ r.curRSP = s.curRSP /\ r.curRDP = s.curRDP /\ r.rsp = s.rsp /\ r.rdp = s.rdp
        /\ r.unkTask = s.unkTask /\ r.done = s.done /\ r.doAudio = s.doAudio
        /\ r.yieldSignal = s.yieldSignal /\ r.yielded = s.yielded
        /\ r.rspCount = s.rspCount /\ r.rdpCount = s.rdpCount /\ r.crashed = s.crashed
    BY <1>1, Accepted
  <1> HIDE DEF r, g
  <1>4. /\ \A u \in Tasks : In(s, u) \in Nat /\ h.w[u] \in Nat /\ s.done[u] \in Nat
        /\ s.state \in [Tasks -> SUBSET {"SP", "DP", "YIELD", "YIELDED"}]
        /\ s.rspCount \in Nat /\ s.rdpCount \in Nat
    BY <1>1, InNat DEF States, Envs
  <1>5. /\ \A u \in Tasks : u # t => r.state[u] = s.state[u]
        /\ r.state[t] = Needs(t) /\ "YIELDED" \notin Needs(t)
    BY <1>3, <1>4, KindsOfTask DEF Tasks
  \* t waits: it is nowhere else.
  <1>6. /\ h.prog[t] = "work" /\ In(s, t) = 0 /\ s.curRSP # t /\ s.curRDP # t
        /\ s.unkTask # t /\ s.done[t] = 0
    <2>1. h.prog[t] = "work" /\ Places(s, h, t) <= 1
      BY DEF Mid, ClientSide, OncePlaced
    <2> QED BY <2>1, <1>4 DEF Places, Runs
  <1>7. \A u \in Tasks : Places(r, g, u) = Places(s, h, u)
    <2> SUFFICES ASSUME NEW u \in Tasks PROVE Places(r, g, u) = Places(s, h, u)
      OBVIOUS
    <2>1. Runs(r, u) = Runs(s, u)
      BY <1>3, <1>4, <1>6 DEF Runs
    <2>2. Runs(s, u) \in Nat
      BY DEF Runs
    <2>3. g.w[u] + In(r, u) = h.w[u] + In(s, u)
      BY <1>2, <1>3, <1>4
    <2>4. r.unkTask = s.unkTask /\ r.done[u] = s.done[u]
      BY <1>3
    <2> QED BY <2>1, <2>3, <2>4 DEF Places
  <1>8. OncePlaced(r, g)
    BY <1>2, <1>7 DEF Mid, OncePlaced
  <1>9. RspSide(r, g)
    <2>1. RspSide(s, h)
      BY DEF Mid
    <2> QED BY <2>1, <1>2, <1>3, <1>5, <1>6 DEF RspSide, Begun
  <1>10. RdpSide(r, g)
    BY <1>2, <1>3, <1>5, <1>6 DEF Mid, RdpSide
  <1>11. YieldedSide(r, g)
    BY <1>2, <1>3, <1>5, <1>6 DEF Mid, YieldedSide, Begun
  <1>12. ClientSide(r, g)
    BY <1>2, <1>3, <1>4, <1>5, <1>6 DEF Mid, ClientSide
  <1>13. Mid(r, g)
    BY <1>2, <1>3, <1>8, <1>9, <1>10, <1>11, <1>12 DEF Mid
  <1>14. Ok(s, h) => Ok(r, g)
    BY <1>3, <1>5, <1>13 DEF Ok
  <1>15. Follows(s, r)
    BY <1>3, <1>4 DEF Follows
  <1> QED BY <1>3, <1>13, <1>14, <1>15 DEF r, g

\* The sequence of states that AppendAll goes through.
After(f, s, tasks, n) ==
  f = [k \in 0 .. n |-> IF k = 0 THEN s ELSE __scAppendList(f[k - 1], tasks[k])]

LEMMA AfterExists ==
  ASSUME NEW s, NEW tasks, NEW n \in Nat
  PROVE  \E f : After(f, s, tasks, n)
  <1> DEFINE I == {m \in Nat : ~\E f : After(f, s, tasks, m)}
  <1>1. SUFFICES ASSUME I # {} PROVE FALSE
    OBVIOUS
  <1>2. PICK m \in I : \A i \in I : m <= i
    BY <1>1, LeastNumber
  <1>3. CASE m = 0
    <2> DEFINE f == [k \in 0 .. 0 |-> s]
    <2>1. f = [k \in 0 .. 0 |-> IF k = 0 THEN s ELSE __scAppendList(f[k - 1], tasks[k])]
      OBVIOUS
    <2> QED BY <1>3, <2>1 DEF After
  <1>4. CASE m # 0
    <2>1. m - 1 \in Nat /\ m - 1 \notin I
      BY <1>2, <1>4
    <2>2. PICK f : After(f, s, tasks, m - 1)
      BY <2>1
    <2> DEFINE g == [k \in 0 .. m |-> IF k < m THEN f[k]
                                      ELSE __scAppendList(f[m - 1], tasks[m])]
    <2>3. ASSUME NEW k \in 0 .. m
          PROVE  g[k] = IF k = 0 THEN s ELSE __scAppendList(g[k - 1], tasks[k])
      <3>1. k < m => f[k] = IF k = 0 THEN s ELSE __scAppendList(f[k - 1], tasks[k])
        <4>1. k < m => k \in 0 .. m - 1
          OBVIOUS
        <4> QED BY <2>2, <4>1 DEF After
      <3>2. k # 0 => k - 1 \in 0 .. m /\ k - 1 < m
        OBVIOUS
      <3>3. k # 0 => g[k - 1] = f[k - 1]
        BY <3>2
      <3>4. g[k] = IF k < m THEN f[k] ELSE __scAppendList(f[m - 1], tasks[m])
        OBVIOUS
      <3> HIDE DEF g
      <3>5. CASE k < m
        BY <3>1, <3>3, <3>4, <3>5
      <3>6. CASE ~(k < m)
        <4>1. k = m /\ k # 0
          BY <1>4, <3>6
        <4> QED BY <3>3, <3>4, <3>6, <4>1
      <3> QED BY <3>5, <3>6
    <2>4. g = [k \in 0 .. m |-> IF k = 0 THEN s ELSE __scAppendList(g[k - 1], tasks[k])]
      <3>1. g = [k \in 0 .. m |-> g[k]]
        OBVIOUS
      <3> HIDE DEF g
      <3> QED BY <2>3, <3>1, Zenon
    <2> HIDE DEF g
    <2>5. After(g, s, tasks, m)
      BY <2>4 DEF After
    <2> QED BY <1>2, <2>5
  <1> QED BY <1>3, <1>4

LEMMA AppendAllIsAfter ==
  ASSUME NEW s, NEW tasks, Len(tasks) \in Nat
  PROVE  \E f : After(f, s, tasks, Len(tasks)) /\ AppendAll(s, tasks) = f[Len(tasks)]
  <1> DEFINE f == CHOOSE f : After(f, s, tasks, Len(tasks))
  <1>1. After(f, s, tasks, Len(tasks))
    BY AfterExists
  <1>2. AppendAll(s, tasks) = f[Len(tasks)]
    BY DEF AppendAll, After
  <1> QED BY <1>1, <1>2

\* The tasks of cmdQ after the k-th.
Still(tasks, k, t) == Cardinality({j \in DOMAIN tasks : j > k /\ tasks[j] = t})

LEMMA StillCounts ==
  ASSUME NEW tasks \in Seq(Tasks), NEW t
  PROVE  /\ \A k \in 0 .. Len(tasks) : Still(tasks, k, t) \in Nat
         /\ Still(tasks, 0, t) = Count(tasks, t)
         /\ Still(tasks, Len(tasks), t) = 0
         /\ \A k \in 1 .. Len(tasks) :
              Still(tasks, k - 1, t) = Still(tasks, k, t) + (IF tasks[k] = t THEN 1 ELSE 0)
  <1> DEFINE I(k) == {j \in DOMAIN tasks : j > k /\ tasks[j] = t}
  <1>1. DOMAIN tasks = 1..Len(tasks) /\ Len(tasks) \in Nat
    OBVIOUS
  <1>2. ASSUME NEW k \in 0 .. Len(tasks)
        PROVE  IsFiniteSet(I(k)) /\ Cardinality(I(k)) \in Nat
    <2>1. IsFiniteSet(1..Len(tasks)) /\ I(k) \subseteq 1..Len(tasks)
      BY <1>1, FS_Interval
    <2> HIDE DEF I
    <2> QED BY <2>1, FS_Subset, FS_CardinalityType
  <1>3. I(0) = {j \in DOMAIN tasks : tasks[j] = t} /\ I(Len(tasks)) = {}
    BY <1>1
  <1>4. ASSUME NEW k \in 1 .. Len(tasks)
        PROVE  Cardinality(I(k - 1)) = Cardinality(I(k)) + (IF tasks[k] = t THEN 1 ELSE 0)
    <2>1. k \in 0 .. Len(tasks) /\ k \notin I(k)
      BY <1>1
    <2>2. I(k - 1) = IF tasks[k] = t THEN I(k) \union {k} ELSE I(k)
      BY <1>1
    <2>3. IsFiniteSet(I(k)) /\ Cardinality(I(k)) \in Nat
      BY <1>2, <2>1
    <2> HIDE DEF I
    <2>4. Cardinality(I(k) \union {k}) = Cardinality(I(k)) + 1
      BY <2>1, <2>3, FS_AddElement
    <2> QED BY <2>2, <2>3, <2>4
  <1>5. Cardinality({}) = 0
    BY FS_EmptySet
  <1> HIDE DEF I
  <1>6. /\ \A k : Still(tasks, k, t) = Cardinality(I(k))
        /\ Count(tasks, t) = Cardinality({j \in DOMAIN tasks : tasks[j] = t})
    BY DEF Still, I, Count
  <1> QED BY <1>2, <1>3, <1>4, <1>5, <1>6

\* The environment when all of them have been taken.
AllTaken(h, tasks) == [h EXCEPT !.w = [t \in Tasks |-> h.w[t] - Count(tasks, t)]]

LEMMA AcceptAllKeepsBooks ==
  ASSUME NEW s, NEW h, NEW tasks \in Seq(Tasks), Mid(s, h),
         \A t \in Tasks : Count(tasks, t) <= h.w[t]
  PROVE  LET r == AppendAll(s, tasks)
         IN Mid(r, AllTaken(h, tasks)) /\ Follows(s, r) /\ r.done = s.done
  <1> DEFINE n == Len(tasks)
             v(k) == [t \in Tasks |-> h.w[t] - Count(tasks, t) + Still(tasks, k, t)]
             g(k) == [h EXCEPT !.w = v(k)]
  <1>1. n \in Nat /\ s \in States /\ h \in Envs /\ h.w \in [Tasks -> Nat]
    BY DEF Mid, Envs
  <1>2. \A t \in Tasks : /\ Count(tasks, t) \in Nat
                         /\ \A k \in 0 .. n : Still(tasks, k, t) \in Nat
                         /\ Still(tasks, 0, t) = Count(tasks, t)
                         /\ Still(tasks, n, t) = 0
    BY CountNat, StillCounts
  <1>3. PICK f : After(f, s, tasks, n) /\ AppendAll(s, tasks) = f[n]
    BY <1>1, AppendAllIsAfter
  <1> DEFINE Good(k) == Mid(f[k], g(k)) /\ Follows(s, f[k]) /\ f[k].done = s.done
  <1>4. Good(0)
    <2>1. f[0] = s
      BY <1>1, <1>3 DEF After
    <2>2. [t \in Tasks |-> h.w[t] - Count(tasks, t) + Still(tasks, 0, t)] = h.w
      <3>1. \A t \in Tasks : h.w[t] - Count(tasks, t) + Still(tasks, 0, t) = h.w[t]
        BY <1>1, <1>2
      <3> QED BY <1>1, <3>1
    <2>3. g(0) = h
      BY <1>1, <2>2 DEF Envs
    <2>4. Follows(s, s)
      BY <1>1 DEF Follows, States
    <2> QED BY <2>1, <2>3, <2>4
  <1>5. ASSUME NEW k \in 1 .. n, Good(k - 1) PROVE Good(k)
    <2>1. k \in 0 .. n /\ k - 1 \in 0 .. n /\ k # 0 /\ tasks[k] \in Tasks
      BY <1>1
    <2>2. f[k] = __scAppendList(f[k - 1], tasks[k])
      BY <1>3, <2>1 DEF After
    <2>3. \A t \in Tasks :
            /\ v(k - 1)[t] = h.w[t] - Count(tasks, t) + Still(tasks, k - 1, t)
            /\ v(k)[t] = h.w[t] - Count(tasks, t) + Still(tasks, k, t)
            /\ Still(tasks, k - 1, t) = Still(tasks, k, t) + (IF tasks[k] = t THEN 1 ELSE 0)
            /\ Still(tasks, k, t) \in Nat /\ Count(tasks, t) \in Nat /\ h.w[t] \in Nat
            /\ Count(tasks, t) <= h.w[t]
      BY <1>1, <1>2, <2>1, StillCounts
    <2>4. /\ v(k - 1) = [t \in Tasks |-> v(k - 1)[t]]
          /\ v(k) = [t \in Tasks |-> v(k)[t]]
      OBVIOUS
    <2>5. g(k - 1).w = v(k - 1) /\ g(k - 1) = [h EXCEPT !.w = v(k - 1)]
      BY <1>1 DEF Envs
    <2> HIDE DEF v
    <2>6. \A t \in Tasks :
            v(k)[t] \in Nat /\ v(k - 1)[t] = v(k)[t] + (IF tasks[k] = t THEN 1 ELSE 0)
      <3> SUFFICES ASSUME NEW t \in Tasks
                   PROVE  /\ v(k)[t] \in Nat
                          /\ v(k - 1)[t] = v(k)[t] + (IF tasks[k] = t THEN 1 ELSE 0)
        OBVIOUS
      <3> DEFINE a == h.w[t]
                 b == Count(tasks, t)
                 c == Still(tasks, k, t)
                 d == Still(tasks, k - 1, t)
      <3>1. /\ v(k - 1)[t] = a - b + d /\ v(k)[t] = a - b + c
            /\ d = c + (IF tasks[k] = t THEN 1 ELSE 0)
            /\ a \in Nat /\ b \in Nat /\ c \in Nat /\ b <= a
        BY <2>3
      <3> HIDE DEF a, b, c, d
      <3> QED BY <3>1
    <2>7. v(k - 1)[tasks[k]] > 0
      BY <2>1, <2>6
    <2>8. [v(k - 1) EXCEPT ![tasks[k]] = @ - 1] = v(k)
      <3> DEFINE a == [v(k - 1) EXCEPT ![tasks[k]] = @ - 1]
      <3>1. a = [t \in Tasks |-> IF t = tasks[k] THEN v(k - 1)[t] - 1 ELSE v(k - 1)[t]]
        BY <2>4
      <3>2. \A t \in Tasks : a[t] = v(k)[t]
        BY <2>6, <3>1
      <3> HIDE DEF a
      <3> QED BY <2>4, <3>1, <3>2
    <2>9. g(k) = Taken(g(k - 1), tasks[k])
      BY <1>1, <2>5, <2>8 DEF Envs, Taken
    <2> HIDE DEF g
    <2>10. /\ Mid(f[k], g(k)) /\ Follows(f[k - 1], f[k]) /\ f[k].done = f[k - 1].done
      BY <1>5, <2>1, <2>2, <2>5, <2>7, <2>9, AcceptKeepsBooks
    <2>11. Follows(s, f[k])
      BY <1>1, <1>5, <2>10, FollowsOn DEF Mid
    <2> QED BY <1>5, <2>10, <2>11
  <1>6. Good(n)
    <2> HIDE DEF Good
    <2> DEFINE I == {k \in 0 .. n : ~Good(k)}
    <2>0. I \in SUBSET Nat
      BY <1>1
    <2>1. SUFFICES ASSUME I # {} PROVE FALSE
      BY <1>1
    <2>2. PICK k \in I : \A j \in I : k <= j
      BY <2>0, <2>1, LeastNumber, Zenon
    <2>3. k \in 1 .. n
      BY <1>1, <1>4, <2>2
    <2>4. k - 1 \in 0 .. n /\ k - 1 \notin I
      BY <1>1, <2>2, <2>3
    <2> QED BY <1>5, <2>2, <2>3, <2>4
  <1>7. g(n) = AllTaken(h, tasks)
    <2>1. \A t \in Tasks : h.w[t] - Count(tasks, t) + Still(tasks, n, t) = h.w[t] - Count(tasks, t)
      BY <1>1, <1>2
    <2>2. [t \in Tasks |-> h.w[t] - Count(tasks, t) + Still(tasks, n, t)]
            = [t \in Tasks |-> h.w[t] - Count(tasks, t)]
      BY <2>1
    <2> QED BY <2>2 DEF AllTaken
  <1> HIDE DEF g, v
  <1> QED BY <1>3, <1>6, <1>7

-----------------------------------------------------------------------------
(* Choosing what to run.                                                   *)

\* What __scSchedule and __scExec make of s: audio, a yielded task or a fresh one
\* is started, or nothing.
AudioNext(s) == s.doAudio /\ s.curRSP = NoTask
GfxNext(s) ==
  ~AudioNext(s) /\ s.curRSP = NoTask /\ s.gfxList # <<>> /\ ~swapPending
YieldedNext(s) == GfxNext(s) /\ "YIELDED" \in s.state[Head(s.gfxList)]
FreshNext(s) ==
  GfxNext(s) /\ "YIELDED" \notin s.state[Head(s.gfxList)] /\ s.curRDP = NoTask

AudioStarted(s, dp) ==
  __scExec([s EXCEPT !.doAudio = FALSE, !.audioList = Tail(@)], Head(s.audioList), dp)
GfxStarted(s, dp) ==
  __scExec([s EXCEPT !.gfxList = Tail(@)], Head(s.gfxList), dp)

LEMMA DispatchCases ==
  ASSUME NEW s \in States, NEW dp0
  PROVE  LET d == Dispatch(s, dp0)
             t == Head(s.gfxList)
         IN /\ AudioNext(s) => d = [s |-> AudioStarted(s, dp0), dp |-> dp0]
            /\ YieldedNext(s) =>
                 d = [s |-> GfxStarted(s, IF "DP" \in s.state[t] THEN t ELSE dp0),
                      dp |-> IF "DP" \in s.state[t] THEN t ELSE dp0]
            /\ FreshNext(s) => d = [s |-> GfxStarted(s, t), dp |-> t]
            /\ ~(AudioNext(s) \/ YieldedNext(s) \/ FreshNext(s)) => d = [s |-> s, dp |-> dp0]
  <1> DEFINE from == [s |-> s, sp |-> NoTask, dp |-> dp0, avail |-> Available(s)]
             to == Choose(Choose(from))
             t == Head(s.gfxList)
  <1>0. /\ s.gfxList \in Seq(GfxTasks)
        /\ s.gfxList # <<>> => t \in Tasks /\ t # NoTask /\ HeadOf(s.gfxList) = t
        /\ s.gfxList = <<>> => HeadOf(s.gfxList) = NoTask
    BY KindsOfTask DEF States, HeadOf
  <1>1. /\ "SP" \in Available(s) <=> s.curRSP = NoTask
        /\ "DP" \in Available(s) <=> s.curRDP = NoTask
        /\ Available(s) \subseteq {"SP", "DP"}
    BY DEF Available
  <1>2. Dispatch(s, dp0) = [s  |-> IF to.avail = from.avail THEN s
                                   ELSE __scExec(to.s, to.sp, to.dp),
                            dp |-> to.dp]
    BY DEF Dispatch, __scSchedule
  <1>3. CASE AudioNext(s)
    <2> DEFINE c == [s |-> [s EXCEPT !.doAudio = FALSE, !.audioList = Tail(@)],
                     sp |-> Head(s.audioList), dp |-> dp0, avail |-> Available(s) \ {"SP"}]
    <2>1. Choose(from) = c
      BY <1>1, <1>3 DEF Choose, ChooseAudio, AudioNext, States
    <2>2. Choose(c) = c
      <3>1. "SP" \notin c.avail /\ c.avail # {"SP", "DP"}
        OBVIOUS
      <3> HIDE DEF c
      <3> QED BY <3>1 DEF Choose
    <2>3. to.avail # from.avail
      BY <1>1, <1>3, <2>1, <2>2 DEF AudioNext
    <2> QED BY <1>2, <1>3, <2>1, <2>2, <2>3 DEF AudioStarted, AudioNext, GfxNext, YieldedNext, FreshNext
  <1>4. CASE YieldedNext(s)
    <2> DEFINE c == [s |-> [s EXCEPT !.gfxList = Tail(@)], sp |-> t,
                     dp |-> IF "DP" \in s.state[t] THEN t ELSE dp0,
                     avail |-> Available(s) \ ({"SP"} \union (s.state[t] \intersect {"DP"}))]
    <2>1. Choose(from) = c
      BY <1>0, <1>1, <1>4
         DEF Choose, ChooseYielded, __scTaskReady, AudioNext, GfxNext, YieldedNext, States
    <2>2. Choose(c) = c
      <3>1. "SP" \notin c.avail /\ c.avail # {"SP", "DP"}
        OBVIOUS
      <3> HIDE DEF c
      <3> QED BY <3>1 DEF Choose
    <2>3. to.avail # from.avail
      BY <1>1, <1>4, <2>1, <2>2 DEF YieldedNext, GfxNext
    <2>4. /\ to.s = [s EXCEPT !.gfxList = Tail(@)] /\ to.sp = t
          /\ to.dp = IF "DP" \in s.state[t] THEN t ELSE dp0
      <3>1. to = c
        <4> HIDE DEF from, c
        <4> QED BY <2>1, <2>2
      <3> HIDE DEF to
      <3> QED BY <3>1
    <2> HIDE DEF to, from, c
    <2>5. Dispatch(s, dp0) = [s |-> GfxStarted(s, to.dp), dp |-> to.dp]
      BY <1>2, <2>3, <2>4 DEF GfxStarted
    <2> QED BY <1>4, <2>4, <2>5 DEF AudioNext, GfxNext, YieldedNext, FreshNext
  <1>5. CASE FreshNext(s)
    <2> DEFINE c == [s |-> [s EXCEPT !.gfxList = Tail(@)], sp |-> t, dp |-> t, avail |-> {}]
    <2>0. Available(s) = {"SP", "DP"}
      BY <1>1, <1>5 DEF FreshNext, GfxNext
    <2>1. Choose(from) = c
      BY <1>0, <1>5, <2>0
         DEF Choose, ChooseFresh, __scTaskReady, AudioNext, GfxNext, FreshNext, States
    <2>2. Choose(c) = c
      <3>1. "SP" \notin c.avail /\ c.avail # {"SP", "DP"}
        OBVIOUS
      <3> HIDE DEF c
      <3> QED BY <3>1 DEF Choose
    <2>3. to.avail # from.avail
      BY <2>0, <2>1, <2>2
    <2>4. to.s = [s EXCEPT !.gfxList = Tail(@)] /\ to.sp = t /\ to.dp = t
      <3>1. to = c
        <4> HIDE DEF from, c
        <4> QED BY <2>1, <2>2
      <3> HIDE DEF to
      <3> QED BY <3>1
    <2> HIDE DEF to, from, c
    <2>5. Dispatch(s, dp0) = [s |-> GfxStarted(s, t), dp |-> t]
      BY <1>2, <2>3, <2>4 DEF GfxStarted
    <2> QED BY <1>5, <2>5 DEF AudioNext, GfxNext, YieldedNext, FreshNext
  <1>6. CASE ~(AudioNext(s) \/ YieldedNext(s) \/ FreshNext(s))
    <2>1. Choose(from) = from
      <3>1. ~(s.doAudio /\ "SP" \in Available(s))
        BY <1>1, <1>6 DEF AudioNext
      <3>2. __scTaskReady(HeadOf(s.gfxList)) => s.gfxList # <<>> /\ ~swapPending
        BY <1>0 DEF __scTaskReady
      <3>3. __scTaskReady(HeadOf(s.gfxList)) =>
              /\ ~("YIELDED" \in s.state[t] /\ "SP" \in Available(s))
              /\ ~("YIELDED" \notin s.state[t] /\ Available(s) = {"SP", "DP"})
        BY <1>0, <1>1, <1>6, <3>2 DEF AudioNext, GfxNext, YieldedNext, FreshNext
      <3> QED BY <1>0, <3>1, <3>2, <3>3 DEF Choose
    <2>2. to = from
      BY <2>1
    <2> QED BY <1>2, <1>6, <2>2
  <1> QED BY <1>3, <1>4, <1>5, <1>6

\* What starting t does beside taking it off its list; r is the result.
Starts(s, r, t, withRdp) ==
  /\ r \in States
  /\ r.state = [s.state EXCEPT ![t] = @ \ {"YIELD", "YIELDED"}]
  /\ \A u \in Tasks : In(s, u) = In(r, u) + (IF u = t THEN 1 ELSE 0)
  /\ r.curRSP = t /\ r.rsp = t /\ ~r.yieldSignal
  /\ r.curRDP = IF withRdp THEN t ELSE s.curRDP
  /\ r.rspCount = 0 /\ r.rdpCount = 0
  /\ r.rdp = s.rdp /\ r.unkTask = s.unkTask /\ r.done = s.done /\ r.crashed = s.crashed

LEMMA AudioStarts ==
  ASSUME NEW s \in States, s.audioList # <<>>
  PROVE  LET r == AudioStarted(s, NoTask)
             t == Head(s.audioList)
         IN /\ t \in AudioTasks
            /\ Starts(s, r, t, FALSE) /\ r.gfxList = s.gfxList /\ ~r.doAudio
  <1> DEFINE r == AudioStarted(s, NoTask)
             t == Head(s.audioList)
  <1>1. s.audioList \in Seq(AudioTasks) /\ s.gfxList \in Seq(GfxTasks)
    BY DEF States
  <1>2. Tail(s.audioList) \in Seq(AudioTasks) /\ t \in AudioTasks /\ t \in Tasks
    BY <1>1, CountTail DEF Tasks
  <1>3. [s.state EXCEPT ![t] = @ \ {"YIELD", "YIELDED"}]
          \in [Tasks -> SUBSET {"SP", "DP", "YIELD", "YIELDED"}]
    BY <1>2 DEF States
  <1>4. r \in States
    BY <1>2, <1>3 DEF AudioStarted, __scExec, States, TaskOrNone
  <1>5. /\ r.state = [s.state EXCEPT ![t] = @ \ {"YIELD", "YIELDED"}]
        /\ r.curRSP = t /\ r.rsp = t /\ ~r.yieldSignal
        /\ r.curRDP = s.curRDP
        /\ r.rspCount = 0 /\ r.rdpCount = 0
        /\ r.rdp = s.rdp /\ r.unkTask = s.unkTask /\ r.done = s.done
        /\ r.crashed = s.crashed /\ ~r.doAudio
        /\ r.gfxList = s.gfxList /\ r.audioList = Tail(s.audioList)
    BY DEF AudioStarted, __scExec, States
  <1> HIDE DEF r
  <1>6. ASSUME NEW u \in Tasks
        PROVE  In(s, u) = In(r, u) + (IF u = t THEN 1 ELSE 0)
    <2>1. s.audioList # <<>>
      OBVIOUS
    <2>2. Count(s.audioList, u) = Count(Tail(s.audioList), u) + (IF t = u THEN 1 ELSE 0)
      BY <1>1, <2>1, CountTail
    <2>3. Count(Tail(s.audioList), u) \in Nat /\ Count(s.gfxList, u) \in Nat
      BY <1>1, <1>2, CountNat
    <2> QED BY <1>5, <2>2, <2>3 DEF In
  <1> QED BY <1>2, <1>4, <1>5, <1>6 DEF Starts, r

LEMMA GfxStarts ==
  ASSUME NEW s \in States, s.gfxList # <<>>, NEW withRdp \in BOOLEAN
  PROVE  LET t == Head(s.gfxList)
             r == GfxStarted(s, IF withRdp THEN t ELSE NoTask)
         IN /\ t \in GfxTasks
            /\ Starts(s, r, t, withRdp) /\ r.audioList = s.audioList /\ r.doAudio = s.doAudio
  <1> DEFINE t == Head(s.gfxList)
             dp == IF withRdp THEN t ELSE NoTask
             r == GfxStarted(s, dp)
  <1>1. s.audioList \in Seq(AudioTasks) /\ s.gfxList \in Seq(GfxTasks)
    BY DEF States
  <1>2. Tail(s.gfxList) \in Seq(GfxTasks) /\ t \in GfxTasks /\ t \in Tasks /\ t # NoTask
    BY <1>1, CountTail, KindsOfTask
  <1>3. [s.state EXCEPT ![t] = @ \ {"YIELD", "YIELDED"}]
          \in [Tasks -> SUBSET {"SP", "DP", "YIELD", "YIELDED"}]
    BY <1>2 DEF States
  <1>4. dp \in {NoTask, t} /\ (dp = NoTask <=> ~withRdp)
    BY <1>2
  <1>5. r \in States
    BY <1>2, <1>3, <1>4 DEF GfxStarted, __scExec, States, TaskOrNone
  <1>6. /\ r.state = [s.state EXCEPT ![t] = @ \ {"YIELD", "YIELDED"}]
        /\ r.curRSP = t /\ r.rsp = t /\ ~r.yieldSignal
        /\ r.curRDP = IF dp = NoTask THEN s.curRDP ELSE dp
        /\ r.rspCount = 0 /\ r.rdpCount = 0
        /\ r.rdp = s.rdp /\ r.unkTask = s.unkTask /\ r.done = s.done
        /\ r.crashed = s.crashed /\ r.doAudio = s.doAudio
        /\ r.audioList = s.audioList /\ r.gfxList = Tail(s.gfxList)
    <2> HIDE DEF t, dp
    <2> QED BY <1>4 DEF GfxStarted, __scExec, States, t
  <1> HIDE DEF r
  <1>7. ASSUME NEW u \in Tasks
        PROVE  In(s, u) = In(r, u) + (IF u = t THEN 1 ELSE 0)
    <2>1. s.gfxList # <<>>
      OBVIOUS
    <2>2. Count(s.gfxList, u) = Count(Tail(s.gfxList), u) + (IF t = u THEN 1 ELSE 0)
      BY <1>1, <2>1, CountTail
    <2>3. Count(Tail(s.gfxList), u) \in Nat /\ Count(s.audioList, u) \in Nat
      BY <1>1, <1>2, CountNat
    <2> QED BY <1>6, <2>2, <2>3 DEF In
  <1> QED BY <1>2, <1>4, <1>5, <1>6, <1>7 DEF Starts, r

\* A task on a list is nowhere else, but the RDP may be its own.
LEMMA ListedOnly ==
  ASSUME NEW s, NEW h, NEW t \in Tasks, Mid(s, h), In(s, t) > 0
  PROVE  /\ In(s, t) = 1 /\ h.w[t] = 0 /\ s.curRSP # t /\ s.unkTask # t /\ s.done[t] = 0
         /\ Runs(s, t) = 0 /\ h.prog[t] # "idle"
  <1>1. In(s, t) \in Nat /\ h.w[t] \in Nat /\ s.done[t] \in Nat /\ Runs(s, t) \in 0 .. 1
    <2>1. s \in States /\ h \in Envs
      BY DEF Mid
    <2>2. In(s, t) \in Nat
      BY <2>1, InNat
    <2>3. h.w[t] \in Nat /\ s.done[t] \in Nat
      BY <2>1 DEF States, Envs
    <2>4. Runs(s, t) \in 0 .. 1
      BY DEF Runs
    <2> QED BY <2>2, <2>3, <2>4
  <1>2. Places(s, h, t) <= (IF h.prog[t] = "idle" THEN 0 ELSE 1)
    BY DEF Mid, OncePlaced
  <1>3. /\ In(s, t) = 1 /\ h.w[t] = 0 /\ s.unkTask # t /\ s.done[t] = 0
        /\ Runs(s, t) = 0 /\ h.prog[t] # "idle"
    BY <1>1, <1>2 DEF Places
  <1> QED BY <1>3 DEF Runs

LEMMA MidTypes ==
  ASSUME NEW s, NEW h, Mid(s, h)
  PROVE  /\ s \in States /\ h \in Envs
         /\ \A t \in Tasks : /\ In(s, t) \in Nat /\ h.w[t] \in Nat /\ s.done[t] \in Nat
                             /\ Runs(s, t) \in 0 .. 1
         /\ s.state \in [Tasks -> SUBSET {"SP", "DP", "YIELD", "YIELDED"}]
         /\ s.done \in [Tasks -> Nat]
         /\ s.rspCount \in Nat /\ s.rdpCount \in Nat
         /\ s.curRSP \in Tasks \union {NoTask} /\ s.curRDP \in Tasks \union {NoTask}
         /\ s.audioList \in Seq(AudioTasks) /\ s.gfxList \in Seq(GfxTasks)
  <1>1. s \in States /\ h \in Envs
    BY DEF Mid
  <1>2. \A t \in Tasks : Runs(s, t) \in 0 .. 1
    BY DEF Runs
  <1> QED BY <1>1, <1>2, InNat DEF States, Envs, TaskOrNone

\* Starting a listed task moves it from the list to the RSP.
LEMMA StartPlaces ==
  ASSUME NEW s, NEW h, NEW r, NEW t \in Tasks, NEW withRdp \in BOOLEAN,
         Mid(s, h), Starts(s, r, t, withRdp), In(s, t) > 0, s.curRSP = NoTask,
         withRdp => s.curRDP \in {NoTask, t}
  PROVE  OncePlaced(r, h)
  <1>1. /\ \A u \in Tasks : In(s, u) \in Nat /\ In(r, u) \in Nat
        /\ In(s, t) = 1 /\ Runs(s, t) = 0
    BY MidTypes, ListedOnly, InNat DEF Starts
  <1>2. ASSUME NEW u \in Tasks PROVE Places(r, h, u) = Places(s, h, u)
    <2>1. In(s, u) = In(r, u) + (IF u = t THEN 1 ELSE 0)
      BY DEF Starts
    <2>2. In(s, u) + Runs(s, u) = In(r, u) + Runs(r, u)
      <3>1. CASE u = t
        BY <1>1, <2>1, <3>1 DEF Runs, Starts
      <3>2. CASE u # t
        <4>1. In(s, u) = In(r, u)
          BY <1>1, <2>1, <3>2
        <4>2. Runs(s, u) = Runs(r, u)
          BY <3>2, <4>1, KindsOfTask DEF Runs, Starts
        <4> QED BY <4>1, <4>2
      <3> QED BY <3>1, <3>2
    <2>3. r.unkTask = s.unkTask /\ r.done[u] = s.done[u]
      BY DEF Starts
    <2>4. /\ h.w[u] \in Nat /\ s.done[u] \in Nat /\ In(s, u) \in Nat /\ In(r, u) \in Nat
          /\ Runs(s, u) \in 0 .. 1 /\ Runs(r, u) \in 0 .. 1
      BY <1>1, MidTypes DEF Runs
    <2> QED BY <2>2, <2>3, <2>4 DEF Places
  <1> QED BY <1>2 DEF Mid, OncePlaced

LEMMA AudioStartKeepsBooks ==
  ASSUME NEW s, NEW h, Mid(s, h), AudioNext(s)
  PROVE  LET r == AudioStarted(s, NoTask)
         IN Ok(r, h) /\ Follows(s, r) /\ r.done = s.done
  <1> DEFINE r == AudioStarted(s, NoTask)
             t == Head(s.audioList)
  <1>1. s \in States /\ s.audioList # <<>> /\ s.curRSP = NoTask
    BY DEF Mid, AudioNext
  <1>2. t \in AudioTasks /\ Starts(s, r, t, FALSE) /\ r.gfxList = s.gfxList /\ ~r.doAudio
    BY <1>1, AudioStarts
  <1>3. t \in Tasks /\ t \notin GfxTasks /\ t # NoTask /\ Needs(t) = {"SP"}
    BY <1>2, KindsOfTask
  <1>4. In(s, t) > 0
    <2>1. s.audioList \in Seq(AudioTasks) /\ In(s, t) \in Nat
      BY <1>1, <1>3, InNat DEF States
    <2>2. 1 \in DOMAIN s.audioList /\ s.audioList[1] = t
      BY <1>1, <2>1
    <2> QED BY <1>1, <1>3, <2>1, <2>2, InNat
  <1> HIDE DEF r, t
  <1>5. OncePlaced(r, h)
    BY <1>1, <1>2, <1>3, <1>4, StartPlaces
  <1>6. "YIELDED" \notin s.state[t]
    <2>1. s.gfxList # <<>> => Head(s.gfxList) \in GfxTasks
      BY <1>1, CountTail DEF States
    <2> QED BY <1>3, <2>1 DEF Mid, YieldedSide
  <1>7. h.prog[t] = "work" /\ s.state[t] = {"SP"}
    BY <1>3, <1>4, <1>6 DEF Mid, ClientSide
  <1>8. /\ \A u \in Tasks : u # t => r.state[u] = s.state[u]
        /\ r.state[t] = {"SP"}
        /\ \A u \in Tasks : In(s, u) \in Nat /\ In(r, u) \in Nat
        /\ \A u \in Tasks : u # t => In(r, u) = In(s, u)
        /\ In(r, t) = 0
    <2>1. In(s, t) = 1
      BY <1>3, <1>4, ListedOnly
    <2> QED BY <1>2, <1>3, <1>7, <2>1, MidTypes, InNat DEF Starts
  <1>9. RspSide(r, h)
    BY <1>1, <1>2, <1>3, <1>7, <1>8 DEF Mid, RspSide, Starts
  <1>10. RdpSide(r, h)
    <2>1. \A u \in Tasks : s.curRSP # u
      BY <1>1, KindsOfTask
    <2> QED BY <1>2, <1>3, <1>8, <2>1 DEF Mid, RdpSide, Starts
  <1>11. YieldedSide(r, h)
    BY <1>1, <1>2, <1>3, <1>7, <1>8 DEF Mid, YieldedSide, Begun, Starts
  <1>12. ClientSide(r, h)
    BY <1>1, <1>2, <1>3, <1>7, <1>8, KindsOfTask DEF Mid, ClientSide, Starts
  <1>13. Mid(r, h)
    BY <1>2, <1>5, <1>9, <1>10, <1>11, <1>12 DEF Mid, Starts
  <1>14. Ok(r, h)
    BY <1>2, <1>3, <1>13 DEF Ok, Starts
  <1>15. Follows(s, r)
    BY <1>2, <1>3 DEF Follows, Starts
  <1>16. r.done = s.done
    BY <1>2 DEF Starts
  <1> QED BY <1>14, <1>15, <1>16 DEF r

LEMMA GfxStartKeepsBooks ==
  ASSUME NEW s, NEW h, NEW withRdp \in BOOLEAN, Mid(s, h), GfxNext(s), ~h.swap,
         "YIELDED" \in s.state[Head(s.gfxList)] =>
           withRdp = ("DP" \in s.state[Head(s.gfxList)]),
         "YIELDED" \notin s.state[Head(s.gfxList)] => withRdp /\ s.curRDP = NoTask
  PROVE  LET t == Head(s.gfxList)
             r == GfxStarted(s, IF withRdp THEN t ELSE NoTask)
         IN Ok(r, h) /\ Follows(s, r) /\ r.done = s.done
  <1> DEFINE t == Head(s.gfxList)
             r == GfxStarted(s, IF withRdp THEN t ELSE NoTask)
             yielded == "YIELDED" \in s.state[t]
  <1>1. s \in States /\ s.gfxList # <<>> /\ s.curRSP = NoTask /\ ~s.doAudio
    BY DEF Mid, AudioNext, GfxNext, States
  <1>2. t \in GfxTasks /\ Starts(s, r, t, withRdp) /\ r.doAudio = s.doAudio
    BY <1>1, GfxStarts
  <1>3. t \in Tasks /\ t \notin AudioTasks /\ t # NoTask /\ Needs(t) = {"SP", "DP"}
    BY <1>2, KindsOfTask
  <1>4. In(s, t) > 0
    <2>1. s.gfxList \in Seq(GfxTasks) /\ In(s, t) \in Nat
      BY <1>1, <1>3, InNat DEF States
    <2>2. 1 \in DOMAIN s.gfxList /\ s.gfxList[1] = t
      BY <1>1, <2>1
    <2> QED BY <1>1, <1>3, <2>1, <2>2, InNat
  <1>5. /\ yielded => withRdp = ("DP" \in s.state[t])
        /\ ~yielded => withRdp /\ s.curRDP = NoTask
    OBVIOUS
  <1> HIDE DEF r, t
  \* Yielded or fresh, the task has the RDP as far as it needs it.
  <1>6. /\ yielded => "SP" \in s.state[t] /\ h.prog[t] \in {"work", "synced"} /\ Begun(s, h, t)
        /\ ~yielded => h.prog[t] = "work" /\ s.state[t] = {"SP", "DP"}
    BY <1>3, <1>4 DEF Mid, ClientSide, YieldedSide
  <1>7. /\ "SP" \in s.state[t] /\ h.prog[t] \in {"work", "synced"}
        /\ withRdp => s.curRDP \in {NoTask, t}
        /\ "DP" \in s.state[t] <=> r.curRDP = t
        /\ h.prog[t] = "work" => "DP" \in s.state[t]
        /\ r.curRDP \in {NoTask, t} /\ (~SyncEarly => r.curRDP = t)
        /\ s.curRDP \in {NoTask, t} /\ (s.curRDP = t => yielded /\ r.curRDP = t)
    BY <1>2, <1>3, <1>5, <1>6 DEF Begun, Starts
  <1>8. OncePlaced(r, h)
    BY <1>1, <1>2, <1>3, <1>4, <1>7, StartPlaces
  <1>9. /\ \A u \in Tasks : u # t => r.state[u] = s.state[u] /\ "YIELDED" \notin s.state[u]
        /\ r.state[t] = s.state[t] \ {"YIELD", "YIELDED"}
        /\ \A u \in Tasks : In(s, u) \in Nat /\ In(r, u) \in Nat
        /\ \A u \in Tasks : u # t => In(r, u) = In(s, u)
        /\ In(r, t) = 0
    <2>1. In(s, t) = 1
      BY <1>3, <1>4, ListedOnly
    <2>2. \A u \in Tasks : u # t => "YIELDED" \notin s.state[u]
      BY DEF Mid, YieldedSide, t
    <2> QED BY <1>2, <1>3, <2>1, <2>2, MidTypes, InNat DEF Starts
  <1>10. \A u \in Tasks : s.curRSP # u
    BY <1>1, KindsOfTask
  <1>11. RspSide(r, h)
    <2>1. Begun(r, h, t)
      BY <1>2, <1>7, <1>9 DEF Begun
    <2> QED BY <1>1, <1>2, <1>3, <1>7, <1>9, <2>1 DEF Mid, RspSide, Starts
  <1>12. RdpSide(r, h)
    <2>1. RdpSide(s, h)
      BY DEF Mid
    <2>2. s.rdp = r.rdp
      BY <1>2 DEF Starts
    <2>3. r.curRDP = NoTask => s.curRDP = NoTask
      BY <1>3, <1>7
    <2>4. ASSUME r.curRDP = t
          PROVE  /\ "DP" \in r.state[t] /\ r.rdp \in {NoTask, t}
                 /\ h.dp + (IF r.rdp = NoTask THEN 0 ELSE 1) = (IF h.prog[t] = "work" THEN 0 ELSE 1)
      <3>1. CASE yielded
        <4>1. s.curRDP = t
          BY <1>6, <1>7, <2>4, <3>1 DEF Begun
        <4> QED BY <1>3, <1>7, <1>9, <2>1, <2>2, <2>4, <4>1 DEF RdpSide
      <3>2. CASE ~yielded
        <4>1. s.curRDP = NoTask /\ h.prog[t] = "work"
          BY <1>5, <1>6, <3>2
        <4>2. s.rdp = NoTask /\ h.dp = 0
          BY <2>1, <4>1 DEF RdpSide
        <4> QED BY <1>7, <1>9, <2>2, <2>4, <4>1, <4>2
      <3> QED BY <3>1, <3>2
    <2>5. r.curRDP = NoTask => r.rdp = NoTask /\ h.dp = 0
      BY <2>1, <2>2, <2>3 DEF RdpSide
    <2>6. r.curRSP = t /\ r.curRDP \in {NoTask, t} /\ NoTask \notin Tasks
      BY <1>2, <1>7, KindsOfTask DEF Starts
    <2>7. \A u \in Tasks : r.curRDP = u => u = t
      BY <2>6
    <2> QED BY <1>2, <2>4, <2>5, <2>6, <2>7 DEF RdpSide
  <1>13. YieldedSide(r, h)
    BY <1>9 DEF YieldedSide
  <1>14. ClientSide(r, h)
    BY <1>1, <1>2, <1>3, <1>9, <1>10 DEF Mid, ClientSide, Starts
  <1>15. Mid(r, h)
    BY <1>1, <1>2, <1>8, <1>11, <1>12, <1>13, <1>14 DEF Mid, Starts
  <1>16. Ok(r, h)
    BY <1>1, <1>2, <1>3, <1>15 DEF Ok, Starts
  <1>17. Follows(s, r)
    BY <1>2, <1>3 DEF Follows, Starts
  <1>18. r.done = s.done
    BY <1>2 DEF Starts
  <1> QED BY <1>16, <1>17, <1>18 DEF r, t

\* After any handler's work on the books, the choice of what to run settles them.
LEMMA DispatchKeepsBooks ==
  ASSUME NEW s, NEW h, Mid(s, h), h.swap = swapPending
  PROVE  LET r == DispatchNow(s)
         IN Ok(r, h) /\ Follows(s, r) /\ r.done = s.done
  <1> DEFINE t == Head(s.gfxList)
             r == DispatchNow(s)
  <1>1. s \in States /\ r = Dispatch(s, NoTask).s
    BY DEF Mid, DispatchNow
  <1>2. /\ AudioNext(s) => r = AudioStarted(s, NoTask)
        /\ YieldedNext(s) => r = GfxStarted(s, IF "DP" \in s.state[t] THEN t ELSE NoTask)
        /\ FreshNext(s) => r = GfxStarted(s, IF TRUE THEN t ELSE NoTask)
        /\ ~(AudioNext(s) \/ YieldedNext(s) \/ FreshNext(s)) => r = s
    BY <1>1, DispatchCases
  <1> HIDE DEF r
  <1>3. CASE AudioNext(s)
    BY <1>2, <1>3, AudioStartKeepsBooks DEF r
  <1>4. CASE YieldedNext(s)
    <2>1. GfxNext(s) /\ ~h.swap /\ "YIELDED" \in s.state[t]
      BY <1>4 DEF YieldedNext, GfxNext
    <2> DEFINE withRdp == "DP" \in s.state[t]
    <2>2. withRdp \in BOOLEAN /\ withRdp = ("DP" \in s.state[t])
      OBVIOUS
    <2>3. r = GfxStarted(s, IF withRdp THEN t ELSE NoTask)
      BY <1>2, <1>4
    <2> HIDE DEF withRdp
    <2>4. Ok(r, h) /\ Follows(s, r) /\ r.done = s.done
      BY <2>1, <2>2, <2>3, GfxStartKeepsBooks
    <2> QED BY <2>4 DEF r
  <1>5. CASE FreshNext(s)
    <2>1. GfxNext(s) /\ ~h.swap /\ "YIELDED" \notin s.state[t] /\ s.curRDP = NoTask
      BY <1>5 DEF FreshNext, GfxNext
    <2> QED BY <1>2, <1>5, <2>1, GfxStartKeepsBooks DEF r
  <1>6. CASE ~(AudioNext(s) \/ YieldedNext(s) \/ FreshNext(s))
    <2>1. s.doAudio => s.curRSP # NoTask
      BY <1>6 DEF AudioNext
    <2>2. s.curRSP = NoTask => \A u \in Tasks : "YIELDED" \notin s.state[u]
      BY <1>6, <2>1 DEF Mid, YieldedSide, Begun, YieldedNext, GfxNext, AudioNext
    <2>3. Ok(s, h)
      BY <2>1, <2>2 DEF Ok
    <2>4. Follows(s, s)
      BY MidTypes DEF Follows
    <2> QED BY <1>2, <1>6, <2>3, <2>4 DEF r
  <1> QED BY <1>3, <1>4, <1>5, <1>6

\* In a settled state only a fresh task can be started, which needs nothing that
\* an earlier message may have left in dp.
LEMMA DispatchIgnoresStale ==
  ASSUME NEW s, NEW h, NEW dp0 \in TaskOrNone, Ok(s, h), h.swap = swapPending
  PROVE  LET d == Dispatch(s, dp0)
         IN /\ Ok(d.s, h) /\ Follows(s, d.s) /\ d.s.done = s.done
            /\ d.dp \in TaskOrNone
  <1> DEFINE t == Head(s.gfxList)
             d == Dispatch(s, dp0)
  <1>1. s \in States /\ Mid(s, h)
    BY DEF Ok, Mid
  <1>2. s.gfxList # <<>> => t \in Tasks
    BY <1>1, MidTypes, CountTail, KindsOfTask
  <1>3. ~AudioNext(s) /\ ~YieldedNext(s)
    BY <1>2 DEF Ok, AudioNext, YieldedNext, GfxNext
  <1>4. /\ FreshNext(s) => d = [s |-> GfxStarted(s, t), dp |-> t]
        /\ ~FreshNext(s) => d = [s |-> s, dp |-> dp0]
    BY <1>1, <1>3, DispatchCases
  <1> HIDE DEF d
  <1>5. CASE FreshNext(s)
    <2>1. /\ GfxNext(s) /\ ~h.swap /\ "YIELDED" \notin s.state[t] /\ s.curRDP = NoTask
          /\ s.gfxList # <<>>
      BY <1>5 DEF FreshNext, GfxNext
    <2>2. d.s = GfxStarted(s, IF TRUE THEN t ELSE NoTask) /\ d.dp = t
      BY <1>4, <1>5
    <2>3. Ok(d.s, h) /\ Follows(s, d.s) /\ d.s.done = s.done
      BY <1>1, <2>1, <2>2, GfxStartKeepsBooks
    <2> QED BY <1>2, <2>1, <2>2, <2>3 DEF d, TaskOrNone
  <1>6. CASE ~FreshNext(s)
    <2>1. d.s = s /\ d.dp = dp0
      BY <1>4, <1>6
    <2>2. Follows(s, s)
      BY <1>1, MidTypes DEF Follows
    <2> QED BY <2>1, <2>2 DEF d
  <1> QED BY <1>5, <1>6

-----------------------------------------------------------------------------
(* The ends of the RSP's and the RDP's work.                               *)

Unreported(s, r) == r.done = s.done /\ r.unkTask = s.unkTask

Reported(s, r, t) ==
  \/ r.done = [s.done EXCEPT ![t] = @ + 1] /\ r.unkTask = s.unkTask
  \/ t \in LastTasks /\ r.unkTask = t /\ r.done = s.done

\* r is s but for the done messages and, at most, frameCount.
OnlyReports(s, r) ==
  /\ r \in States
  /\ r.state = s.state /\ r.audioList = s.audioList /\ r.gfxList = s.gfxList
  /\ r.curRSP = s.curRSP /\ r.curRDP = s.curRDP /\ r.rsp = s.rsp /\ r.rdp = s.rdp
  /\ r.doAudio = s.doAudio /\ r.yieldSignal = s.yieldSignal /\ r.yielded = s.yielded
  /\ r.rspCount = s.rspCount /\ r.rdpCount = s.rdpCount /\ r.crashed = s.crashed

LEMMA CompleteReports ==
  ASSUME NEW s \in States, NEW t \in Tasks
  PROVE  LET r == __scTaskComplete(s, t)
         IN /\ OnlyReports(s, r)
            /\ s.state[t] \intersect {"SP", "DP"} # {} => Unreported(s, r)
            /\ s.state[t] \intersect {"SP", "DP"} = {} => Reported(s, r, t)
  <1>1. [s.done EXCEPT ![t] = @ + 1] \in [Tasks -> Nat] /\ t \in TaskOrNone
    BY DEF States, TaskOrNone
  <1>2. OnlyReports(s, s) /\ Unreported(s, s)
    BY DEF OnlyReports, Unreported
  <1>3. LET r == Reply(s, t) IN OnlyReports(s, r) /\ Reported(s, r, t)
    BY <1>1 DEF OnlyReports, Reported, Reply, States
  <1>4. LET r == [s EXCEPT !.unkTask = t]
        IN OnlyReports(s, r) /\ (t \in LastTasks => Reported(s, r, t))
    BY <1>1 DEF OnlyReports, Reported, States
  <1>5. LET r == [Reply(s, t) EXCEPT !.frameCount = 0]
        IN OnlyReports(s, r) /\ Reported(s, r, t)
    <2> DEFINE q == Reply(s, t)
               r == [q EXCEPT !.frameCount = 0]
    <2>1. q \in States /\ OnlyReports(s, q) /\ Reported(s, q, t)
      BY <1>3 DEF OnlyReports
    <2> HIDE DEF q
    <2>2. r \in States
      <3>1. q \in States /\ 0 \in 0 .. 2
        BY <2>1
      <3> QED BY <3>1 DEF States
    <2>4. OnlyReports(q, r) /\ Unreported(q, r)
      BY <2>1, <2>2 DEF OnlyReports, Unreported, States
    <2> HIDE DEF r
    <2>3. OnlyReports(s, r) /\ Reported(s, r, t)
      BY <2>1, <2>4 DEF OnlyReports, Unreported, Reported
    <2> QED BY <2>3 DEF r, q
  <1> QED BY <1>2, <1>3, <1>4, <1>5, Zenon DEF __scTaskComplete

\* The message of the RSP's end, or the RDP's, has been taken.
SpTaken(h) == [h EXCEPT !.sp = @ - 1]
DpTaken(h) == [h EXCEPT !.dp = @ - 1]

LEMMA UnitTakenEnv ==
  ASSUME NEW h \in Envs
  PROVE  /\ h.sp > 0 => /\ SpTaken(h) \in Envs /\ SpTaken(h).sp = h.sp - 1
                        /\ SpTaken(h).w = h.w /\ SpTaken(h).dp = h.dp
                        /\ SpTaken(h).prog = h.prog /\ SpTaken(h).swap = h.swap
         /\ h.dp > 0 => /\ DpTaken(h) \in Envs /\ DpTaken(h).dp = h.dp - 1
                        /\ DpTaken(h).w = h.w /\ DpTaken(h).sp = h.sp
                        /\ DpTaken(h).prog = h.prog /\ DpTaken(h).swap = h.swap
  <1>1. h.sp \in Nat /\ h.dp \in Nat
    BY DEF Envs
  <1>2. /\ h.sp > 0 => h.sp - 1 \in Nat
        /\ h.dp > 0 => h.dp - 1 \in Nat
    BY <1>1
  <1> QED BY <1>2 DEF Envs, SpTaken, DpTaken

\* A task is in no more places than before, and in as many if nothing can be lost.
StaysPlaced(s, h, r, g, u) ==
  /\ Places(r, g, u) \in Nat /\ Places(s, h, u) \in Nat
  /\ Places(r, g, u) <= Places(s, h, u)
  /\ Exact => Places(r, g, u) = Places(s, h, u)

\* A report on t leaves the other tasks where they are; only a second last task
\* can push another's message out of unkTask.
LEMMA OthersPlaced ==
  ASSUME NEW s, NEW h, NEW r, NEW g, NEW t \in Tasks, NEW u \in Tasks, u # t, Mid(s, h),
         Unreported(s, r) \/ Reported(s, r, t),
         g.w[u] + In(r, u) + Runs(r, u) = h.w[u] + In(s, u) + Runs(s, u)
  PROVE  StaysPlaced(s, h, r, g, u)
  <1>1. r.done[u] = s.done[u]
    <2>1. s.done \in [Tasks -> Nat]
      BY MidTypes
    <2> QED BY <2>1 DEF Reported, Unreported
  <1>2. r.unkTask = u => s.unkTask = u
    BY DEF Reported, Unreported
  <1>3. Exact /\ s.unkTask = u => r.unkTask = u
    <2>1. s.unkTask \in LastTasks \union {NoTask}
      BY DEF Mid, ClientSide
    <2> QED BY <2>1, KindsOfTask, Zenon DEF Reported, Unreported, Exact
  <1> DEFINE x == h.w[u] + In(s, u) + Runs(s, u)
  <1>4. x \in Nat /\ s.done[u] \in Nat
    <2>1. h.w[u] \in Nat /\ In(s, u) \in Nat /\ Runs(s, u) \in 0 .. 1 /\ s.done[u] \in Nat
      BY MidTypes
    <2> QED BY <2>1
  <1>5. /\ Places(s, h, u) = x + (IF s.unkTask = u THEN 1 ELSE 0) + s.done[u]
        /\ Places(r, g, u) = x + (IF r.unkTask = u THEN 1 ELSE 0) + s.done[u]
    BY <1>1 DEF Places
  <1> HIDE DEF x
  <1> QED BY <1>2, <1>3, <1>4, <1>5 DEF StaysPlaced

\* r is s with the RSP given up by its task.
RspOff(s, r) ==
  /\ r \in States /\ r.curRSP = NoTask
  /\ r.audioList = s.audioList /\ r.curRDP = s.curRDP /\ r.rsp = s.rsp /\ r.rdp = s.rdp
  /\ r.doAudio = s.doAudio /\ r.crashed = s.crashed
  /\ r.rspCount = s.rspCount /\ r.rdpCount = s.rdpCount

\* The RSP has come to the end of its task.
LEMMA RspEndKeepsBooks ==
  ASSUME NEW s, NEW h, NEW r, Ok(s, h), h.sp > 0, ~s.yielded,
         RspOff(s, r), r.gfxList = s.gfxList,
         r.state = [s.state EXCEPT ![s.curRSP] = @ \ {"SP"}],
         \/ Unreported(s, r) /\ (Exact => "DP" \in s.state[s.curRSP])
         \/ Reported(s, r, s.curRSP) /\ "DP" \notin s.state[s.curRSP]
  PROVE  Mid(r, SpTaken(h))
  <1> DEFINE t == s.curRSP
             g == SpTaken(h)
  <1>1. Mid(s, h) /\ s \in States /\ h \in Envs
    BY DEF Ok, Mid
  <1>2. /\ g \in Envs /\ g.sp = h.sp - 1 /\ g.w = h.w /\ g.dp = h.dp
        /\ g.prog = h.prog /\ g.swap = h.swap
    BY <1>1, UnitTakenEnv
  <1>3. t \in Tasks /\ t # NoTask /\ s.rsp = NoTask /\ h.sp = 1 /\ g.sp = 0
    BY <1>1, <1>2, MidTypes, KindsOfTask DEF Mid, RspSide
  <1>4. /\ h.prog[t] = "finished" /\ "SP" \in s.state[t] /\ "YIELDED" \notin s.state[t]
        /\ t \in GfxTasks => Begun(s, h, t)
        /\ t \in AudioTasks => s.state[t] = {"SP"}
    BY <1>1, <1>3 DEF Mid, RspSide
  <1>5. /\ r \in States /\ r.curRSP = NoTask /\ r.gfxList = s.gfxList
        /\ r.audioList = s.audioList /\ r.curRDP = s.curRDP /\ r.rsp = s.rsp /\ r.rdp = s.rdp
        /\ r.doAudio = s.doAudio /\ r.crashed = s.crashed
        /\ \A u \in Tasks : In(r, u) = In(s, u)
    BY DEF RspOff, In
  <1>6. /\ \A u \in Tasks : u # t => r.state[u] = s.state[u]
        /\ r.state[t] = s.state[t] \ {"SP"}
    BY <1>1, <1>3, MidTypes
  <1>7. /\ Runs(s, t) = 1 /\ h.w[t] = 0 /\ In(s, t) = 0 /\ s.unkTask # t /\ s.done[t] = 0
    <2>1. Places(s, h, t) <= 1 /\ Runs(s, t) = 1
      BY <1>1, <1>3, <1>4 DEF Mid, OncePlaced, Runs
    <2> QED BY <1>1, <1>3, <2>1, MidTypes DEF Places
  <1>8. \/ Unreported(s, r) /\ (Exact => "DP" \in s.state[t])
        \/ Reported(s, r, t) /\ "DP" \notin s.state[t]
    OBVIOUS
  <1>9. "DP" \in s.state[t] <=> s.curRDP = t
    BY <1>3, <1>4, <1>1, KindsOfTask DEF Mid, RdpSide, Begun
  <1>10. s.unkTask \in LastTasks \union {NoTask}
    BY <1>1 DEF Mid, ClientSide
  <1> HIDE DEF t, g
  <1>11. OncePlaced(r, g)
    <2>1. \A u \in Tasks : u # t => Runs(r, u) = Runs(s, u)
      BY <1>3, <1>5, KindsOfTask DEF Runs, t
    <2>2. Runs(r, t) = IF "DP" \in s.state[t] THEN 1 ELSE 0
      BY <1>3, <1>5, <1>7, <1>9 DEF Runs
    <2>3. ASSUME NEW u \in Tasks, u # t
          PROVE  StaysPlaced(s, h, r, g, u)
      <3>1. g.w[u] + In(r, u) + Runs(r, u) = h.w[u] + In(s, u) + Runs(s, u)
        BY <1>2, <1>5, <2>1, <2>3
      <3>2. Unreported(s, r) \/ Reported(s, r, t)
        BY <1>8
      <3>3. Mid(s, h) /\ t \in Tasks /\ u \in Tasks /\ u # t
        BY <1>1, <1>3, <2>3
      <3> QED BY <3>1, <3>2, <3>3, OthersPlaced, Zenon
    <2>4. /\ Places(r, g, t) <= 1
          /\ Exact => Places(r, g, t) = 1
      <3>1. h.w[t] = 0 /\ In(r, t) = 0 /\ s.done[t] = 0
        BY <1>3, <1>5, <1>7
      <3>2. Places(r, g, t) = Runs(r, t) + (IF r.unkTask = t THEN 1 ELSE 0) + r.done[t]
        <4>1. Runs(r, t) \in 0 .. 1
          BY DEF Runs
        <4> QED BY <1>2, <3>1, <4>1 DEF Places
      <3>3. CASE Unreported(s, r) /\ (Exact => "DP" \in s.state[t])
        <4>1. r.unkTask # t /\ r.done[t] = 0
          BY <1>7, <3>3 DEF Unreported
        <4> QED BY <2>2, <3>2, <3>3, <4>1
      <3>4. CASE Reported(s, r, t) /\ "DP" \notin s.state[t]
        <4>1. s.done \in [Tasks -> Nat]
          BY <1>1, MidTypes
        <4>2. \/ r.unkTask = t /\ r.done[t] = 0
              \/ r.unkTask # t /\ r.done[t] = 1
          BY <1>3, <1>7, <3>4, <4>1 DEF Reported
        <4> QED BY <2>2, <3>2, <3>4, <4>2
      <3> QED BY <1>8, <3>3, <3>4
    <2>5. /\ \A u \in Tasks : Places(s, h, u) <= (IF h.prog[u] = "idle" THEN 0 ELSE 1)
          /\ \A u \in Tasks : Exact => Places(s, h, u) = (IF h.prog[u] = "idle" THEN 0 ELSE 1)
      BY <1>1 DEF Mid, OncePlaced
    <2> QED BY <1>2, <1>4, <2>3, <2>4, <2>5 DEF OncePlaced, StaysPlaced
  <1>12. RspSide(r, g)
    BY <1>1, <1>2, <1>3, <1>5, KindsOfTask DEF RspSide
  <1>13. RdpSide(r, g)
    BY <1>1, <1>2, <1>3, <1>4, <1>5, <1>6, KindsOfTask DEF Mid, RdpSide, t
  <1>14. YieldedSide(r, g)
    BY <1>1, <1>2, <1>3, <1>4, <1>5, <1>6, KindsOfTask DEF Mid, YieldedSide, Begun, t
  <1>15. ClientSide(r, g)
    <2>1. \A u \in Tasks : u # t => r.done[u] = s.done[u] /\ (r.unkTask = u => s.unkTask = u)
      <3>1. s.done \in [Tasks -> Nat]
        BY <1>1, MidTypes
      <3> QED BY <1>8, <3>1 DEF Reported, Unreported
    <2>2. r.unkTask \in LastTasks \union {NoTask}
      BY <1>8, <1>10 DEF Reported, Unreported
    <2> QED BY <1>1, <1>2, <1>3, <1>4, <1>5, <1>6, <1>7, <2>1, <2>2 DEF Mid, ClientSide, t
  <1>16. Mid(r, g)
    BY <1>1, <1>2, <1>5, <1>11, <1>12, <1>13, <1>14, <1>15 DEF Mid
  <1> QED BY <1>16 DEF g

\* The RSP has left its task at the request to yield.
LEMMA RspYieldKeepsBooks ==
  ASSUME NEW s, NEW h, NEW r, Ok(s, h), h.sp > 0, s.yielded, RspOff(s, r),
         r.gfxList = <<s.curRSP>> \o s.gfxList,
         r.state = [s.state EXCEPT ![s.curRSP] = @ \union {"YIELDED"}], Unreported(s, r)
  PROVE  Mid(r, SpTaken(h))
  <1> DEFINE t == s.curRSP
             g == SpTaken(h)
  <1>1. Mid(s, h) /\ s \in States /\ h \in Envs
    BY DEF Ok, Mid
  <1>2. /\ g \in Envs /\ g.sp = h.sp - 1 /\ g.w = h.w /\ g.dp = h.dp
        /\ g.prog = h.prog /\ g.swap = h.swap
    BY <1>1, UnitTakenEnv
  <1>3. t \in Tasks /\ t # NoTask /\ s.rsp = NoTask /\ h.sp = 1 /\ g.sp = 0
    BY <1>1, <1>2, MidTypes, KindsOfTask DEF Mid, RspSide
  <1>4. /\ h.prog[t] \in {"work", "synced"} /\ "SP" \in s.state[t] /\ "YIELD" \in s.state[t]
        /\ t \in GfxTasks => Begun(s, h, t)
        /\ t \in AudioTasks => s.state[t] = {"SP"}
    BY <1>1, <1>3 DEF Mid, RspSide
  <1>5. t \in GfxTasks
    BY <1>3, <1>4, KindsOfTask
  <1>6. /\ r.gfxList # <<>> /\ Head(r.gfxList) = t
        /\ \A u \in Tasks : Count(r.gfxList, u) = Count(s.gfxList, u) + (IF t = u THEN 1 ELSE 0)
    <2>1. s.gfxList \in Seq(GfxTasks)
      BY <1>1, MidTypes
    <2> QED BY <1>5, <2>1, CountInFront
  <1>7. ASSUME NEW u \in Tasks
        PROVE  In(r, u) = In(s, u) + (IF u = t THEN 1 ELSE 0)
    <2>1. /\ Count(s.audioList, u) \in Nat /\ Count(s.gfxList, u) \in Nat
          /\ r.audioList = s.audioList
      BY <1>1, MidTypes, CountNat DEF RspOff
    <2> QED BY <1>6, <2>1 DEF In
  <1>8. /\ r \in States /\ r.curRSP = NoTask
        /\ r.audioList = s.audioList /\ r.curRDP = s.curRDP /\ r.rsp = s.rsp /\ r.rdp = s.rdp
        /\ r.doAudio = s.doAudio /\ r.crashed = s.crashed
        /\ r.done = s.done /\ r.unkTask = s.unkTask
        /\ \A u \in Tasks : u # t => r.state[u] = s.state[u]
        /\ r.state[t] = s.state[t] \union {"YIELDED"}
    BY <1>1, <1>3, MidTypes DEF RspOff, Unreported
  <1>9. /\ Runs(s, t) = 1 /\ h.w[t] = 0 /\ In(s, t) = 0 /\ s.unkTask # t /\ s.done[t] = 0
    <2>1. Places(s, h, t) <= 1 /\ Runs(s, t) = 1
      BY <1>1, <1>3, <1>4 DEF Mid, OncePlaced, Runs
    <2> QED BY <1>1, <1>3, <2>1, MidTypes DEF Places
  <1>10. \A u \in Tasks : "YIELDED" \notin s.state[u]
    BY <1>1, <1>5 DEF Mid, YieldedSide
  <1> HIDE DEF t, g
  <1>11. OncePlaced(r, g)
    <2>1. ASSUME NEW u \in Tasks
          PROVE  In(r, u) + Runs(r, u) = In(s, u) + Runs(s, u)
      <3>1. In(s, u) \in Nat /\ In(r, u) \in Nat
        BY <1>1, <1>8, MidTypes, InNat
      <3>2. CASE u = t
        <4>1. In(r, t) = 1
          BY <1>3, <1>7, <1>9
        <4>2. Runs(r, t) = 0
          BY <1>3, <1>8, <4>1 DEF Runs
        <4> QED BY <1>9, <3>2, <4>1, <4>2
      <3>3. CASE u # t
        <4>1. In(r, u) = In(s, u)
          BY <1>7, <3>1, <3>3
        <4>2. Runs(r, u) = Runs(s, u)
          BY <1>8, <3>3, <4>1, KindsOfTask DEF Runs, t
        <4> QED BY <4>1, <4>2
      <3> QED BY <3>2, <3>3
    <2>2. ASSUME NEW u \in Tasks PROVE Places(r, g, u) = Places(s, h, u)
      <3>1. /\ h.w[u] \in Nat /\ In(s, u) \in Nat /\ In(r, u) \in Nat
            /\ Runs(s, u) \in 0 .. 1 /\ Runs(r, u) \in 0 .. 1
        BY <1>1, <1>8, MidTypes, InNat DEF Runs
      <3>2. g.w[u] + In(r, u) + Runs(r, u) = h.w[u] + In(s, u) + Runs(s, u)
        BY <1>2, <2>1, <3>1
      <3> QED BY <1>8, <3>2 DEF Places
    <2> QED BY <1>1, <1>2, <2>2 DEF Mid, OncePlaced
  <1>12. RspSide(r, g)
    BY <1>1, <1>2, <1>3, <1>8, KindsOfTask DEF RspSide
  <1>13. RdpSide(r, g)
    BY <1>1, <1>2, <1>3, <1>4, <1>8, KindsOfTask DEF Mid, RdpSide, t
  <1>14. YieldedSide(r, g)
    <2>1. Begun(r, g, t)
      BY <1>2, <1>4, <1>5, <1>8 DEF Begun
    <2> QED BY <1>2, <1>4, <1>6, <1>8, <1>10, <2>1, KindsOfTask DEF YieldedSide
  <1>15. ClientSide(r, g)
    <2>1. \A u \in Tasks : u # t => In(r, u) = In(s, u)
      BY <1>1, <1>7, MidTypes
    <2> QED BY <1>1, <1>2, <1>3, <1>4, <1>8, <1>9, <2>1 DEF Mid, ClientSide, t
  <1>16. Mid(r, g)
    BY <1>1, <1>2, <1>8, <1>11, <1>12, <1>13, <1>14, <1>15 DEF Mid
  <1> QED BY <1>16 DEF g

\* The RDP has come to the end of its task; if it may not do so before the RSP, it
\* has not.
LEMMA RdpEndKeepsBooks ==
  ASSUME NEW s, NEW h, NEW r, Ok(s, h), h.dp > 0, ~SyncEarly /\ s.curRSP \in GfxTasks => h.sp = 0,
         r \in States, r.curRDP = NoTask,
         r.curRSP = s.curRSP, r.rsp = s.rsp, r.rdp = s.rdp, r.yieldSignal = s.yieldSignal,
         r.yielded = s.yielded, r.audioList = s.audioList, r.gfxList = s.gfxList,
         r.doAudio = s.doAudio, r.crashed = s.crashed,
         r.state = [s.state EXCEPT ![s.curRDP] = @ \ {"DP"}],
         \/ Unreported(s, r) /\ "SP" \in s.state[s.curRDP]
         \/ Reported(s, r, s.curRDP) /\ "SP" \notin s.state[s.curRDP]
  PROVE  Mid(r, DpTaken(h))
  <1> DEFINE t == s.curRDP
             g == DpTaken(h)
  <1>1. Mid(s, h) /\ s \in States /\ h \in Envs
    BY DEF Ok, Mid
  <1>2. /\ g \in Envs /\ g.dp = h.dp - 1 /\ g.w = h.w /\ g.sp = h.sp
        /\ g.prog = h.prog /\ g.swap = h.swap
    BY <1>1, UnitTakenEnv
  <1>3. /\ t \in Tasks /\ t # NoTask /\ t \in GfxTasks /\ "DP" \in s.state[t] /\ s.rdp \in {NoTask, t}
        /\ h.dp + (IF s.rdp = NoTask THEN 0 ELSE 1) = (IF h.prog[t] = "work" THEN 0 ELSE 1)
        /\ s.curRSP # t /\ "YIELDED" \notin s.state[t] =>
             "SP" \notin s.state[t] /\ h.prog[t] = "finished"
    BY <1>1, MidTypes, KindsOfTask DEF Mid, RdpSide
  <1>4. h.prog[t] # "work" /\ s.rdp = NoTask /\ h.dp = 1 /\ g.dp = 0
    <2>1. h.dp \in Nat
      BY <1>1 DEF Envs
    <2> QED BY <1>2, <1>3, <2>1
  <1>5. /\ \A u \in Tasks : u # t => r.state[u] = s.state[u]
        /\ r.state[t] = s.state[t] \ {"DP"}
        /\ \A u \in Tasks : In(r, u) = In(s, u)
    BY <1>1, <1>3, MidTypes DEF In
  <1>6. /\ r \in States /\ r.curRDP = NoTask
        /\ r.curRSP = s.curRSP /\ r.rsp = s.rsp /\ r.rdp = s.rdp /\ r.yieldSignal = s.yieldSignal
        /\ r.yielded = s.yielded /\ r.audioList = s.audioList /\ r.gfxList = s.gfxList
        /\ r.doAudio = s.doAudio /\ r.crashed = s.crashed
    OBVIOUS
  <1>7. \/ Unreported(s, r) /\ "SP" \in s.state[t]
        \/ Reported(s, r, t) /\ "SP" \notin s.state[t]
    OBVIOUS
  \* Only t can have been begun, and not even t if the RDP is always last.
  <1>8. ASSUME NEW u \in Tasks, Begun(s, h, u) PROVE u = t
    BY <1>3, <1>8 DEF Begun
  <1>9. ~SyncEarly => s.curRSP \notin GfxTasks /\ \A u \in Tasks : "YIELDED" \notin s.state[u]
    <2> SUFFICES ASSUME ~SyncEarly
                 PROVE  s.curRSP \notin GfxTasks /\ \A u \in Tasks : "YIELDED" \notin s.state[u]
      OBVIOUS
    <2>1. h.prog[t] # "synced"
      BY <1>1, <1>3 DEF Mid, ClientSide
    <2>2. ASSUME s.curRSP \in GfxTasks PROVE FALSE
      <3>1. s.curRSP \in Tasks /\ s.curRSP # NoTask /\ s.rsp # NoTask
        BY <1>1, <2>2, KindsOfTask DEF Mid, RspSide
      <3>2. s.rsp = s.curRSP
        BY <1>1, <3>1 DEF Mid, RspSide
      <3>3. h.prog[s.curRSP] \in {"work", "synced"} /\ Begun(s, h, s.curRSP)
        BY <1>1, <2>2, <3>1, <3>2 DEF Mid, RspSide
      <3> QED BY <1>4, <1>8, <2>1, <3>1, <3>3
    <2>3. ASSUME NEW u \in Tasks, "YIELDED" \in s.state[u] PROVE FALSE
      <3>1. h.prog[u] \in {"work", "synced"} /\ Begun(s, h, u)
        BY <1>1, <2>3 DEF Mid, YieldedSide
      <3> QED BY <1>4, <1>8, <2>1, <3>1
    <2> QED BY <2>2, <2>3
  <1>10. "SP" \in s.state[t] <=> s.curRSP = t \/ "YIELDED" \in s.state[t]
    BY <1>1, <1>3 DEF Mid, RspSide, YieldedSide
  <1>11. "SP" \notin s.state[t] =>
           /\ In(s, t) = 0 /\ Runs(s, t) = 1 /\ h.w[t] = 0 /\ s.unkTask # t /\ s.done[t] = 0
           /\ h.prog[t] = "finished"
    <2> SUFFICES ASSUME "SP" \notin s.state[t]
                 PROVE  /\ In(s, t) = 0 /\ Runs(s, t) = 1 /\ h.w[t] = 0 /\ s.unkTask # t
                        /\ s.done[t] = 0 /\ h.prog[t] = "finished"
      OBVIOUS
    <2>1. s.curRSP # t /\ "YIELDED" \notin s.state[t] /\ h.prog[t] = "finished"
      BY <1>3, <1>10
    <2>2. In(s, t) = 0
      BY <1>1, <1>3, <2>1, MidTypes, KindsOfTask DEF Mid, ClientSide
    <2>3. Places(s, h, t) <= 1 /\ Runs(s, t) = 1
      BY <1>1, <1>3, <2>1, <2>2 DEF Mid, OncePlaced, Runs
    <2> QED BY <1>1, <1>3, <2>1, <2>2, <2>3, MidTypes DEF Places
  <1> HIDE DEF t, g
  <1>12. OncePlaced(r, g)
    <2>1. \A u \in Tasks : u # t => Runs(r, u) = Runs(s, u)
      BY <1>3, <1>5, <1>6, KindsOfTask DEF Runs, t
    <2>2. ASSUME NEW u \in Tasks, u # t
          PROVE  StaysPlaced(s, h, r, g, u)
      <3>1. g.w[u] + In(r, u) + Runs(r, u) = h.w[u] + In(s, u) + Runs(s, u)
        BY <1>2, <1>5, <2>1, <2>2
      <3>2. Unreported(s, r) \/ Reported(s, r, t)
        BY <1>7
      <3>3. Mid(s, h) /\ t \in Tasks /\ u \in Tasks /\ u # t
        BY <1>1, <1>3, <2>2
      <3> QED BY <3>1, <3>2, <3>3, OthersPlaced
    <2>3. Places(r, g, t) = Places(s, h, t)
      <3>1. CASE Unreported(s, r) /\ "SP" \in s.state[t]
        <4>1. Runs(r, t) = Runs(s, t)
          <5>1. CASE s.curRSP = t
            BY <1>6, <5>1 DEF Runs
          <5>2. CASE s.curRSP # t
            <6>1. "YIELDED" \in s.state[t]
              BY <1>10, <3>1, <5>2
            <6>2. In(s, t) > 0
              <7>1. s.gfxList \in Seq(GfxTasks) /\ s.gfxList # <<>> /\ t = Head(s.gfxList)
                BY <1>1, <1>3, <6>1, MidTypes DEF Mid, YieldedSide
              <7>2. 1 \in DOMAIN s.gfxList /\ s.gfxList[1] = t
                BY <7>1
              <7> QED BY <1>1, <1>3, <7>2, InNat
            <6> QED BY <1>3, <1>5, <1>6, <5>2, <6>2 DEF Runs
          <5> QED BY <5>1, <5>2
        <4>2. g.w[t] = h.w[t] /\ In(r, t) = In(s, t)
          BY <1>2, <1>3, <1>5
        <4>3. r.done[t] = s.done[t] /\ r.unkTask = s.unkTask
          BY <3>1 DEF Unreported
        <4> QED BY <4>1, <4>2, <4>3 DEF Places
      <3>2. CASE Reported(s, r, t) /\ "SP" \notin s.state[t]
        <4>1. /\ Places(s, h, t) = 1 /\ g.w[t] = 0 /\ In(r, t) = 0
          BY <1>2, <1>3, <1>5, <1>11, <3>2 DEF Places
        <4>2. Runs(r, t) = 0
          BY <1>3, <1>6, <1>10, <3>2 DEF Runs
        <4>3. \/ r.unkTask = t /\ r.done[t] = 0
              \/ r.unkTask # t /\ r.done[t] = 1
          <5>1. s.done \in [Tasks -> Nat]
            BY <1>1, MidTypes
          <5> QED BY <1>3, <1>11, <3>2, <5>1 DEF Reported
        <4>4. Places(r, g, t) = (IF r.unkTask = t THEN 1 ELSE 0) + r.done[t]
          BY <4>1, <4>2, <4>3 DEF Places
        <4> QED BY <4>1, <4>3, <4>4
      <3> QED BY <1>7, <3>1, <3>2
    <2>4. /\ \A u \in Tasks : Places(s, h, u) <= (IF h.prog[u] = "idle" THEN 0 ELSE 1)
          /\ \A u \in Tasks : Exact => Places(s, h, u) = (IF h.prog[u] = "idle" THEN 0 ELSE 1)
      BY <1>1 DEF Mid, OncePlaced
    <2> QED BY <1>2, <2>2, <2>3, <2>4 DEF OncePlaced, StaysPlaced
  <1>13. RspSide(r, g)
    <2>1. RspSide(s, h)
      BY <1>1 DEF Mid
    <2>2. ASSUME NEW u \in Tasks, Begun(s, h, u), u = s.curRSP PROVE Begun(r, g, u)
      <3>1. u = t /\ SyncEarly
        BY <1>8, <1>9, <2>2 DEF Begun
      <3> QED BY <1>2, <1>3, <1>4, <1>5, <1>6, <2>2, <3>1 DEF Begun
    <2> QED BY <1>2, <1>3, <1>5, <1>6, <2>1, <2>2 DEF RspSide
  <1>14. RdpSide(r, g)
    BY <1>4, <1>6, KindsOfTask DEF RdpSide
  <1>15. YieldedSide(r, g)
    <2>1. ASSUME NEW u \in Tasks, "YIELDED" \in r.state[u]
          PROVE  /\ r.gfxList # <<>> /\ u = Head(r.gfxList)
                 /\ "SP" \in r.state[u] /\ g.prog[u] \in {"work", "synced"}
                 /\ r.curRSP \notin GfxTasks /\ Begun(r, g, u)
      <3>1. "YIELDED" \in s.state[u]
        BY <1>3, <1>5, <2>1
      <3>2. /\ s.gfxList # <<>> /\ u = Head(s.gfxList)
            /\ "SP" \in s.state[u] /\ h.prog[u] \in {"work", "synced"}
            /\ s.curRSP \notin GfxTasks /\ Begun(s, h, u)
        BY <1>1, <3>1 DEF Mid, YieldedSide
      <3>3. u = t /\ SyncEarly
        BY <1>8, <1>9, <3>1, <3>2
      <3> QED BY <1>2, <1>3, <1>4, <1>5, <1>6, <3>2, <3>3 DEF Begun
    <2> QED BY <2>1 DEF YieldedSide
  <1>16. ClientSide(r, g)
    <2>1. \A u \in Tasks : u # t => r.done[u] = s.done[u] /\ (r.unkTask = u => s.unkTask = u)
      <3>1. s.done \in [Tasks -> Nat]
        BY <1>1, MidTypes
      <3> QED BY <1>7, <3>1 DEF Reported, Unreported
    <2>2. r.unkTask \in LastTasks \union {NoTask}
      BY <1>1, <1>7 DEF Mid, ClientSide, Reported, Unreported
    <2>3. "SP" \in s.state[t] => r.done[t] = s.done[t] /\ r.unkTask = s.unkTask
      BY <1>7 DEF Unreported
    <2>4. In(s, t) > 0 => "YIELDED" \in s.state[t]
      BY <1>1, <1>3, <1>4 DEF Mid, ClientSide
    <2> QED BY <1>1, <1>2, <1>3, <1>4, <1>5, <1>6, <1>11, <2>1, <2>2, <2>3, <2>4
         DEF Mid, ClientSide
  <1>17. Mid(r, g)
    BY <1>1, <1>2, <1>6, <1>12, <1>13, <1>14, <1>15, <1>16 DEF Mid
  <1> QED BY <1>17 DEF g

-----------------------------------------------------------------------------
(* The handlers.                                                           *)

\* At most one client is told.
Told(s, r) == r.done = s.done \/ \E t \in Tasks : r.done = [s.done EXCEPT ![t] = @ + 1]

\* What every handler achieves: from settled books to settled books.
Settles(s, r, h) == Ok(r, h) /\ Follows(s, r) /\ Told(s, r)

LEMMA DispatchSettles ==
  ASSUME NEW s \in States, NEW v, NEW h, Mid(v, h), h.swap = swapPending,
         Follows(s, v), Told(s, v)
  PROVE  Settles(s, DispatchNow(v), h)
  <1> DEFINE r == DispatchNow(v)
  <1>1. Ok(r, h) /\ Follows(v, r) /\ r.done = v.done
    BY DispatchKeepsBooks
  <1> HIDE DEF r
  <1>2. v \in States /\ r \in States
    BY <1>1 DEF Mid, Ok
  <1>3. Follows(s, r)
    BY <1>1, <1>2, FollowsOn
  <1>4. Told(s, r)
    BY <1>1 DEF Told
  <1> QED BY <1>1, <1>3, <1>4 DEF Settles, r

LEMMA HandleRSPSettles ==
  ASSUME NEW s, NEW h, Ok(s, h), h.sp > 0, h.swap = swapPending
  PROVE  Settles(s, __scHandleRSP(s), SpTaken(h))
  <1> DEFINE t == s.curRSP
             u == [s EXCEPT !.curRSP = NoTask]
             ended == [u EXCEPT !.state[t] = @ \ {"SP"}]
             left == [u EXCEPT !.state[t] = @ \union {"YIELDED"}, !.gfxList = <<t>> \o @]
             g == SpTaken(h)
  <1>1. Mid(s, h) /\ s \in States /\ h \in Envs
    BY DEF Ok, Mid
  <1>2. g.swap = swapPending
    BY <1>1, UnitTakenEnv
  <1>3. t \in Tasks /\ t # NoTask /\ s.rsp = NoTask
    BY <1>1, MidTypes, KindsOfTask DEF Mid, RspSide
  <1>4. /\ "SP" \in s.state[t]
        /\ s.yielded => "YIELD" \in s.state[t] /\ t \in GfxTasks
        /\ t \in GfxTasks => Begun(s, h, t)
        /\ t \in AudioTasks => s.state[t] = {"SP"}
    BY <1>1, <1>3, KindsOfTask DEF Mid, RspSide
  <1>5. __scHandleRSP(s) = DispatchNow(IF "YIELD" \notin s.state[t] THEN __scTaskComplete(ended, t)
                                       ELSE IF s.yielded THEN left ELSE ended)
    BY <1>3 DEF __scHandleRSP
  <1>6. /\ RspOff(s, ended) /\ ended.gfxList = s.gfxList /\ Unreported(s, ended)
        /\ ended.state = [s.state EXCEPT ![t] = @ \ {"SP"}] /\ ended.yielded = s.yielded
    <2>1. [s.state EXCEPT ![t] = @ \ {"SP"}] \in [Tasks -> SUBSET {"SP", "DP", "YIELD", "YIELDED"}]
      BY <1>1, <1>3 DEF States
    <2>2. ended \in States
      BY <1>1, <2>1 DEF States, TaskOrNone
    <2> QED BY <1>1, <2>2 DEF RspOff, Unreported, States
  <1>7. s.yielded => /\ RspOff(s, left) /\ left.gfxList = <<t>> \o s.gfxList
                     /\ left.state = [s.state EXCEPT ![t] = @ \union {"YIELDED"}]
                     /\ Unreported(s, left)
    <2> SUFFICES ASSUME s.yielded
                 PROVE  /\ RspOff(s, left) /\ left.gfxList = <<t>> \o s.gfxList
                        /\ left.state = [s.state EXCEPT ![t] = @ \union {"YIELDED"}]
                        /\ Unreported(s, left)
      OBVIOUS
    <2>1. [s.state EXCEPT ![t] = @ \union {"YIELDED"}]
            \in [Tasks -> SUBSET {"SP", "DP", "YIELD", "YIELDED"}]
      BY <1>1, <1>3 DEF States
    <2>2. <<t>> \o s.gfxList \in Seq(GfxTasks)
      BY <1>1, <1>4, MidTypes, CountInFront
    <2>3. left \in States
      BY <1>1, <2>1, <2>2 DEF States, TaskOrNone
    <2> QED BY <1>1, <2>3 DEF RspOff, Unreported, States
  <1> HIDE DEF u, ended, left, g
  <1>8. \A v : RspOff(s, v) => Follows(s, v)
    BY <1>1, MidTypes DEF RspOff, Follows
  <1>9. CASE "YIELD" \notin s.state[t]
    <2> DEFINE v == __scTaskComplete(ended, t)
    <2>1. /\ OnlyReports(ended, v)
          /\ ended.state[t] \intersect {"SP", "DP"} # {} => Unreported(ended, v)
          /\ ended.state[t] \intersect {"SP", "DP"} = {} => Reported(ended, v, t)
      BY <1>3, <1>6, CompleteReports DEF RspOff
    <2> HIDE DEF v
    <2>2. RspOff(s, v) /\ v.gfxList = s.gfxList /\ v.state = [s.state EXCEPT ![t] = @ \ {"SP"}]
      BY <1>6, <2>1 DEF RspOff, OnlyReports
    <2>3. "DP" \in s.state[t] <=> ended.state[t] \intersect {"SP", "DP"} # {}
      <3>1. ended.state[t] = s.state[t] \ {"SP"}
        BY <1>1, <1>3, <1>6, MidTypes
      <3> QED BY <3>1
    <2>4. \/ Unreported(s, v) /\ "DP" \in s.state[t]
          \/ Reported(s, v, t) /\ "DP" \notin s.state[t]
      BY <1>6, <2>1, <2>3 DEF Unreported, Reported
    <2>5. ~s.yielded
      BY <1>4, <1>9
    <2>6. Mid(v, g)
      BY <2>2, <2>4, <2>5, RspEndKeepsBooks DEF g
    <2>7. Told(s, v)
      BY <1>3, <2>4 DEF Told, Unreported, Reported
    <2>8. Settles(s, DispatchNow(v), g)
      BY <1>1, <1>2, <1>8, <2>2, <2>6, <2>7, DispatchSettles
    <2> QED BY <1>5, <1>9, <2>8 DEF v, g
  <1>10. CASE "YIELD" \in s.state[t] /\ s.yielded
    <2>1. Mid(left, g)
      BY <1>7, <1>10, RspYieldKeepsBooks DEF g
    <2>2. Told(s, left)
      BY <1>7, <1>10 DEF Told, Unreported
    <2>3. Settles(s, DispatchNow(left), g)
      BY <1>1, <1>2, <1>7, <1>8, <1>10, <2>1, <2>2, DispatchSettles
    <2> QED BY <1>5, <1>10, <2>3 DEF g
  <1>11. CASE "YIELD" \in s.state[t] /\ ~s.yielded
    <2>1. Exact => "DP" \in s.state[t]
      BY <1>3, <1>4, <1>11, KindsOfTask DEF Exact, Begun
    <2>2. Mid(ended, g)
      BY <1>6, <1>11, <2>1, RspEndKeepsBooks DEF g
    <2>3. Told(s, ended)
      BY <1>6 DEF Told, Unreported
    <2>4. Settles(s, DispatchNow(ended), g)
      BY <1>1, <1>2, <1>6, <1>8, <2>2, <2>3, DispatchSettles
    <2> QED BY <1>5, <1>11, <2>4 DEF g
  <1> QED BY <1>9, <1>10, <1>11

LEMMA HandleRDPSettles ==
  ASSUME NEW s, NEW h, Ok(s, h), h.dp > 0, ~SyncEarly /\ s.curRSP \in GfxTasks => h.sp = 0,
         h.swap = swapPending
  PROVE  Settles(s, __scHandleRDP(s), DpTaken(h))
  <1> DEFINE t == s.curRDP
             u == [s EXCEPT !.curRDP = NoTask, !.state[t] = @ \ {"DP"}]
             v == __scTaskComplete(u, t)
             g == DpTaken(h)
  <1>1. Mid(s, h) /\ s \in States /\ h \in Envs
    BY DEF Ok, Mid
  <1>2. g.swap = swapPending
    BY <1>1, UnitTakenEnv
  <1>3. t \in Tasks /\ t # NoTask
    BY <1>1, MidTypes, KindsOfTask DEF Mid, RdpSide
  <1>4. __scHandleRDP(s) = DispatchNow(v)
    BY <1>3 DEF __scHandleRDP
  <1>5. /\ u \in States /\ u.curRDP = NoTask
        /\ u.curRSP = s.curRSP /\ u.rsp = s.rsp /\ u.rdp = s.rdp /\ u.yieldSignal = s.yieldSignal
        /\ u.yielded = s.yielded /\ u.audioList = s.audioList /\ u.gfxList = s.gfxList
        /\ u.doAudio = s.doAudio /\ u.crashed = s.crashed
        /\ u.rspCount = s.rspCount /\ u.rdpCount = s.rdpCount
        /\ u.state = [s.state EXCEPT ![t] = @ \ {"DP"}] /\ Unreported(s, u)
    <2>1. [s.state EXCEPT ![t] = @ \ {"DP"}] \in [Tasks -> SUBSET {"SP", "DP", "YIELD", "YIELDED"}]
      BY <1>1, <1>3 DEF States
    <2>2. u \in States
      BY <1>1, <2>1 DEF States, TaskOrNone
    <2> QED BY <1>1, <2>2 DEF Unreported, States
  <1> HIDE DEF u
  <1>6. /\ OnlyReports(u, v)
        /\ u.state[t] \intersect {"SP", "DP"} # {} => Unreported(u, v)
        /\ u.state[t] \intersect {"SP", "DP"} = {} => Reported(u, v, t)
    BY <1>3, <1>5, CompleteReports
  <1> HIDE DEF v, g
  <1>7. "SP" \in s.state[t] <=> u.state[t] \intersect {"SP", "DP"} # {}
    <2>1. u.state[t] = s.state[t] \ {"DP"}
      BY <1>1, <1>3, <1>5, MidTypes
    <2> QED BY <2>1
  <1>8. \/ Unreported(s, v) /\ "SP" \in s.state[t]
        \/ Reported(s, v, t) /\ "SP" \notin s.state[t]
    BY <1>5, <1>6, <1>7 DEF Unreported, Reported
  <1>9. /\ v \in States /\ v.curRDP = NoTask
        /\ v.curRSP = s.curRSP /\ v.rsp = s.rsp /\ v.rdp = s.rdp /\ v.yieldSignal = s.yieldSignal
        /\ v.yielded = s.yielded /\ v.audioList = s.audioList /\ v.gfxList = s.gfxList
        /\ v.doAudio = s.doAudio /\ v.crashed = s.crashed
        /\ v.rspCount = s.rspCount /\ v.rdpCount = s.rdpCount
        /\ v.state = [s.state EXCEPT ![t] = @ \ {"DP"}]
    BY <1>5, <1>6 DEF OnlyReports
  <1>10. Mid(v, g)
    BY <1>8, <1>9, RdpEndKeepsBooks DEF g
  <1>11. Follows(s, v)
    BY <1>1, <1>9, MidTypes DEF Follows
  <1>12. Told(s, v)
    BY <1>3, <1>8 DEF Told, Unreported, Reported
  <1>13. Settles(s, DispatchNow(v), g)
    BY <1>1, <1>2, <1>10, <1>11, <1>12, DispatchSettles
  <1> QED BY <1>4, <1>13 DEF g

\* r differs from s in counters only.
SameBooks(s, r) ==
  /\ r \in States
  /\ r.state = s.state /\ r.audioList = s.audioList /\ r.gfxList = s.gfxList
  /\ r.curRSP = s.curRSP /\ r.curRDP = s.curRDP /\ r.rsp = s.rsp /\ r.rdp = s.rdp
  /\ r.doAudio = s.doAudio /\ r.yieldSignal = s.yieldSignal /\ r.yielded = s.yielded
  /\ r.crashed = s.crashed /\ r.done = s.done /\ r.unkTask = s.unkTask

LEMMA CountersDoNotMatter ==
  ASSUME NEW s, NEW h, NEW r, Ok(s, h), SameBooks(s, r)
  PROVE  Ok(r, h) /\ Told(s, r)
  <1>1. /\ r \in States
        /\ r.state = s.state /\ r.audioList = s.audioList /\ r.gfxList = s.gfxList
        /\ r.curRSP = s.curRSP /\ r.curRDP = s.curRDP /\ r.rsp = s.rsp /\ r.rdp = s.rdp
        /\ r.doAudio = s.doAudio /\ r.yieldSignal = s.yieldSignal /\ r.yielded = s.yielded
        /\ r.crashed = s.crashed /\ r.done = s.done /\ r.unkTask = s.unkTask
    BY DEF SameBooks
  <1>2. \A t : In(r, t) = In(s, t) /\ Runs(r, t) = Runs(s, t) /\ (Begun(s, h, t) <=> Begun(r, h, t))
    BY <1>1 DEF In, Runs, Begun
  <1>3. \A t : Places(r, h, t) = Places(s, h, t)
    BY <1>1, <1>2 DEF Places
  <1>4. OncePlaced(r, h)
    BY <1>3 DEF Ok, Mid, OncePlaced
  <1>5. RspSide(r, h)
    BY <1>1, <1>2 DEF Ok, Mid, RspSide
  <1>6. RdpSide(r, h)
    BY <1>1 DEF Ok, Mid, RdpSide
  <1>7. YieldedSide(r, h) /\ ClientSide(r, h)
    BY <1>1, <1>2 DEF Ok, Mid, YieldedSide, ClientSide
  <1>8. Mid(r, h)
    BY <1>1, <1>4, <1>5, <1>6, <1>7 DEF Ok, Mid
  <1> QED BY <1>1, <1>8 DEF Ok, Told

\* The request to yield, where audio waits and a graphics task is on the RSP.
LEMMA YieldRequestKeepsBooks ==
  ASSUME NEW s, NEW h, Mid(s, h), s.curRSP # NoTask
  PROVE  LET r == __scYield(s)
         IN Ok(r, h) /\ Follows(s, r) /\ r.done = s.done
  <1> DEFINE t == s.curRSP
             r == __scYield(s)
  <1>0. Mid(s, h) /\ s \in States
    BY DEF Mid
  <1>1. CASE t \notin GfxTasks
    <2>1. r = s
      BY <1>1 DEF __scYield
    <2>2. Follows(s, s)
      BY MidTypes DEF Follows
    <2> QED BY <2>1, <2>2 DEF Ok
  <1>2. CASE t \in GfxTasks
    <2>1. t \in Tasks
      BY <1>2, KindsOfTask
    <2>2. [s.state EXCEPT ![t] = @ \union {"YIELD"}]
            \in [Tasks -> SUBSET {"SP", "DP", "YIELD", "YIELDED"}]
      BY <1>0, <2>1 DEF States
    <2>3. r \in States
      BY <1>0, <1>2, <2>2 DEF States, __scYield
    <2>4. /\ r.state = [s.state EXCEPT ![t] = @ \union {"YIELD"}]
          /\ r.audioList = s.audioList /\ r.gfxList = s.gfxList
          /\ r.curRSP = s.curRSP /\ r.curRDP = s.curRDP /\ r.rsp = s.rsp /\ r.rdp = s.rdp
          /\ r.doAudio = s.doAudio /\ r.yielded = s.yielded
          /\ r.crashed = s.crashed /\ r.done = s.done /\ r.unkTask = s.unkTask
          /\ r.rspCount = s.rspCount /\ r.rdpCount = s.rdpCount
      BY <1>0, <1>2 DEF States, __scYield
    <2> HIDE DEF r
    <2>5. /\ \A u \in Tasks : u # t => r.state[u] = s.state[u]
          /\ r.state[t] = s.state[t] \union {"YIELD"}
      BY <1>0, <2>1, <2>4, MidTypes
    <2>6. /\ \A u : In(r, u) = In(s, u) /\ Runs(r, u) = Runs(s, u)
          /\ \A u \in Tasks : Begun(s, h, u) => Begun(r, h, u)
      BY <2>4, <2>5 DEF In, Runs, Begun
    <2>7. In(s, t) = 0 /\ "YIELDED" \notin s.state[t]
      <3>1. "YIELDED" \notin s.state[t]
        BY <1>0, <2>1 DEF Mid, RspSide
      <3>2. In(s, t) > 0 => s.curRSP # t
        BY <1>0, <2>1, ListedOnly
      <3> QED BY <1>0, <2>1, <3>1, <3>2, MidTypes
    <2>8. OncePlaced(r, h)
      <3>1. \A u : Places(r, h, u) = Places(s, h, u)
        BY <2>4, <2>6 DEF Places
      <3> QED BY <1>0, <3>1 DEF Mid, OncePlaced
    <2>9. RspSide(r, h)
      BY <1>0, <1>2, <2>4, <2>5, <2>6, KindsOfTask DEF Mid, RspSide
    <2>10. RdpSide(r, h)
      BY <1>0, <2>4, <2>5 DEF Mid, RdpSide
    <2>11. YieldedSide(r, h) /\ ClientSide(r, h)
      BY <1>0, <2>4, <2>5, <2>6, <2>7 DEF Mid, YieldedSide, ClientSide
    <2>12. Mid(r, h)
      BY <1>0, <2>3, <2>4, <2>8, <2>9, <2>10, <2>11 DEF Mid
    <2>13. Ok(r, h)
      BY <2>4, <2>12 DEF Ok
    <2>14. Follows(s, r)
      BY <1>0, <2>4, MidTypes DEF Follows
    <2> QED BY <2>4, <2>13, <2>14 DEF r
  <1> QED BY <1>1, <1>2

LEMMA AudioWantedSettles ==
  ASSUME NEW s, NEW h, Ok(s, h), h.swap = swapPending
  PROVE  /\ Settles(s, func_80050670(s), h)
         /\ func_80050670(s).done = s.done
  <1> DEFINE u == [s EXCEPT !.doAudio = @ \/ s.audioList # <<>>]
             r == func_80050670(s)
  <1>1. Mid(s, h) /\ s \in States
    BY DEF Ok, Mid
  <1>2. u \in States
    BY <1>1 DEF States
  <1>3. /\ u.state = s.state /\ u.audioList = s.audioList /\ u.gfxList = s.gfxList
        /\ u.curRSP = s.curRSP /\ u.curRDP = s.curRDP /\ u.rsp = s.rsp /\ u.rdp = s.rdp
        /\ u.yieldSignal = s.yieldSignal /\ u.yielded = s.yielded
        /\ u.crashed = s.crashed /\ u.done = s.done /\ u.unkTask = s.unkTask
        /\ u.rspCount = s.rspCount /\ u.rdpCount = s.rdpCount
        /\ u.doAudio => s.audioList # <<>>
    BY <1>1 DEF States, Mid
  <1>4. r = IF u.doAudio /\ u.curRSP # NoTask THEN __scYield(u) ELSE DispatchNow(u)
    BY DEF func_80050670
  <1> HIDE DEF u, r
  <1>5. Mid(u, h)
    <2>1. \A t : In(u, t) = In(s, t) /\ Runs(u, t) = Runs(s, t) /\ (Begun(s, h, t) <=> Begun(u, h, t))
      BY <1>3 DEF In, Runs, Begun
    <2>2. \A t : Places(u, h, t) = Places(s, h, t)
      BY <1>3, <2>1 DEF Places
    <2>3. OncePlaced(u, h)
      BY <1>1, <2>2 DEF Mid, OncePlaced
    <2>4. RspSide(u, h)
      BY <1>1, <1>3, <2>1 DEF Mid, RspSide
    <2>5. RdpSide(u, h)
      BY <1>1, <1>3 DEF Mid, RdpSide
    <2>6. YieldedSide(u, h) /\ ClientSide(u, h)
      BY <1>1, <1>3, <2>1 DEF Mid, YieldedSide, ClientSide
    <2> QED BY <1>1, <1>2, <1>3, <2>3, <2>4, <2>5, <2>6 DEF Mid
  <1>6. Ok(r, h) /\ Follows(u, r) /\ r.done = u.done
    <2>1. CASE u.doAudio /\ u.curRSP # NoTask
      BY <1>4, <1>5, <2>1, YieldRequestKeepsBooks
    <2>2. CASE ~(u.doAudio /\ u.curRSP # NoTask)
      BY <1>4, <1>5, <2>2, DispatchKeepsBooks
    <2> QED BY <2>1, <2>2
  <1>7. Follows(s, u)
    BY <1>1, <1>3, MidTypes DEF Follows
  <1>8. Follows(s, r)
    BY <1>1, <1>2, <1>6, <1>7, FollowsOn DEF Ok, Mid
  <1> QED BY <1>3, <1>6, <1>8 DEF Settles, Told, r

\* The message that was put off goes out.
LEMMA CountFrameSettles ==
  ASSUME NEW s, NEW h, Ok(s, h)
  PROVE  Settles(s, CountFrame(s), h)
  <1> DEFINE t == s.unkTask
             u == [s EXCEPT !.frameCount = Capped(@ + 1, 2)]
             r == [Reply(u, u.unkTask) EXCEPT !.frameCount = 0, !.unkTask = NoTask]
  <1>1. Mid(s, h) /\ s \in States
    BY DEF Ok, Mid
  <1>2. /\ SameBooks(s, u)
        /\ u.rspCount = s.rspCount /\ u.rdpCount = s.rdpCount
    <2>1. s.frameCount \in 0 .. 2 /\ Capped(s.frameCount + 1, 2) \in 0 .. 2
      BY <1>1 DEF States, Capped
    <2>2. u \in States
      BY <1>1, <2>1 DEF States
    <2> QED BY <1>1, <2>2 DEF States, SameBooks
  <1>3. Ok(u, h) /\ Told(s, u)
    BY <1>2, CountersDoNotMatter
  <1>4. Follows(s, u)
    BY <1>1, <1>2, MidTypes DEF SameBooks, Follows
  <1>5. CountFrame(s) = IF u.unkTask # NoTask /\ u.frameCount >= 2 THEN r ELSE u
    BY DEF CountFrame
  <1>6. CASE ~(u.unkTask # NoTask /\ u.frameCount >= 2)
    BY <1>3, <1>4, <1>5, <1>6 DEF Settles
  <1>7. CASE u.unkTask # NoTask
    <2>1. t \in Tasks /\ u.unkTask = t /\ u \in States
      BY <1>1, <1>2, <1>7, KindsOfTask DEF Mid, ClientSide, SameBooks
    <2> HIDE DEF u
    <2>2. [u.done EXCEPT ![t] = @ + 1] \in [Tasks -> Nat]
      BY <2>1 DEF States
    <2>3. r \in States
      <3> DEFINE v == Reply(u, t)
      <3>1. v \in States
        BY <2>1, <2>2 DEF States, Reply
      <3> HIDE DEF v
      <3>2. 0 \in 0 .. 2 /\ NoTask \in TaskOrNone
        BY DEF TaskOrNone
      <3>3. [v EXCEPT !.frameCount = 0, !.unkTask = NoTask] \in States
        BY <3>1, <3>2 DEF States
      <3> QED BY <2>1, <3>3 DEF v
    <2>4. /\ r.state = u.state /\ r.audioList = u.audioList /\ r.gfxList = u.gfxList
          /\ r.curRSP = u.curRSP /\ r.curRDP = u.curRDP /\ r.rsp = u.rsp /\ r.rdp = u.rdp
          /\ r.doAudio = u.doAudio /\ r.yieldSignal = u.yieldSignal /\ r.yielded = u.yielded
          /\ r.rspCount = u.rspCount /\ r.rdpCount = u.rdpCount /\ r.crashed = u.crashed
          /\ r.done = [u.done EXCEPT ![t] = @ + 1] /\ r.unkTask = NoTask
      BY <2>1 DEF States, Reply
    <2> HIDE DEF r, t
    <2>5. Mid(u, h)
      BY <1>3 DEF Ok
    <2>6. \A x : In(r, x) = In(u, x) /\ Runs(r, x) = Runs(u, x) /\ (Begun(u, h, x) <=> Begun(r, h, x))
      BY <2>4 DEF In, Runs, Begun
    <2>7. \A x \in Tasks : r.done[x] = u.done[x] + (IF x = t THEN 1 ELSE 0)
      BY <2>1, <2>4, <2>5, MidTypes
    <2>8. ASSUME NEW x \in Tasks PROVE Places(r, h, x) = Places(u, h, x)
      <3>1. /\ h.w[x] \in Nat /\ In(u, x) \in Nat /\ Runs(u, x) \in Nat /\ u.done[x] \in Nat
        BY <2>5, MidTypes
      <3>2. /\ In(r, x) = In(u, x) /\ Runs(r, x) = Runs(u, x)
            /\ r.done[x] = u.done[x] + (IF x = t THEN 1 ELSE 0)
        BY <2>6, <2>7
      <3>3. r.unkTask # x /\ (u.unkTask = x <=> x = t)
        BY <2>1, <2>4, KindsOfTask
      <3> QED BY <3>1, <3>2, <3>3 DEF Places
    <2>9. OncePlaced(r, h)
      BY <2>5, <2>8 DEF Mid, OncePlaced
    <2>10. RspSide(r, h) /\ RdpSide(r, h) /\ YieldedSide(r, h)
      BY <2>4, <2>5, <2>6 DEF Mid, RspSide, RdpSide, YieldedSide
    <2>11. ClientSide(r, h)
      BY <2>1, <2>4, <2>5, <2>6, <2>7, KindsOfTask DEF Mid, ClientSide
    <2>12. Mid(r, h)
      BY <2>3, <2>4, <2>5, <2>9, <2>10, <2>11 DEF Mid
    <2>13. Ok(r, h)
      BY <1>3, <2>4, <2>12 DEF Ok
    <2>14. Follows(s, r)
      BY <1>4, <2>4 DEF Follows
    <2>15. Told(s, r)
      BY <1>2, <2>1, <2>4 DEF SameBooks, Told
    <2> QED BY <1>3, <1>4, <1>5, <2>13, <2>14, <2>15 DEF Settles
  <1> QED BY <1>6, <1>7

LEMMA TellAudioSettles ==
  ASSUME NEW s, NEW h, NEW n \in FrameCounts, Ok(s, h), h.swap = swapPending
  PROVE  LET r == TellAudio(s, n)
         IN Ok(r, h) /\ Follows(s, r) /\ r.done = s.done
  <1> DEFINE u == [s EXCEPT !.nextFrame = @ - 1]
             v == IF u.audioList # <<>> THEN func_80050670(u) ELSE u
             w == [v EXCEPT !.nextFrame = n]
  <1>1. Mid(s, h) /\ s \in States /\ n \in Int
    BY SchedAssumption DEF Ok, Mid
  <1>2. SameBooks(s, u) /\ u.rspCount = s.rspCount /\ u.rdpCount = s.rdpCount
    <2>1. s.nextFrame - 1 \in Int
      BY <1>1 DEF States
    <2>2. u \in States
      BY <1>1, <2>1 DEF States
    <2> QED BY <1>1, <2>2 DEF States, SameBooks
  <1>3. TellAudio(s, n) = IF u.nextFrame > 0 THEN u ELSE w
    BY DEF TellAudio
  <1> HIDE DEF u
  <1>4. Ok(u, h) /\ u.done = s.done
    BY <1>2, CountersDoNotMatter DEF SameBooks
  <1>5. Follows(s, u) /\ Follows(u, u) /\ Mid(u, h) /\ u \in States
    <2>1. Mid(u, h) /\ u \in States
      BY <1>4 DEF Ok, Mid
    <2> QED BY <1>1, <1>2, <2>1, MidTypes DEF SameBooks, Follows
  <1>6. Ok(v, h) /\ Follows(u, v) /\ v.done = u.done
    BY <1>4, <1>5, AudioWantedSettles DEF Settles
  <1> HIDE DEF v
  <1>7. SameBooks(v, w) /\ w.rspCount = v.rspCount /\ w.rdpCount = v.rdpCount /\ v \in States
    <2>1. v \in States
      BY <1>6 DEF Ok, Mid
    <2>2. w \in States
      BY <1>1, <2>1 DEF States
    <2> QED BY <2>1, <2>2 DEF States, SameBooks
  <1> HIDE DEF w
  <1>8. Ok(w, h) /\ w.done = s.done
    BY <1>4, <1>6, <1>7, CountersDoNotMatter DEF SameBooks
  <1>9. Follows(s, w)
    <2>1. Follows(v, w)
      <3>1. Mid(v, h)
        BY <1>6 DEF Ok
      <3> QED BY <1>7, <3>1, MidTypes DEF SameBooks, Follows
    <2>2. w \in States
      BY <1>7 DEF SameBooks
    <2>3. Follows(s, v)
      BY <1>1, <1>5, <1>6, <1>7, FollowsOn
    <2> QED BY <1>1, <1>7, <2>1, <2>2, <2>3, FollowsOn
  <1> QED BY <1>3, <1>4, <1>5, <1>8, <1>9

\* What a message leaves of the units' work: the RSP's end that is on the way
\* is that of the task that was running.
Goes(s, r) ==
  /\ r.rdp = s.rdp /\ Told(s, r)
  /\ r.curRSP # NoTask /\ r.rsp = NoTask => r.curRSP = s.curRSP /\ s.rsp = NoTask

LEMMA HandleRetraceSettles ==
  ASSUME NEW s, NEW h, NEW n \in FrameCounts, NEW found, NEW told, Ok(s, h), OnTime(s, 1), h.swap = swapPending,
         cmdQ \in Seq(Tasks), \A t \in Tasks : Count(cmdQ, t) <= h.w[t]
  PROVE  LET r == __scHandleRetrace(s, n, found, told)
         IN Ok(r, AllTaken(h, cmdQ)) /\ OnTime(r, 0) /\ Goes(s, r)
  <1> DEFINE u == CountRetrace(s)
             a == AppendAll(u, cmdQ)
             b == DispatchNow(a)
             c == CountFrame(b)
             r == TellAudio(c, n)
             g == AllTaken(h, cmdQ)
  <1>1. Mid(s, h) /\ s \in States /\ h \in Envs
    BY DEF Ok, Mid
  <1>2. g.swap = swapPending
    BY <1>1 DEF AllTaken, Envs
  <1>3. /\ SameBooks(s, u)
        /\ u.rspCount = IF s.curRSP = NoTask THEN s.rspCount ELSE s.rspCount + 1
        /\ u.rdpCount = IF s.curRDP = NoTask THEN s.rdpCount ELSE s.rdpCount + 1
    <2> DEFINE rsp == IF s.curRSP = NoTask THEN s.rspCount ELSE s.rspCount + 1
               rdp == IF s.curRDP = NoTask THEN s.rdpCount ELSE s.rdpCount + 1
    <2>1. rsp \in Nat /\ rdp \in Nat
      BY <1>1 DEF States
    <2>2. u = [s EXCEPT !.rspCount = rsp, !.rdpCount = rdp]
      BY <1>1 DEF States, CountRetrace
    <2>3. u \in States
      <3> HIDE DEF rsp, rdp, u
      <3> QED BY <1>1, <2>1, <2>2 DEF States
    <2> QED BY <1>1, <2>3 DEF States, SameBooks, CountRetrace
  <1>4. WatchdogLimit \in Nat /\ s.rspCount \in Nat /\ s.rdpCount \in Nat
    BY <1>1, MidTypes, SchedAssumption
  <1>5. Ok(u, h) /\ u \in States
    BY <1>3, CountersDoNotMatter DEF SameBooks
  <1> HIDE DEF u
  <1>6. /\ u.curRSP # NoTask => u.rspCount <= WatchdogLimit
        /\ u.curRDP # NoTask => u.rdpCount <= WatchdogLimit
    BY <1>3, <1>4 DEF SameBooks, OnTime
  <1>7. u.rspCount \in Nat /\ u.rdpCount \in Nat
    BY <1>3, <1>4
  <1>8. ~RspExpired(u) /\ ~RdpExpired(u)
    BY <1>4, <1>6, <1>7 DEF RspExpired, RdpExpired
  <1>9. HaltExpired(u) = u /\ ~ShowsScreen(u, found)
    BY <1>8 DEF HaltExpired, ShowsScreen
  <1>10. __scHandleRetrace(s, n, found, told) = r
    BY <1>8, <1>9 DEF __scHandleRetrace, u
  <1>11. Mid(a, g) /\ Follows(u, a) /\ a.done = u.done
    BY <1>5, AcceptAllKeepsBooks DEF Ok
  <1> HIDE DEF a, g
  <1>12. Ok(b, g) /\ Follows(a, b) /\ b.done = a.done
    BY <1>2, <1>11, DispatchKeepsBooks
  <1> HIDE DEF b
  <1>13. Ok(c, g) /\ Follows(b, c) /\ Told(b, c)
    BY <1>12, CountFrameSettles DEF Settles
  <1> HIDE DEF c
  <1>14. Ok(r, g) /\ Follows(c, r) /\ r.done = c.done
    BY <1>2, <1>13, TellAudioSettles
  <1> HIDE DEF r
  <1>15. a \in States /\ b \in States /\ c \in States /\ r \in States
    BY <1>11, <1>12, <1>13, <1>14 DEF Ok, Mid
  <1>16. Follows(u, r)
    <2>1. Follows(u, b)
      BY <1>5, <1>11, <1>12, <1>15, FollowsOn
    <2>2. Follows(u, c)
      BY <1>5, <1>13, <1>15, <2>1, FollowsOn
    <2> QED BY <1>5, <1>14, <1>15, <2>2, FollowsOn
  <1>17. Told(s, r)
    BY <1>3, <1>11, <1>12, <1>13, <1>14 DEF Told, SameBooks
  <1>18. Goes(s, r)
    BY <1>3, <1>16, <1>17 DEF Goes, Follows, SameBooks
  <1>19. OnTime(r, 0)
    <2>1. r.rspCount \in Nat /\ r.rdpCount \in Nat
      BY <1>14, MidTypes DEF Ok
    <2> QED BY <1>4, <1>6, <1>7, <1>16, <2>1 DEF OnTime, Follows
  <1> QED BY <1>10, <1>14, <1>18, <1>19 DEF r, g

-----------------------------------------------------------------------------
(* The scheduler's steps.                                                  *)

LEMMA MessagesApart ==
  /\ \A t, u \in Tasks : TaskMsg(t) = TaskMsg(u) => t = u
  /\ \A t \in Tasks : /\ TaskMsg(t) # VIDEO_MSG /\ TaskMsg(t) # RSP_DONE_MSG
                      /\ TaskMsg(t) # RDP_DONE_MSG /\ TaskMsg(t) # UNK_MSG
  /\ VIDEO_MSG # RSP_DONE_MSG /\ VIDEO_MSG # RDP_DONE_MSG /\ RSP_DONE_MSG # RDP_DONE_MSG
  /\ UNK_MSG # VIDEO_MSG /\ UNK_MSG # RSP_DONE_MSG /\ UNK_MSG # RDP_DONE_MSG
  BY DEF TaskMsg, VIDEO_MSG, RSP_DONE_MSG, RDP_DONE_MSG, UNK_MSG

LEMMA EnvTypes ==
  ASSUME Typed
  PROVE  /\ Env \in Envs
         /\ \A t \in Tasks : /\ Count(interruptQ, TaskMsg(t)) \in Nat /\ Count(cmdQ, t) \in Nat
                             /\ Env.w[t] = Count(interruptQ, TaskMsg(t)) + Count(cmdQ, t)
         /\ \A x : Count(interruptQ, x) \in Nat
         /\ Env.prog = progress /\ Env.swap = swapPending
         /\ Env.sp = Count(interruptQ, RSP_DONE_MSG) /\ Env.dp = Count(interruptQ, RDP_DONE_MSG)
  <1>1. \A x : Count(interruptQ, x) \in Nat /\ Count(cmdQ, x) \in Nat
    BY CountNat DEF Typed, TypeOK
  <1>2. \A t \in Tasks : Queued(t) = Count(interruptQ, TaskMsg(t)) + Count(cmdQ, t) /\ Queued(t) \in Nat
    BY <1>1 DEF Queued
  <1>3. [t \in Tasks |-> Queued(t)] \in [Tasks -> Nat]
    BY <1>2
  <1>4. /\ progress \in [Tasks -> {"idle", "work", "synced", "finished"}]
        /\ swapPending \in BOOLEAN
    BY DEF Typed, TypeOK, Progresses
  <1>5. Env \in Envs
    BY <1>1, <1>3, <1>4 DEF Env, Envs
  <1>6. \A t \in Tasks : Env.w[t] = Queued(t)
    BY DEF Env
  <1>7. /\ Env.prog = progress /\ Env.swap = swapPending
        /\ Env.sp = Count(interruptQ, RSP_DONE_MSG) /\ Env.dp = Count(interruptQ, RDP_DONE_MSG)
    BY DEF Env
  <1> QED BY <1>1, <1>2, <1>5, <1>6, <1>7

\* The environment after a step is known when its pieces are.
LEMMA NextEnv ==
  ASSUME NEW g \in Envs, g.prog = progress', g.swap = swapPending',
         \A t \in Tasks : g.w[t] = Count(interruptQ', TaskMsg(t)) + Count(cmdQ', t),
         g.sp = Count(interruptQ', RSP_DONE_MSG), g.dp = Count(interruptQ', RDP_DONE_MSG)
  PROVE  Env' = g
  <1> DEFINE w == [t \in Tasks |-> Count(interruptQ', TaskMsg(t)) + Count(cmdQ', t)]
  <1>1. g.w \in [Tasks -> Nat]
    BY DEF Envs
  <1>2. g.w = w
    BY <1>1
  <1>3. Env' = [w |-> w, sp |-> Count(interruptQ', RSP_DONE_MSG),
                dp |-> Count(interruptQ', RDP_DONE_MSG),
                prog |-> progress', swap |-> swapPending']
    BY DEF Env, Queued, RSP_DONE_MSG, RDP_DONE_MSG, TaskMsg
  <1>4. g = [w |-> g.w, sp |-> g.sp, dp |-> g.dp, prog |-> g.prog, swap |-> g.swap]
    BY DEF Envs
  <1> HIDE DEF w
  <1> QED BY <1>2, <1>3, <1>4

\* The message taken from the queue.
Took(msg) ==
  /\ interruptQ # <<>> /\ Head(interruptQ) = msg /\ interruptQ' = Tail(interruptQ)
  /\ interruptQ' \in Seq(Messages)
  /\ progress' = progress /\ swapPending' = swapPending
  /\ \A x : Count(interruptQ', x) = Count(interruptQ, x) - (IF msg = x THEN 1 ELSE 0)

LEMMA ReceivesTakes ==
  ASSUME Typed, NEW kind, Receives(kind)
  PROVE  /\ kind = "video" => Took(VIDEO_MSG)
         /\ kind = "sp" => Took(RSP_DONE_MSG)
         /\ kind = "dp" => Took(RDP_DONE_MSG)
         /\ kind = "audio" => Took(UNK_MSG)
         /\ kind = "task" => Head(interruptQ).task \in Tasks /\ Took(TaskMsg(Head(interruptQ).task))
  <1> DEFINE m == Head(interruptQ)
  <1>1. /\ interruptQ # <<>> /\ interruptQ' = Tail(interruptQ) /\ m.kind = kind
        /\ progress' = progress /\ swapPending' = swapPending
    BY DEF Receives
  <1>2. interruptQ \in Seq(Messages)
    BY DEF Typed, TypeOK
  <1>3. /\ interruptQ' \in Seq(Messages) /\ m \in Messages
        /\ \A x : Count(interruptQ, x) = Count(interruptQ', x) + (IF m = x THEN 1 ELSE 0)
    BY <1>1, <1>2, CountTail
  <1>4. \A x : Count(interruptQ', x) \in Nat
    BY <1>3, CountNat
  <1>5. Took(m)
    BY <1>1, <1>3, <1>4 DEF Took
  <1>6. \/ m = VIDEO_MSG /\ kind = "video"
        \/ m = RSP_DONE_MSG /\ kind = "sp"
        \/ m = RDP_DONE_MSG /\ kind = "dp"
        \/ m = UNK_MSG /\ kind = "audio"
        \/ m.task \in Tasks /\ m = TaskMsg(m.task) /\ kind = "task"
    BY <1>1, <1>3 DEF Messages, VIDEO_MSG, RSP_DONE_MSG, RDP_DONE_MSG, UNK_MSG, TaskMsg
  <1> QED BY <1>5, <1>6

LEMMA VideoEnv ==
  ASSUME Typed, Took(VIDEO_MSG), cmdQ' = <<>>
  PROVE  /\ Env' = AllTaken(Env, cmdQ)
         /\ \A t \in Tasks : Count(cmdQ, t) <= Env.w[t]
         /\ Count(interruptQ, VIDEO_MSG) = Count(interruptQ', VIDEO_MSG) + 1
  <1> DEFINE h == Env
             g == AllTaken(h, cmdQ)
  <1>1. /\ h \in Envs
        /\ \A t \in Tasks : /\ Count(interruptQ, TaskMsg(t)) \in Nat /\ Count(cmdQ, t) \in Nat
                            /\ h.w[t] = Count(interruptQ, TaskMsg(t)) + Count(cmdQ, t)
        /\ \A x : Count(interruptQ, x) \in Nat
        /\ h.prog = progress /\ h.swap = swapPending
        /\ h.sp = Count(interruptQ, RSP_DONE_MSG) /\ h.dp = Count(interruptQ, RDP_DONE_MSG)
    BY EnvTypes
  <1> HIDE DEF h
  <1> DEFINE w == [t \in Tasks |-> h.w[t] - Count(cmdQ, t)]
  <1>2. w \in [Tasks -> Nat] /\ \A t \in Tasks : w[t] = Count(interruptQ, TaskMsg(t))
    BY <1>1
  <1>10. g = [h EXCEPT !.w = w]
    BY DEF AllTaken
  <1> HIDE DEF w, g
  <1>3. /\ g \in Envs /\ g.prog = progress /\ g.swap = swapPending
        /\ \A t \in Tasks : g.w[t] = Count(interruptQ, TaskMsg(t))
        /\ g.sp = Count(interruptQ, RSP_DONE_MSG) /\ g.dp = Count(interruptQ, RDP_DONE_MSG)
    BY <1>1, <1>2, <1>10 DEF Envs
  <1>4. /\ progress' = progress /\ swapPending' = swapPending
        /\ \A x : Count(interruptQ', x) = Count(interruptQ, x) - (IF VIDEO_MSG = x THEN 1 ELSE 0)
    BY DEF Took
  <1>5. \A t \in Tasks : g.w[t] = Count(interruptQ', TaskMsg(t)) + Count(cmdQ', t)
    BY <1>1, <1>3, <1>4, MessagesApart, CountEmpty
  <1>6. g.sp = Count(interruptQ', RSP_DONE_MSG) /\ g.dp = Count(interruptQ', RDP_DONE_MSG)
    BY <1>1, <1>3, <1>4, MessagesApart
  <1>7. Env' = g
    BY <1>3, <1>4, <1>5, <1>6, NextEnv
  <1>8. \A t \in Tasks : Count(cmdQ, t) <= h.w[t]
    BY <1>1
  <1>9. Count(interruptQ, VIDEO_MSG) = Count(interruptQ', VIDEO_MSG) + 1
    BY <1>1, <1>4
  <1> QED BY <1>7, <1>8, <1>9 DEF g, h

LEMMA UnitEnv ==
  ASSUME Typed, cmdQ' = cmdQ
  PROVE  /\ Took(RSP_DONE_MSG) =>
              /\ Env.sp > 0 /\ Env' = SpTaken(Env)
              /\ Count(interruptQ', VIDEO_MSG) = Count(interruptQ, VIDEO_MSG)
         /\ Took(RDP_DONE_MSG) =>
              /\ Env.dp > 0 /\ Env' = DpTaken(Env)
              /\ Count(interruptQ', VIDEO_MSG) = Count(interruptQ, VIDEO_MSG)
         /\ Took(UNK_MSG) =>
              Env' = Env /\ Count(interruptQ', VIDEO_MSG) = Count(interruptQ, VIDEO_MSG)
  <1> DEFINE h == Env
  <1>1. /\ h \in Envs
        /\ \A t \in Tasks : /\ Count(interruptQ, TaskMsg(t)) \in Nat /\ Count(cmdQ, t) \in Nat
                            /\ h.w[t] = Count(interruptQ, TaskMsg(t)) + Count(cmdQ, t)
        /\ \A x : Count(interruptQ, x) \in Nat
        /\ h.prog = progress /\ h.swap = swapPending
        /\ h.sp = Count(interruptQ, RSP_DONE_MSG) /\ h.dp = Count(interruptQ, RDP_DONE_MSG)
    BY EnvTypes
  <1> HIDE DEF h
  <1>2. ASSUME NEW m, Took(m)
        PROVE  /\ progress' = progress /\ swapPending' = swapPending
               /\ \A x : Count(interruptQ', x) = Count(interruptQ, x) - (IF m = x THEN 1 ELSE 0)
               /\ \A x : Count(interruptQ', x) \in Nat
               /\ Count(interruptQ, m) > 0
    <2>1. /\ progress' = progress /\ swapPending' = swapPending
          /\ \A x : Count(interruptQ', x) = Count(interruptQ, x) - (IF m = x THEN 1 ELSE 0)
          /\ interruptQ' \in Seq(Messages)
      BY <1>2 DEF Took
    <2>2. \A x : Count(interruptQ', x) \in Nat
      BY <2>1, CountNat
    <2>3. Count(interruptQ, m) > 0
      BY <1>1, <2>1, <2>2
    <2> QED BY <2>1, <2>2, <2>3
  <1>3. ASSUME Took(RSP_DONE_MSG)
        PROVE  /\ h.sp > 0 /\ Env' = SpTaken(h)
               /\ Count(interruptQ', VIDEO_MSG) = Count(interruptQ, VIDEO_MSG)
    <2> DEFINE g == SpTaken(h)
    <2>1. /\ progress' = progress /\ swapPending' = swapPending
          /\ \A x : Count(interruptQ', x)
                      = Count(interruptQ, x) - (IF RSP_DONE_MSG = x THEN 1 ELSE 0)
          /\ h.sp > 0
      BY <1>1, <1>2, <1>3
    <2>2. /\ g \in Envs /\ g.sp = h.sp - 1 /\ g.w = h.w /\ g.dp = h.dp
          /\ g.prog = h.prog /\ g.swap = h.swap
      BY <1>1, <2>1, UnitTakenEnv
    <2> HIDE DEF g
    <2>3. /\ \A t \in Tasks : g.w[t] = Count(interruptQ', TaskMsg(t)) + Count(cmdQ', t)
          /\ g.sp = Count(interruptQ', RSP_DONE_MSG) /\ g.dp = Count(interruptQ', RDP_DONE_MSG)
          /\ Count(interruptQ', VIDEO_MSG) = Count(interruptQ, VIDEO_MSG)
      BY <1>1, <2>1, <2>2, MessagesApart
    <2>4. Env' = g
      BY <1>1, <2>1, <2>2, <2>3, NextEnv
    <2> QED BY <2>1, <2>3, <2>4 DEF g
  <1>4. ASSUME Took(RDP_DONE_MSG)
        PROVE  /\ h.dp > 0 /\ Env' = DpTaken(h)
               /\ Count(interruptQ', VIDEO_MSG) = Count(interruptQ, VIDEO_MSG)
    <2> DEFINE g == DpTaken(h)
    <2>1. /\ progress' = progress /\ swapPending' = swapPending
          /\ \A x : Count(interruptQ', x)
                      = Count(interruptQ, x) - (IF RDP_DONE_MSG = x THEN 1 ELSE 0)
          /\ h.dp > 0
      BY <1>1, <1>2, <1>4
    <2>2. /\ g \in Envs /\ g.dp = h.dp - 1 /\ g.w = h.w /\ g.sp = h.sp
          /\ g.prog = h.prog /\ g.swap = h.swap
      BY <1>1, <2>1, UnitTakenEnv
    <2> HIDE DEF g
    <2>3. /\ \A t \in Tasks : g.w[t] = Count(interruptQ', TaskMsg(t)) + Count(cmdQ', t)
          /\ g.sp = Count(interruptQ', RSP_DONE_MSG) /\ g.dp = Count(interruptQ', RDP_DONE_MSG)
          /\ Count(interruptQ', VIDEO_MSG) = Count(interruptQ, VIDEO_MSG)
      BY <1>1, <2>1, <2>2, MessagesApart
    <2>4. Env' = g
      BY <1>1, <2>1, <2>2, <2>3, NextEnv
    <2> QED BY <2>1, <2>3, <2>4 DEF g
  <1>5. ASSUME Took(UNK_MSG)
        PROVE  Env' = h /\ Count(interruptQ', VIDEO_MSG) = Count(interruptQ, VIDEO_MSG)
    <2>1. /\ progress' = progress /\ swapPending' = swapPending
          /\ \A x : Count(interruptQ', x)
                      = Count(interruptQ, x) - (IF UNK_MSG = x THEN 1 ELSE 0)
      BY <1>2, <1>5
    <2>2. /\ \A t \in Tasks : h.w[t] = Count(interruptQ', TaskMsg(t)) + Count(cmdQ', t)
          /\ h.sp = Count(interruptQ', RSP_DONE_MSG) /\ h.dp = Count(interruptQ', RDP_DONE_MSG)
          /\ Count(interruptQ', VIDEO_MSG) = Count(interruptQ, VIDEO_MSG)
      BY <1>1, <2>1, MessagesApart
    <2> QED BY <1>1, <2>1, <2>2, NextEnv
  <1> QED BY <1>3, <1>4, <1>5 DEF h

LEMMA TaskEnv ==
  ASSUME Typed, NEW t \in Tasks, Took(TaskMsg(t)), cmdQ' = cmdQ
  PROVE  /\ Env.w[t] > 0 /\ Env' = Taken(Env, t)
         /\ Count(interruptQ', VIDEO_MSG) = Count(interruptQ, VIDEO_MSG)
  <1> DEFINE h == Env
             g == Taken(h, t)
  <1>1. /\ h \in Envs
        /\ \A u \in Tasks : /\ Count(interruptQ, TaskMsg(u)) \in Nat /\ Count(cmdQ, u) \in Nat
                            /\ h.w[u] = Count(interruptQ, TaskMsg(u)) + Count(cmdQ, u)
        /\ \A x : Count(interruptQ, x) \in Nat
        /\ h.prog = progress /\ h.swap = swapPending
        /\ h.sp = Count(interruptQ, RSP_DONE_MSG) /\ h.dp = Count(interruptQ, RDP_DONE_MSG)
    BY EnvTypes
  <1> HIDE DEF h
  <1>2. /\ progress' = progress /\ swapPending' = swapPending
        /\ \A x : Count(interruptQ', x) = Count(interruptQ, x) - (IF TaskMsg(t) = x THEN 1 ELSE 0)
        /\ interruptQ' \in Seq(Messages)
    BY DEF Took
  <1>3. \A x : Count(interruptQ', x) \in Nat
    BY <1>2, CountNat
  <1>4. h.w[t] > 0
    BY <1>1, <1>2, <1>3
  <1>5. /\ g \in Envs /\ g.prog = h.prog /\ g.swap = h.swap /\ g.sp = h.sp /\ g.dp = h.dp
        /\ \A u \in Tasks : g.w[u] = h.w[u] - (IF u = t THEN 1 ELSE 0)
    BY <1>1, <1>4, TakenEnv
  <1> HIDE DEF g
  <1>6. ASSUME NEW u \in Tasks
        PROVE  g.w[u] = Count(interruptQ', TaskMsg(u)) + Count(cmdQ', u)
    <2>1. TaskMsg(t) = TaskMsg(u) <=> u = t
      BY MessagesApart
    <2> QED BY <1>1, <1>2, <1>5, <2>1
  <1>7. /\ g.sp = Count(interruptQ', RSP_DONE_MSG) /\ g.dp = Count(interruptQ', RDP_DONE_MSG)
        /\ Count(interruptQ', VIDEO_MSG) = Count(interruptQ, VIDEO_MSG)
    BY <1>1, <1>2, <1>5, MessagesApart
  <1>8. Env' = g
    BY <1>1, <1>2, <1>5, <1>6, <1>7, NextEnv
  <1> QED BY <1>4, <1>7, <1>8 DEF g, h

LEMMA SettlesInTime ==
  ASSUME NEW s \in States, NEW r, NEW h, NEW v, Settles(s, r, h), OnTime(s, v)
  PROVE  Ok(r, h) /\ OnTime(r, v) /\ Goes(s, r)
  <1>1. Ok(r, h) /\ Follows(s, r) /\ Told(s, r)
    BY DEF Settles
  <1>2. r.rspCount \in Nat /\ r.rdpCount \in Nat
    BY <1>1, MidTypes DEF Ok
  <1>3. s.rspCount \in Nat /\ s.rdpCount \in Nat
    BY DEF States
  <1>4. WatchdogLimit \in Nat \ {0}
    BY SchedAssumption
  <1>5. OnTime(r, v)
    BY <1>1, <1>2, <1>3, <1>4 DEF OnTime, Follows
  <1>6. Goes(s, r)
    BY <1>1 DEF Goes, Follows
  <1> QED BY <1>1, <1>5, <1>6

LEMMA RetraceStep ==
  ASSUME Inv, Retrace
  PROVE  /\ Took(VIDEO_MSG) /\ game' = game /\ dpLocal' = dpLocal
         /\ Ok(sc', Env') /\ OnTime(sc', Count(interruptQ', VIDEO_MSG)) /\ Goes(sc, sc')
         /\ cmdQ' = <<>> /\ audioMsgs' \in 0 .. AudioQSize
  <1>1. Typed /\ Ok(sc, Env) /\ OnTime(sc, Count(interruptQ, VIDEO_MSG))
    BY DEF Inv
  <1>2. Took(VIDEO_MSG) /\ game' = game /\ dpLocal' = dpLocal
    BY <1>1, ReceivesTakes DEF Retrace, Receives
  <1>3. PICK n \in FrameCounts, found \in BOOLEAN, told \in BOOLEAN :
           sc' = __scHandleRetrace(sc, n, found, told)
    BY DEF Retrace
  <1>4. /\ Env.swap = swapPending /\ cmdQ \in Seq(Tasks)
        /\ \A t \in Tasks : Count(cmdQ, t) <= Env.w[t]
    <2>1. Env.swap = swapPending /\ cmdQ \in Seq(Tasks)
      BY <1>1, EnvTypes DEF Typed, TypeOK
    <2>2. ASSUME NEW t \in Tasks PROVE Count(cmdQ, t) <= Env.w[t]
      <3>1. /\ Count(interruptQ, TaskMsg(t)) \in Nat /\ Count(cmdQ, t) \in Nat
            /\ Env.w[t] = Count(interruptQ, TaskMsg(t)) + Count(cmdQ, t)
        BY <1>1, EnvTypes
      <3> HIDE DEF Env
      <3> QED BY <3>1
    <2> QED BY <2>1, <2>2
  <1>5. /\ Count(interruptQ, VIDEO_MSG) \in 0 .. 1
        /\ Count(interruptQ', VIDEO_MSG) = Count(interruptQ, VIDEO_MSG) - 1
        /\ Count(interruptQ', VIDEO_MSG) \in Nat
    <2>1. /\ Count(interruptQ', VIDEO_MSG) = Count(interruptQ, VIDEO_MSG) - 1
          /\ interruptQ' \in Seq(Messages)
      BY <1>2 DEF Took
    <2> QED BY <1>1, <2>1, CountNat DEF OnTime
  <1>6. OnTime(sc, 1) /\ Count(interruptQ', VIDEO_MSG) = 0
    <2>1. Count(interruptQ, VIDEO_MSG) = 1
      BY <1>5
    <2> QED BY <1>1, <1>5, <2>1
  <1>7. Ok(sc', AllTaken(Env, cmdQ)) /\ OnTime(sc', 0) /\ Goes(sc, sc')
    BY <1>1, <1>3, <1>4, <1>6, HandleRetraceSettles
  <1>8. cmdQ' = <<>>
    BY <1>7 DEF Retrace, Ok, Mid
  <1>9. Env' = AllTaken(Env, cmdQ)
    BY <1>1, <1>2, <1>8, VideoEnv
  <1>10. audioMsgs' \in 0 .. AudioQSize
    <2>1. audioMsgs \in 0 .. AudioQSize /\ AudioQSize \in Nat \ {0}
      BY <1>1, SchedAssumption DEF Typed, TypeOK
    <2>2. audioMsgs' = audioMsgs \/ audioMsgs' = Capped(audioMsgs + 1, AudioQSize)
      BY DEF Retrace
    <2> QED BY <2>1, <2>2 DEF Capped
  <1> QED BY <1>2, <1>6, <1>7, <1>8, <1>9, <1>10

LEMMA RspDoneStep ==
  ASSUME Inv, RspDone
  PROVE  /\ Took(RSP_DONE_MSG) /\ UNCHANGED <<game, dpLocal, cmdQ, audioMsgs>>
         /\ Ok(sc', Env') /\ OnTime(sc', Count(interruptQ', VIDEO_MSG)) /\ Goes(sc, sc')
  <1>1. Typed /\ Ok(sc, Env) /\ OnTime(sc, Count(interruptQ, VIDEO_MSG))
    BY DEF Inv
  <1>2. Took(RSP_DONE_MSG) /\ UNCHANGED <<game, dpLocal, cmdQ, audioMsgs>>
    BY <1>1, ReceivesTakes DEF RspDone, Receives
  <1>3. /\ Env.sp > 0 /\ Env' = SpTaken(Env) /\ Env.swap = swapPending
        /\ Count(interruptQ', VIDEO_MSG) = Count(interruptQ, VIDEO_MSG)
    BY <1>1, <1>2, UnitEnv, EnvTypes
  <1>4. Settles(sc, sc', Env')
    BY <1>1, <1>3, HandleRSPSettles DEF RspDone
  <1> QED BY <1>1, <1>2, <1>3, <1>4, SettlesInTime DEF Typed, TypeOK

LEMMA RdpDoneStep ==
  ASSUME Inv, RdpDone
  PROVE  /\ Took(RDP_DONE_MSG) /\ UNCHANGED <<game, dpLocal, cmdQ, audioMsgs>>
         /\ Ok(sc', Env') /\ OnTime(sc', Count(interruptQ', VIDEO_MSG)) /\ Goes(sc, sc')
  <1>1. Typed /\ Ok(sc, Env) /\ OnTime(sc, Count(interruptQ, VIDEO_MSG))
    BY DEF Inv
  <1>2. Took(RDP_DONE_MSG) /\ UNCHANGED <<game, dpLocal, cmdQ, audioMsgs>>
    BY <1>1, ReceivesTakes DEF RdpDone, Receives
  <1>3. /\ Env.dp > 0 /\ Env' = DpTaken(Env) /\ Env.swap = swapPending
        /\ Env.sp = Count(interruptQ, RSP_DONE_MSG)
        /\ Count(interruptQ', VIDEO_MSG) = Count(interruptQ, VIDEO_MSG)
    BY <1>1, <1>2, UnitEnv, EnvTypes
  <1>4. ~SyncEarly /\ sc.curRSP \in GfxTasks => Env.sp = 0
    <2> SUFFICES ASSUME ~SyncEarly /\ sc.curRSP \in GfxTasks,
                        NEW i \in DOMAIN interruptQ, interruptQ[i] = RSP_DONE_MSG
                 PROVE  FALSE
      BY <1>1, <1>3, CountNat DEF Typed, TypeOK
    <2>1. /\ interruptQ \in Seq(Messages) /\ interruptQ # <<>>
          /\ Head(interruptQ) = RDP_DONE_MSG
      BY <1>1, <1>2 DEF Typed, TypeOK, Took
    <2>2. /\ 1 \in DOMAIN interruptQ /\ interruptQ[1] = RDP_DONE_MSG /\ i \in Nat \ {0}
      BY <2>1
    <2> QED BY <2>2 DEF Inv, InSequence
  <1>5. Settles(sc, sc', Env')
    BY <1>1, <1>3, <1>4, HandleRDPSettles DEF RdpDone
  <1> QED BY <1>1, <1>2, <1>3, <1>5, SettlesInTime DEF Typed, TypeOK

LEMMA AudioWantedStep ==
  ASSUME Inv, AudioWanted
  PROVE  /\ Took(UNK_MSG) /\ UNCHANGED <<game, dpLocal, cmdQ, audioMsgs>>
         /\ Ok(sc', Env') /\ OnTime(sc', Count(interruptQ', VIDEO_MSG)) /\ Goes(sc, sc')
  <1>1. Typed /\ Ok(sc, Env) /\ OnTime(sc, Count(interruptQ, VIDEO_MSG))
    BY DEF Inv
  <1>2. Took(UNK_MSG) /\ UNCHANGED <<game, dpLocal, cmdQ, audioMsgs>>
    BY <1>1, ReceivesTakes DEF AudioWanted, Receives
  <1>3. /\ Env' = Env /\ Env.swap = swapPending
        /\ Count(interruptQ', VIDEO_MSG) = Count(interruptQ, VIDEO_MSG)
    BY <1>1, <1>2, UnitEnv, EnvTypes
  <1>4. Settles(sc, sc', Env')
    BY <1>1, <1>3, AudioWantedSettles DEF AudioWanted
  <1> QED BY <1>1, <1>2, <1>3, <1>4, SettlesInTime DEF Typed, TypeOK

LEMMA TaskArrivesStep ==
  ASSUME Inv, TaskArrives
  PROVE  \E t \in Tasks :
           /\ Took(TaskMsg(t)) /\ UNCHANGED <<game, cmdQ, audioMsgs>> /\ dpLocal' \in TaskOrNone
           /\ Ok(sc', Env') /\ OnTime(sc', Count(interruptQ', VIDEO_MSG)) /\ Goes(sc, sc')
  <1> DEFINE t == Head(interruptQ).task
             a == __scAppendList(sc, t)
             d == Dispatch(a, dpLocal)
             g == Taken(Env, t)
  <1>1. /\ Typed /\ Ok(sc, Env) /\ OnTime(sc, Count(interruptQ, VIDEO_MSG))
        /\ dpLocal \in TaskOrNone
    BY DEF Inv, Typed, TypeOK
  <1>2. t \in Tasks /\ Took(TaskMsg(t)) /\ UNCHANGED <<game, cmdQ, audioMsgs>>
    BY <1>1, ReceivesTakes DEF TaskArrives, Receives
  <1>3. sc' = d.s /\ dpLocal' = d.dp
    BY DEF TaskArrives
  <1>4. /\ Env.w[t] > 0 /\ Env' = g /\ Env.swap = swapPending /\ Env \in Envs
        /\ Count(interruptQ', VIDEO_MSG) = Count(interruptQ, VIDEO_MSG)
    BY <1>1, <1>2, TaskEnv, EnvTypes
  <1> HIDE DEF t
  <1>5. g.swap = swapPending
    BY <1>2, <1>4, TakenEnv
  <1>6. Ok(a, g) /\ Follows(sc, a) /\ a.done = sc.done
    BY <1>1, <1>2, <1>4, AcceptKeepsBooks DEF Ok
  <1> HIDE DEF a, g
  <1>7. Ok(d.s, g) /\ Follows(a, d.s) /\ d.s.done = a.done /\ d.dp \in TaskOrNone
    BY <1>1, <1>5, <1>6, DispatchIgnoresStale
  <1>8. sc \in States /\ a \in States /\ d.s \in States
    BY <1>1, <1>6, <1>7 DEF Ok, Mid
  <1> HIDE DEF d
  <1>9. Follows(sc, d.s)
    BY <1>6, <1>7, <1>8, FollowsOn
  <1>10. Settles(sc, sc', Env')
    BY <1>3, <1>4, <1>6, <1>7, <1>9 DEF Settles, Told
  <1> QED BY <1>1, <1>2, <1>3, <1>4, <1>7, <1>8, <1>10, SettlesInTime

\* A message is handled without a word about the tasks on their way.
Handled ==
  /\ \E m : Took(m)
  /\ game' = game /\ dpLocal' \in TaskOrNone /\ cmdQ' \in Seq(Tasks)
  /\ audioMsgs' \in 0 .. AudioQSize
  /\ Ok(sc', Env') /\ OnTime(sc', Count(interruptQ', VIDEO_MSG)) /\ Goes(sc, sc')

LEMMA MessageHandled == ASSUME Inv, __scMain PROVE Handled
  <1>1. dpLocal \in TaskOrNone /\ cmdQ \in Seq(Tasks) /\ audioMsgs \in 0 .. AudioQSize
    BY DEF Inv, Typed, TypeOK
  <1>2. CASE Retrace
    <2>1. <<>> \in Seq(Tasks)
      OBVIOUS
    <2> QED BY <1>1, <1>2, <2>1, RetraceStep DEF Handled
  <1>3. CASE RspDone
    BY <1>1, <1>3, RspDoneStep DEF Handled
  <1>4. CASE RdpDone
    BY <1>1, <1>4, RdpDoneStep DEF Handled
  <1>5. CASE AudioWanted
    BY <1>1, <1>5, AudioWantedStep DEF Handled
  <1>6. CASE TaskArrives
    BY <1>1, <1>6, TaskArrivesStep DEF Handled
  <1> QED BY <1>2, <1>3, <1>4, <1>5, <1>6 DEF __scMain

LEMMA MessageKeepsInv == ASSUME Inv, Handled PROVE Inv'
  <1>1. PICK m : Took(m)
    BY DEF Handled
  <1>2. /\ Typed /\ InSequence /\ GameSide
        /\ interruptQ \in Seq(Messages)
    BY DEF Inv, Typed, TypeOK
  <1>3. /\ Ok(sc', Env') /\ OnTime(sc', Count(interruptQ', VIDEO_MSG))
        /\ interruptQ # <<>> /\ interruptQ' = Tail(interruptQ) /\ interruptQ' \in Seq(Messages)
        /\ game' = game /\ progress' = progress /\ swapPending' = swapPending
    BY <1>1 DEF Handled, Took
  <1>4. Typed'
    <2>1. sc' \in States
      BY <1>3 DEF Ok, Mid
    <2> QED BY <1>2, <1>3, <2>1 DEF Handled, Typed, TypeOK
  <1>5. GameSide'
    BY <1>2, <1>3 DEF GameSide
  <1>6. InSequence'
    <2> SUFFICES ASSUME ~SyncEarly, sc'.curRSP \in GfxTasks,
                        NEW i \in DOMAIN interruptQ', NEW j \in DOMAIN interruptQ',
                        interruptQ'[i] = RSP_DONE_MSG, interruptQ'[j] = RDP_DONE_MSG
                 PROVE  i < j
      BY DEF InSequence, RSP_DONE_MSG, RDP_DONE_MSG
    <2>1. /\ i \in Nat /\ j \in Nat /\ i + 1 \in DOMAIN interruptQ /\ j + 1 \in DOMAIN interruptQ
          /\ interruptQ[i + 1] = RSP_DONE_MSG /\ interruptQ[j + 1] = RDP_DONE_MSG
      BY <1>2, <1>3
    <2>2. Count(interruptQ', RSP_DONE_MSG) # 0
      BY <1>3, CountNat
    <2>3. Env'.sp = Count(interruptQ', RSP_DONE_MSG)
      BY DEF Env, RSP_DONE_MSG
    <2>4. sc'.curRSP # NoTask /\ sc'.rsp = NoTask
      <3>1. RspSide(sc', Env')
        BY <1>3 DEF Ok, Mid
      <3> HIDE DEF Env
      <3> QED BY <2>2, <2>3, <3>1 DEF RspSide
    <2>5. sc'.curRSP = sc.curRSP
      BY <2>4 DEF Handled, Goes
    <2>6. i + 1 < j + 1
      BY <1>2, <2>1, <2>5 DEF InSequence
    <2> QED BY <2>1, <2>6
  <1>7. Ok(sc, Env)' /\ OnTime(sc, Count(interruptQ, VIDEO_MSG))'
    BY <1>3 DEF Ok, OnTime, Count, VIDEO_MSG
  <1> QED BY <1>4, <1>5, <1>6, <1>7 DEF Inv

-----------------------------------------------------------------------------
(* The hardware.                                                           *)

LEMMA PostCounts ==
  ASSUME Typed, NEW m \in Messages, Post(m)
  PROVE  /\ interruptQ' \in Seq(Messages)
         /\ \A x : Count(interruptQ', x) = Count(interruptQ, x) + (IF m = x THEN 1 ELSE 0)
  BY CountAppend DEF Typed, TypeOK, Post

\* The task on the RSP is nowhere else.
LEMMA AloneOnRsp ==
  ASSUME NEW s, NEW h, NEW t \in Tasks, Mid(s, h), s.curRSP = t
  PROVE  /\ In(s, t) = 0 /\ h.w[t] = 0 /\ s.unkTask # t /\ s.done[t] = 0
         /\ "YIELDED" \notin s.state[t]
  <1>1. /\ In(s, t) \in Nat /\ h.w[t] \in Nat /\ s.done[t] \in Nat
    BY MidTypes
  <1>2. Runs(s, t) = 1
    BY DEF Runs
  <1>3. Places(s, h, t) <= (IF h.prog[t] = "idle" THEN 0 ELSE 1)
    BY DEF Mid, OncePlaced
  <1>4. In(s, t) = 0 /\ h.w[t] = 0 /\ s.unkTask # t /\ s.done[t] = 0
    BY <1>1, <1>2, <1>3 DEF Places
  <1> QED BY <1>4 DEF Mid, RspSide

LEMMA SyncKeepsBooks ==
  ASSUME NEW s, NEW h, NEW g \in Envs, NEW t \in GfxTasks, Ok(s, h), SyncEarly,
         s.rsp = t, h.prog[t] = "work",
         g.prog = [h.prog EXCEPT ![t] = "synced"],
         g.w = h.w, g.sp = h.sp, g.dp = h.dp, g.swap = h.swap
  PROVE  Ok([s EXCEPT !.rdp = t], g)
  <1> DEFINE r == [s EXCEPT !.rdp = t]
  <1>1. Mid(s, h) /\ s \in States /\ h \in Envs /\ t \in Tasks /\ t # NoTask
    BY KindsOfTask DEF Ok, Mid
  <1>2. /\ s.curRSP = t /\ Begun(s, h, t) /\ s.curRDP = t /\ t \notin AudioTasks
    BY <1>1, KindsOfTask DEF Mid, RspSide, Begun
  <1>3. In(s, t) = 0 /\ h.w[t] = 0 /\ s.unkTask # t /\ s.done[t] = 0 /\ "YIELDED" \notin s.state[t]
    BY <1>1, <1>2, AloneOnRsp
  <1>4. /\ g.prog[t] = "synced" /\ \A u \in Tasks : u # t => g.prog[u] = h.prog[u]
    BY <1>1 DEF Envs
  <1>5. r \in States
    BY <1>1 DEF States, TaskOrNone
  <1>6. /\ r.state = s.state /\ r.audioList = s.audioList /\ r.gfxList = s.gfxList
        /\ r.curRSP = s.curRSP /\ r.curRDP = s.curRDP /\ r.rsp = s.rsp /\ r.rdp = t
        /\ r.doAudio = s.doAudio /\ r.yieldSignal = s.yieldSignal /\ r.yielded = s.yielded
        /\ r.crashed = s.crashed /\ r.done = s.done /\ r.unkTask = s.unkTask
    BY <1>1 DEF States
  <1> HIDE DEF r
  <1>7. /\ \A u : In(r, u) = In(s, u) /\ Runs(r, u) = Runs(s, u)
        /\ \A u \in Tasks : Begun(s, h, u) => Begun(r, g, u)
    BY <1>2, <1>4, <1>6 DEF In, Runs, Begun
  <1>8. OncePlaced(r, g)
    <2>1. \A u \in Tasks : Places(r, g, u) = Places(s, h, u)
      BY <1>6, <1>7 DEF Places
    <2>2. \A u \in Tasks : g.prog[u] = "idle" <=> h.prog[u] = "idle"
      BY <1>4
    <2> QED BY <1>1, <2>1, <2>2 DEF Mid, OncePlaced
  <1>9. RspSide(r, g)
    BY <1>1, <1>2, <1>4, <1>6, <1>7 DEF Mid, RspSide
  <1>10. RdpSide(r, g)
    <2>1. h.dp \in Nat
      BY <1>1 DEF Envs
    <2>2. h.dp + (IF s.rdp = NoTask THEN 0 ELSE 1) = 0
      BY <1>1, <1>2 DEF Mid, RdpSide
    <2>3. h.dp = 0
      BY <2>1, <2>2
    <2>4. t \in GfxTasks /\ "DP" \in s.state[t]
      BY <1>2 DEF Begun
    <2> QED BY <1>1, <1>2, <1>4, <1>6, <2>3, <2>4 DEF RdpSide
  <1>11. YieldedSide(r, g)
    BY <1>1, <1>3, <1>4, <1>6, <1>7 DEF Mid, YieldedSide
  <1>12. ClientSide(r, g)
    BY <1>1, <1>2, <1>3, <1>4, <1>6, <1>7 DEF Mid, ClientSide
  <1> QED BY <1>1, <1>5, <1>6, <1>8, <1>9, <1>10, <1>11, <1>12 DEF Ok, Mid, r

\* The RSP comes to the end of its task, and may send the full sync.
RspEnds(s, r, h, t) ==
  \/ /\ t \in AudioTasks \/ h.prog[t] = "synced"
     /\ r = [s EXCEPT !.rsp = NoTask, !.yielded = FALSE]
  \/ /\ t \in GfxTasks /\ h.prog[t] = "work" /\ ~SyncEarly
     /\ r = [s EXCEPT !.rsp = NoTask, !.yielded = FALSE, !.rdp = t]

LEMMA FinishKeepsBooks ==
  ASSUME NEW s, NEW h, NEW g \in Envs, NEW r, NEW t \in Tasks, Ok(s, h),
         s.rsp = t, RspEnds(s, r, h, t),
         g.prog = [h.prog EXCEPT ![t] = "finished"],
         g.w = h.w, g.sp = h.sp + 1, g.dp = h.dp, g.swap = h.swap
  PROVE  /\ Ok(r, g)
         /\ ~SyncEarly /\ s.curRSP \in GfxTasks => h.dp = 0
  <1>1. Mid(s, h) /\ s \in States /\ h \in Envs /\ t # NoTask
    BY KindsOfTask DEF Ok, Mid
  <1>2. /\ s.curRSP = t /\ h.sp = 0 /\ "SP" \in s.state[t]
        /\ t \in AudioTasks => s.state[t] = {"SP"}
        /\ t \in GfxTasks => Begun(s, h, t)
        /\ h.prog[t] \in {"work", "synced"}
    BY <1>1 DEF Mid, RspSide
  <1>3. In(s, t) = 0 /\ h.w[t] = 0 /\ s.unkTask # t /\ s.done[t] = 0 /\ "YIELDED" \notin s.state[t]
    BY <1>1, <1>2, AloneOnRsp
  <1>4. /\ g.prog[t] = "finished" /\ \A u \in Tasks : u # t => g.prog[u] = h.prog[u]
    BY <1>1 DEF Envs
  <1>5. r \in States
    BY <1>1 DEF States, TaskOrNone, RspEnds
  <1>6. /\ r.state = s.state /\ r.audioList = s.audioList /\ r.gfxList = s.gfxList
        /\ r.curRSP = s.curRSP /\ r.curRDP = s.curRDP /\ r.rsp = NoTask
        /\ r.doAudio = s.doAudio /\ ~r.yielded
        /\ r.crashed = s.crashed /\ r.done = s.done /\ r.unkTask = s.unkTask
        /\ IF t \in AudioTasks \/ h.prog[t] = "synced" THEN r.rdp = s.rdp
           ELSE r.rdp = t /\ h.prog[t] = "work" /\ ~SyncEarly /\ t \in GfxTasks
    <2>1. CASE /\ t \in AudioTasks \/ h.prog[t] = "synced"
               /\ r = [s EXCEPT !.rsp = NoTask, !.yielded = FALSE]
      BY <1>1, <2>1 DEF States
    <2>2. CASE /\ t \in GfxTasks /\ h.prog[t] = "work" /\ ~SyncEarly
               /\ r = [s EXCEPT !.rsp = NoTask, !.yielded = FALSE, !.rdp = t]
      <3>1. t \notin AudioTasks
        BY <2>2, KindsOfTask
      <3> QED BY <1>1, <2>2, <3>1 DEF States
    <2> QED BY <2>1, <2>2 DEF RspEnds
  <1>7. /\ \A u : In(r, u) = In(s, u) /\ Runs(r, u) = Runs(s, u)
        /\ \A u \in Tasks : Begun(s, h, u) => Begun(r, g, u)
    BY <1>4, <1>6 DEF In, Runs, Begun
  <1>8. OncePlaced(r, g)
    <2>1. \A u \in Tasks : Places(r, g, u) = Places(s, h, u)
      BY <1>6, <1>7 DEF Places
    <2>2. \A u \in Tasks : g.prog[u] = "idle" <=> h.prog[u] = "idle"
      BY <1>2, <1>4
    <2> QED BY <1>1, <2>1, <2>2 DEF Mid, OncePlaced
  <1>9. RspSide(r, g)
    BY <1>1, <1>2, <1>3, <1>4, <1>6, <1>7 DEF RspSide
  <1>10. h.dp \in Nat
    BY <1>1 DEF Envs
  <1>11. t \in GfxTasks => t \notin AudioTasks
    BY KindsOfTask
  <1>12. t \in GfxTasks /\ h.prog[t] = "work" => s.curRDP = t /\ h.dp = 0 /\ s.rdp = NoTask
    <2> SUFFICES ASSUME t \in GfxTasks /\ h.prog[t] = "work"
                 PROVE  s.curRDP = t /\ h.dp = 0 /\ s.rdp = NoTask
      OBVIOUS
    <2>1. s.curRDP = t
      BY <1>2 DEF Begun
    <2>2. h.dp + (IF s.rdp = NoTask THEN 0 ELSE 1) = 0
      BY <1>1, <2>1 DEF Mid, RdpSide
    <2> QED BY <1>10, <2>1, <2>2
  <1>13. RdpSide(r, g)
    <2>1. CASE t \in AudioTasks \/ h.prog[t] = "synced"
      <3>1. r.rdp = s.rdp
        BY <1>6, <2>1
      <3>2. t \in AudioTasks => s.curRDP # t
        BY <1>1, <1>11 DEF Mid, RdpSide
      <3>3. \A u \in Tasks : s.curRDP = u => (g.prog[u] = "work" <=> h.prog[u] = "work")
        BY <1>4, <2>1, <3>2
      <3>4. \A u \in Tasks : s.curRDP = u /\ s.curRSP # u => g.prog[u] = h.prog[u]
        BY <1>2, <1>4
      <3> QED BY <1>1, <1>6, <3>1, <3>3, <3>4 DEF Mid, RdpSide
    <2>2. CASE ~(t \in AudioTasks \/ h.prog[t] = "synced")
      <3>1. r.rdp = t /\ s.curRDP = t /\ h.dp = 0 /\ t \in GfxTasks
        BY <1>6, <1>12, <2>2
      <3>2. "DP" \in s.state[t]
        BY <1>1, <3>1 DEF Mid, RdpSide
      <3> QED BY <1>1, <1>2, <1>4, <1>6, <3>1, <3>2 DEF RdpSide
    <2> QED BY <2>1, <2>2
  <1>14. YieldedSide(r, g)
    BY <1>1, <1>3, <1>4, <1>6, <1>7 DEF Mid, YieldedSide
  <1>15. ClientSide(r, g)
    BY <1>1, <1>3, <1>4, <1>6, <1>7 DEF Mid, ClientSide
  <1>16. Ok(r, g)
    BY <1>1, <1>5, <1>6, <1>8, <1>9, <1>13, <1>14, <1>15 DEF Ok, Mid
  <1>17. ~SyncEarly => h.prog[t] = "work"
    BY <1>1, <1>2 DEF Mid, ClientSide
  <1> QED BY <1>2, <1>12, <1>16, <1>17

\* The RSP sees the request to yield.
LEMMA StopKeepsBooks ==
  ASSUME NEW s, NEW h, NEW g \in Envs, Ok(s, h), s.rsp # NoTask, s.yieldSignal,
         g.prog = h.prog, g.w = h.w, g.sp = h.sp + 1, g.dp = h.dp, g.swap = h.swap
  PROVE  /\ Ok([s EXCEPT !.rsp = NoTask, !.yielded = TRUE], g)
         /\ ~SyncEarly /\ s.curRSP \in GfxTasks => h.dp = 0
  <1> DEFINE t == s.rsp
             r == [s EXCEPT !.rsp = NoTask, !.yielded = TRUE]
  <1>1. Mid(s, h) /\ s \in States /\ h \in Envs /\ t \in Tasks
    BY DEF Ok, Mid, States, TaskOrNone
  <1>2. /\ s.curRSP = t /\ h.sp = 0 /\ "YIELD" \in s.state[t]
        /\ h.prog[t] \in {"work", "synced"}
        /\ t \in GfxTasks => Begun(s, h, t)
    BY <1>1 DEF Mid, RspSide
  <1>3. r \in States
    BY <1>1 DEF States, TaskOrNone
  <1>4. /\ r.state = s.state /\ r.audioList = s.audioList /\ r.gfxList = s.gfxList
        /\ r.curRSP = s.curRSP /\ r.curRDP = s.curRDP /\ r.rsp = NoTask /\ r.rdp = s.rdp
        /\ r.doAudio = s.doAudio /\ r.yielded
        /\ r.crashed = s.crashed /\ r.done = s.done /\ r.unkTask = s.unkTask
    BY <1>1 DEF States
  <1> HIDE DEF r, t
  <1>5. /\ \A u : In(r, u) = In(s, u) /\ Runs(r, u) = Runs(s, u)
        /\ \A u \in Tasks : Begun(s, h, u) => Begun(r, g, u)
    BY <1>4 DEF In, Runs, Begun
  <1>6. OncePlaced(r, g)
    <2>1. \A u \in Tasks : Places(r, g, u) = Places(s, h, u)
      BY <1>4, <1>5 DEF Places
    <2> QED BY <1>1, <2>1 DEF Mid, OncePlaced
  <1>7. RspSide(r, g)
    BY <1>1, <1>2, <1>4, <1>5 DEF Mid, RspSide
  <1>8. RdpSide(r, g)
    BY <1>1, <1>4 DEF Mid, RdpSide
  <1>9. YieldedSide(r, g) /\ ClientSide(r, g)
    BY <1>1, <1>4, <1>5 DEF Mid, YieldedSide, ClientSide
  <1>10. Ok(r, g)
    BY <1>1, <1>3, <1>4, <1>6, <1>7, <1>8, <1>9 DEF Ok, Mid
  <1>11. ~SyncEarly /\ s.curRSP \in GfxTasks => h.dp = 0
    <2> SUFFICES ASSUME ~SyncEarly, t \in GfxTasks PROVE h.dp = 0
      BY <1>2
    <2>1. h.prog[t] = "work"
      BY <1>1, <1>2 DEF Mid, ClientSide
    <2>2. s.curRDP = t
      BY <1>2, <2>1 DEF Begun
    <2>3. h.dp + (IF s.rdp = NoTask THEN 0 ELSE 1) = 0
      BY <1>1, <2>1, <2>2 DEF Mid, RdpSide
    <2>4. h.dp \in Nat
      BY <1>1 DEF Envs
    <2> QED BY <2>3, <2>4
  <1> QED BY <1>10, <1>11 DEF r

\* The RDP comes to the end of its task.
LEMMA RdpStopKeepsBooks ==
  ASSUME NEW s, NEW h, NEW g \in Envs, Ok(s, h), s.rdp # NoTask,
         g.prog = h.prog, g.w = h.w, g.sp = h.sp, g.dp = h.dp + 1, g.swap = h.swap
  PROVE  Ok([s EXCEPT !.rdp = NoTask], g)
  <1> DEFINE r == [s EXCEPT !.rdp = NoTask]
  <1>1. Mid(s, h) /\ s \in States /\ h \in Envs
    BY DEF Ok, Mid
  <1>2. r \in States
    BY <1>1 DEF States, TaskOrNone
  <1>3. /\ r.state = s.state /\ r.audioList = s.audioList /\ r.gfxList = s.gfxList
        /\ r.curRSP = s.curRSP /\ r.curRDP = s.curRDP /\ r.rsp = s.rsp /\ r.rdp = NoTask
        /\ r.doAudio = s.doAudio /\ r.yielded = s.yielded /\ r.yieldSignal = s.yieldSignal
        /\ r.crashed = s.crashed /\ r.done = s.done /\ r.unkTask = s.unkTask
    BY <1>1 DEF States
  <1> HIDE DEF r
  <1>4. /\ \A u : In(r, u) = In(s, u) /\ Runs(r, u) = Runs(s, u)
        /\ \A u \in Tasks : Begun(s, h, u) => Begun(r, g, u)
    BY <1>3 DEF In, Runs, Begun
  <1>5. OncePlaced(r, g)
    <2>1. \A u \in Tasks : Places(r, g, u) = Places(s, h, u)
      BY <1>3, <1>4 DEF Places
    <2> QED BY <1>1, <2>1 DEF Mid, OncePlaced
  <1>6. RspSide(r, g)
    BY <1>1, <1>3, <1>4 DEF Mid, RspSide
  <1>7. RdpSide(r, g)
    <2>1. h.dp \in Nat /\ s.curRDP # NoTask
      BY <1>1 DEF Envs, Mid, RdpSide
    <2>2. h.dp + 1 = g.dp + 0 /\ g.dp = h.dp + 1
      BY <2>1
    <2>3. ASSUME NEW u \in Tasks, s.curRDP = u
          PROVE  g.dp + (IF r.rdp = NoTask THEN 0 ELSE 1) = (IF g.prog[u] = "work" THEN 0 ELSE 1)
      <3>1. h.dp + 1 = (IF h.prog[u] = "work" THEN 0 ELSE 1)
        BY <1>1, <2>3 DEF Mid, RdpSide
      <3> QED BY <1>3, <2>1, <3>1
    <2> QED BY <1>1, <1>3, <2>1, <2>3 DEF Mid, RdpSide
  <1>8. YieldedSide(r, g) /\ ClientSide(r, g)
    BY <1>1, <1>3, <1>4 DEF Mid, YieldedSide, ClientSide
  <1> QED BY <1>1, <1>2, <1>3, <1>5, <1>6, <1>7, <1>8 DEF Ok, Mid, r

\* Whether a swap is pending matters to graphics tasks that have begun.
LEMMA SwapKeepsBooks ==
  ASSUME NEW s, NEW h, NEW g \in Envs, Ok(s, h),
         g.prog = h.prog, g.w = h.w, g.sp = h.sp, g.dp = h.dp,
         g.swap => \/ h.swap
                   \/ \A t \in GfxTasks : h.prog[t] = "idle"
  PROVE  Ok(s, g)
  <1>1. Mid(s, h) /\ s \in States /\ h \in Envs
    BY DEF Ok, Mid
  <1>2. \A t \in Tasks : s.curRSP = t \/ "YIELDED" \in s.state[t] => h.prog[t] # "idle"
    <2>1. \A t \in Tasks : s.curRSP = t => h.prog[t] # "idle"
      BY <1>1, KindsOfTask DEF Mid, RspSide
    <2>2. \A t \in Tasks : "YIELDED" \in s.state[t] => h.prog[t] # "idle"
      BY <1>1 DEF Mid, YieldedSide
    <2> QED BY <2>1, <2>2
  <1>3. \A t \in Tasks : /\ s.curRSP = t \/ "YIELDED" \in s.state[t]
                         /\ Begun(s, h, t)
                         => Begun(s, g, t)
    BY <1>1, <1>2 DEF Begun, Envs
  <1>4. OncePlaced(s, g)
    <2>1. \A t \in Tasks : Places(s, g, t) = Places(s, h, t)
      BY DEF Places
    <2> QED BY <1>1, <2>1 DEF Mid, OncePlaced
  <1>5. RspSide(s, g)
    BY <1>1, <1>3 DEF Mid, RspSide
  <1>6. RdpSide(s, g)
    BY <1>1 DEF Mid, RdpSide
  <1>7. YieldedSide(s, g) /\ ClientSide(s, g)
    BY <1>1, <1>3 DEF Mid, YieldedSide, ClientSide
  <1> QED BY <1>1, <1>4, <1>5, <1>6, <1>7 DEF Ok, Mid

-----------------------------------------------------------------------------
(* The clients.                                                            *)

LEMMA SmallSum ==
  ASSUME NEW i \in Nat, NEW j \in Nat, NEW k \in Nat, NEW m \in Nat, NEW n \in Nat
  PROVE  /\ i + j + k + m + n <= 0 => i = 0 /\ j = 0 /\ k = 0 /\ m = 0 /\ n = 0
         /\ i + j + k + m + n <= 1 /\ n > 0 => j = 0 /\ k = 0
OBVIOUS

LEMMA SubmitKeepsBooks ==
  ASSUME NEW s, NEW h, NEW g \in Envs, NEW t \in Tasks, Ok(s, h), h.prog[t] = "idle",
         g.prog = [h.prog EXCEPT ![t] = "work"], g.w = [h.w EXCEPT ![t] = @ + 1],
         g.sp = h.sp, g.dp = h.dp, g.swap = h.swap
  PROVE  Ok(s, g)
  <1>1. Mid(s, h) /\ s \in States /\ h \in Envs /\ t # NoTask
    BY KindsOfTask DEF Ok, Mid
  <1>2. /\ In(s, t) \in Nat /\ h.w[t] \in Nat /\ s.done[t] \in Nat /\ Runs(s, t) \in 0 .. 1
    BY <1>1, MidTypes
  <1>3. Places(s, h, t) <= 0
    BY <1>1 DEF Mid, OncePlaced
  <1>4. /\ In(s, t) = 0 /\ h.w[t] = 0 /\ s.done[t] = 0 /\ Runs(s, t) = 0 /\ s.unkTask # t
    <2> DEFINE off == IF s.unkTask = t THEN 1 ELSE 0
    <2>1. off \in 0 .. 1
      OBVIOUS
    <2>2. h.w[t] + In(s, t) + Runs(s, t) + off + s.done[t] <= 0
      BY <1>3 DEF Places
    <2>3. In(s, t) = 0 /\ h.w[t] = 0 /\ s.done[t] = 0 /\ Runs(s, t) = 0 /\ off = 0
      <3>1. off \in Nat /\ Runs(s, t) \in Nat
        BY <1>2, <2>1
      <3> HIDE DEF off
      <3> QED BY <1>2, <2>2, <3>1, SmallSum
    <2> QED BY <2>3
  <1>5. s.curRSP # t /\ s.curRDP # t
    BY <1>4 DEF Runs
  <1>6. "YIELDED" \notin s.state[t]
    BY <1>1 DEF Mid, YieldedSide
  <1>7. /\ g.prog[t] = "work" /\ \A u \in Tasks : u # t => g.prog[u] = h.prog[u]
        /\ g.w[t] = 1 /\ \A u \in Tasks : u # t => g.w[u] = h.w[u]
    BY <1>1, <1>4 DEF Envs
  <1>8. \A u \in Tasks : u # t /\ Begun(s, h, u) => Begun(s, g, u)
    BY <1>7 DEF Begun
  <1>9. OncePlaced(s, g)
    <2>1. ASSUME NEW u \in Tasks, u # t PROVE Places(s, g, u) = Places(s, h, u)
      BY <1>7, <2>1 DEF Places
    <2>2. Places(s, g, t) = 1
      BY <1>4, <1>7 DEF Places
    <2> QED BY <1>1, <1>7, <2>1, <2>2 DEF Mid, OncePlaced
  <1>10. RspSide(s, g)
    BY <1>1, <1>5, <1>7, <1>8 DEF Mid, RspSide
  <1>11. RdpSide(s, g)
    BY <1>1, <1>5, <1>7 DEF Mid, RdpSide
  <1>12. YieldedSide(s, g)
    BY <1>1, <1>6, <1>7, <1>8 DEF Mid, YieldedSide
  <1>13. ClientSide(s, g)
    BY <1>1, <1>4, <1>7 DEF Mid, ClientSide
  <1> QED BY <1>1, <1>9, <1>10, <1>11, <1>12, <1>13 DEF Ok, Mid

LEMMA TakeKeepsBooks ==
  ASSUME NEW s, NEW h, NEW g \in Envs, NEW t \in Tasks, Ok(s, h), s.done[t] > 0,
         g.prog = [h.prog EXCEPT ![t] = "idle"], g.w = h.w,
         g.sp = h.sp, g.dp = h.dp, g.swap = h.swap
  PROVE  Ok([s EXCEPT !.done[t] = @ - 1], g)
  <1> DEFINE r == [s EXCEPT !.done[t] = @ - 1]
  <1>1. Mid(s, h) /\ s \in States /\ h \in Envs /\ t # NoTask
    BY KindsOfTask DEF Ok, Mid
  <1>2. /\ In(s, t) \in Nat /\ h.w[t] \in Nat /\ s.done[t] \in Nat /\ Runs(s, t) \in 0 .. 1
    BY <1>1, MidTypes
  <1>3. h.prog[t] = "finished"
    BY <1>1 DEF Mid, ClientSide
  <1>4. Places(s, h, t) <= 1
    <2>1. Places(s, h, t) <= (IF h.prog[t] = "idle" THEN 0 ELSE 1)
      BY <1>1 DEF Mid, OncePlaced
    <2> QED BY <1>3, <2>1
  <1>5. /\ In(s, t) = 0 /\ h.w[t] = 0 /\ s.done[t] = 1 /\ Runs(s, t) = 0 /\ s.unkTask # t
    BY <1>2, <1>4 DEF Places
  <1>6. s.curRSP # t /\ s.curRDP # t /\ "YIELDED" \notin s.state[t]
    <2>1. s.curRSP # t /\ s.curRDP # t
      BY <1>5 DEF Runs
    <2> QED BY <1>1, <1>3, <2>1 DEF Mid, YieldedSide
  <1>7. r \in States
    <2>1. s.done \in [Tasks -> Nat]
      BY <1>1, MidTypes
    <2>2. [s.done EXCEPT ![t] = @ - 1] \in [Tasks -> Nat]
      BY <1>5, <2>1
    <2> QED BY <1>1, <2>2 DEF States
  <1>8. /\ r.state = s.state /\ r.audioList = s.audioList /\ r.gfxList = s.gfxList
        /\ r.curRSP = s.curRSP /\ r.curRDP = s.curRDP /\ r.rsp = s.rsp /\ r.rdp = s.rdp
        /\ r.doAudio = s.doAudio /\ r.yielded = s.yielded /\ r.yieldSignal = s.yieldSignal
        /\ r.crashed = s.crashed /\ r.unkTask = s.unkTask
        /\ r.done[t] = 0 /\ \A u \in Tasks : u # t => r.done[u] = s.done[u]
    <2>1. s.done \in [Tasks -> Nat]
      BY <1>1, MidTypes
    <2>2. r.done = [s.done EXCEPT ![t] = @ - 1]
      BY <1>1 DEF States
    <2> QED BY <1>1, <1>5, <2>1, <2>2 DEF States
  <1> HIDE DEF r
  <1>9. g.prog[t] = "idle" /\ \A u \in Tasks : u # t => g.prog[u] = h.prog[u]
    BY <1>1 DEF Envs
  <1>10. /\ \A u : In(r, u) = In(s, u) /\ Runs(r, u) = Runs(s, u)
         /\ \A u \in Tasks : u # t /\ Begun(s, h, u) => Begun(r, g, u)
    BY <1>8, <1>9 DEF In, Runs, Begun
  <1>11. OncePlaced(r, g)
    <2>1. ASSUME NEW u \in Tasks, u # t PROVE Places(r, g, u) = Places(s, h, u)
      BY <1>8, <1>10, <2>1 DEF Places
    <2>2. Places(r, g, t) = 0
      BY <1>5, <1>8, <1>10 DEF Places
    <2> QED BY <1>1, <1>9, <2>1, <2>2 DEF Mid, OncePlaced
  <1>12. RspSide(r, g)
    BY <1>1, <1>6, <1>8, <1>9, <1>10 DEF Mid, RspSide
  <1>13. RdpSide(r, g)
    BY <1>1, <1>6, <1>8, <1>9 DEF Mid, RdpSide
  <1>14. YieldedSide(r, g)
    BY <1>1, <1>6, <1>8, <1>9, <1>10 DEF Mid, YieldedSide
  <1>15. ClientSide(r, g)
    BY <1>1, <1>5, <1>8, <1>9, <1>10 DEF Mid, ClientSide
  <1> QED BY <1>1, <1>7, <1>8, <1>11, <1>12, <1>13, <1>14, <1>15 DEF Ok, Mid, r

-----------------------------------------------------------------------------
(* Every step keeps the invariant.                                         *)

LEMMA EnvAfter ==
  ASSUME interruptQ' \in Seq(Messages), cmdQ' \in Seq(Tasks), progress' \in Progresses,
         swapPending' \in BOOLEAN
  PROVE  /\ Env' \in Envs
         /\ \A t \in Tasks : Env'.w[t] = Count(interruptQ', TaskMsg(t)) + Count(cmdQ', t)
         /\ Env'.prog = progress' /\ Env'.swap = swapPending'
         /\ Env'.sp = Count(interruptQ', RSP_DONE_MSG) /\ Env'.dp = Count(interruptQ', RDP_DONE_MSG)
  <1> DEFINE w == [t \in Tasks |-> Count(interruptQ', TaskMsg(t)) + Count(cmdQ', t)]
  <1>1. \A x : Count(interruptQ', x) \in Nat /\ Count(cmdQ', x) \in Nat
    BY CountNat
  <1>2. w \in [Tasks -> Nat]
    BY <1>1
  <1>3. Env' = [w |-> w, sp |-> Count(interruptQ', RSP_DONE_MSG),
                dp |-> Count(interruptQ', RDP_DONE_MSG),
                prog |-> progress', swap |-> swapPending']
    BY DEF Env, Queued, RSP_DONE_MSG, RDP_DONE_MSG, TaskMsg
  <1>4. Env' \in Envs
    BY <1>1, <1>2, <1>3 DEF Envs, Progresses
  <1> QED BY <1>3, <1>4

\* A message of the hardware, or the request to run audio, is posted.
LEMMA PostEnv ==
  ASSUME Typed, NEW m \in {VIDEO_MSG, RSP_DONE_MSG, RDP_DONE_MSG, UNK_MSG}, Post(m),
         cmdQ' = cmdQ, progress' \in Progresses, swapPending' \in BOOLEAN
  PROVE  /\ Env' \in Envs /\ Env'.w = Env.w /\ Env'.prog = progress' /\ Env'.swap = swapPending'
         /\ Env'.sp = Env.sp + (IF m = RSP_DONE_MSG THEN 1 ELSE 0)
         /\ Env'.dp = Env.dp + (IF m = RDP_DONE_MSG THEN 1 ELSE 0)
         /\ Count(interruptQ', VIDEO_MSG)
              = Count(interruptQ, VIDEO_MSG) + (IF m = VIDEO_MSG THEN 1 ELSE 0)
         /\ interruptQ' \in Seq(Messages)
  <1>1. m \in Messages
    BY DEF Messages
  <1>2. /\ interruptQ' \in Seq(Messages)
        /\ \A x : Count(interruptQ', x) = Count(interruptQ, x) + (IF m = x THEN 1 ELSE 0)
    BY <1>1, PostCounts
  <1>3. /\ Env' \in Envs
        /\ \A t \in Tasks : Env'.w[t] = Count(interruptQ', TaskMsg(t)) + Count(cmdQ', t)
        /\ Env'.prog = progress' /\ Env'.swap = swapPending'
        /\ Env'.sp = Count(interruptQ', RSP_DONE_MSG) /\ Env'.dp = Count(interruptQ', RDP_DONE_MSG)
    BY <1>2, EnvAfter DEF Typed, TypeOK
  <1>4. /\ Env \in Envs
        /\ \A t \in Tasks : /\ Count(interruptQ, TaskMsg(t)) \in Nat
                            /\ Env.w[t] = Count(interruptQ, TaskMsg(t)) + Count(cmdQ, t)
        /\ Env.sp = Count(interruptQ, RSP_DONE_MSG) /\ Env.dp = Count(interruptQ, RDP_DONE_MSG)
    BY EnvTypes
  <1> DEFINE h == Env
             g == Env'
  <1> HIDE DEF h, g
  <1>5. \A t \in Tasks : g.w[t] = h.w[t]
    <2>1. \A t \in Tasks : m # TaskMsg(t)
      BY MessagesApart
    <2> QED BY <1>2, <1>3, <1>4, <2>1 DEF g, h
  <1>6. g.w \in [Tasks -> Nat] /\ h.w \in [Tasks -> Nat]
    BY <1>3, <1>4 DEF g, h, Envs
  <1>7. g.w = h.w
    BY <1>5, <1>6
  <1> QED BY <1>2, <1>3, <1>4, <1>7 DEF g, h

\* A task is sent.
LEMMA SendEnv ==
  ASSUME Typed, NEW t \in Tasks, SendTask(t), swapPending' = swapPending
  PROVE  /\ Env' \in Envs /\ Env'.w = [Env.w EXCEPT ![t] = @ + 1]
         /\ Env'.prog = [Env.prog EXCEPT ![t] = "work"] /\ Env'.swap = Env.swap
         /\ Env'.sp = Env.sp /\ Env'.dp = Env.dp
         /\ Count(interruptQ', VIDEO_MSG) = Count(interruptQ, VIDEO_MSG)
         /\ interruptQ' \in Seq(Messages) /\ cmdQ' \in Seq(Tasks) /\ progress' \in Progresses
         /\ \/ Post(TaskMsg(t))
            \/ interruptQ' = interruptQ
  <1>1. TaskMsg(t) \in Messages /\ progress \in Progresses /\ cmdQ \in Seq(Tasks)
    BY DEF Messages, Typed, TypeOK, Progresses
  <1>2. /\ progress' = [progress EXCEPT ![t] = "work"]
        /\ \/ Post(TaskMsg(t)) /\ cmdQ' = cmdQ
           \/ interruptQ' = interruptQ /\ cmdQ' = Append(cmdQ, t)
    BY DEF SendTask
  <1>3. \A x : Count(interruptQ, x) \in Nat /\ Count(cmdQ, x) \in Nat
    BY CountNat DEF Typed, TypeOK
  <1>4. /\ interruptQ' \in Seq(Messages) /\ cmdQ' \in Seq(Tasks) /\ progress' \in Progresses
        /\ \A u \in Tasks :
             Count(interruptQ', TaskMsg(u)) + Count(cmdQ', u)
               = Count(interruptQ, TaskMsg(u)) + Count(cmdQ, u) + (IF u = t THEN 1 ELSE 0)
        /\ Count(interruptQ', RSP_DONE_MSG) = Count(interruptQ, RSP_DONE_MSG)
        /\ Count(interruptQ', RDP_DONE_MSG) = Count(interruptQ, RDP_DONE_MSG)
        /\ Count(interruptQ', VIDEO_MSG) = Count(interruptQ, VIDEO_MSG)
    <2>1. progress' \in Progresses
      BY <1>1, <1>2 DEF Progresses
    <2>2. CASE Post(TaskMsg(t)) /\ cmdQ' = cmdQ
      <3>1. /\ interruptQ' \in Seq(Messages)
            /\ \A x : Count(interruptQ', x)
                        = Count(interruptQ, x) + (IF TaskMsg(t) = x THEN 1 ELSE 0)
        BY <1>1, <2>2, PostCounts
      <3>2. ASSUME NEW u \in Tasks
            PROVE  Count(interruptQ', TaskMsg(u)) + Count(cmdQ', u)
                     = Count(interruptQ, TaskMsg(u)) + Count(cmdQ, u) + (IF u = t THEN 1 ELSE 0)
        <4>1. TaskMsg(t) = TaskMsg(u) <=> u = t
          BY MessagesApart
        <4> QED BY <1>3, <2>2, <3>1, <4>1
      <3>3. /\ TaskMsg(t) # VIDEO_MSG /\ TaskMsg(t) # RSP_DONE_MSG
            /\ TaskMsg(t) # RDP_DONE_MSG
        BY MessagesApart
      <3> QED BY <1>1, <1>3, <2>1, <2>2, <3>1, <3>2, <3>3
    <2>3. CASE interruptQ' = interruptQ /\ cmdQ' = Append(cmdQ, t)
      <3>1. cmdQ' \in Seq(Tasks)
        BY <1>1, <2>3
      <3>2. \A x : Count(cmdQ', x) = Count(cmdQ, x) + (IF t = x THEN 1 ELSE 0)
        BY <1>1, <2>3, CountAppend
      <3>3. interruptQ \in Seq(Messages)
        BY DEF Typed, TypeOK
      <3> QED BY <1>3, <2>1, <2>3, <3>1, <3>2, <3>3
    <2> QED BY <1>2, <2>2, <2>3
  <1>5. /\ Env' \in Envs
        /\ \A u \in Tasks : Env'.w[u] = Count(interruptQ', TaskMsg(u)) + Count(cmdQ', u)
        /\ Env'.prog = progress' /\ Env'.swap = swapPending'
        /\ Env'.sp = Count(interruptQ', RSP_DONE_MSG) /\ Env'.dp = Count(interruptQ', RDP_DONE_MSG)
    BY <1>4, EnvAfter DEF Typed, TypeOK
  <1>6. /\ Env \in Envs
        /\ \A u \in Tasks : Env.w[u] = Count(interruptQ, TaskMsg(u)) + Count(cmdQ, u)
        /\ Env.prog = progress /\ Env.swap = swapPending
        /\ Env.sp = Count(interruptQ, RSP_DONE_MSG) /\ Env.dp = Count(interruptQ, RDP_DONE_MSG)
    BY EnvTypes
  <1> DEFINE h == Env
             g == Env'
  <1> HIDE DEF h, g
  <1>7. g.w \in [Tasks -> Nat] /\ h.w \in [Tasks -> Nat]
    BY <1>5, <1>6 DEF g, h, Envs
  <1>8. \A u \in Tasks : g.w[u] = h.w[u] + (IF u = t THEN 1 ELSE 0)
    BY <1>4, <1>5, <1>6 DEF g, h
  <1>9. g.w = [h.w EXCEPT ![t] = @ + 1]
    <2>1. [h.w EXCEPT ![t] = @ + 1] \in [Tasks -> Nat]
      BY <1>7
    <2>2. \A u \in Tasks : [h.w EXCEPT ![t] = @ + 1][u] = h.w[u] + (IF u = t THEN 1 ELSE 0)
      BY <1>7
    <2> QED BY <1>7, <1>8, <2>1, <2>2
  <1> QED BY <1>2, <1>4, <1>5, <1>6, <1>9 DEF g, h

LEMMA PostInSequence ==
  ASSUME Typed, InSequence, NEW m \in Messages, Post(m), sc'.curRSP = sc.curRSP,
         m = RSP_DONE_MSG /\ ~SyncEarly /\ sc.curRSP \in GfxTasks => Env.dp = 0
  PROVE  InSequence'
  <1> SUFFICES ASSUME ~SyncEarly, sc'.curRSP \in GfxTasks,
                      NEW i \in DOMAIN interruptQ', NEW j \in DOMAIN interruptQ',
                      interruptQ'[i] = RSP_DONE_MSG, interruptQ'[j] = RDP_DONE_MSG
               PROVE  i < j
    BY DEF InSequence, RSP_DONE_MSG, RDP_DONE_MSG
  <1> DEFINE n == Len(interruptQ) + 1
  <1>1. interruptQ \in Seq(Messages) /\ interruptQ' = Append(interruptQ, m)
    BY DEF Typed, TypeOK, Post
  <1>2. /\ Len(interruptQ) \in Nat /\ DOMAIN interruptQ = 1 .. Len(interruptQ)
        /\ DOMAIN interruptQ' = 1 .. n
        /\ \A k \in 1 .. Len(interruptQ) : interruptQ'[k] = interruptQ[k]
        /\ interruptQ'[n] = m
    BY <1>1
  <1>3. RSP_DONE_MSG # RDP_DONE_MSG
    BY MessagesApart
  <1>4. i # j
    BY <1>3
  <1>5. CASE j = n
    BY <1>2, <1>4, <1>5
  <1>6. CASE i = n
    <2>1. j \in DOMAIN interruptQ /\ interruptQ[j] = RDP_DONE_MSG
      BY <1>2, <1>4, <1>6
    <2>2. Count(interruptQ, RDP_DONE_MSG) # 0
      BY <1>1, <2>1, CountNat
    <2>3. Env.dp = Count(interruptQ, RDP_DONE_MSG)
      BY DEF Env
    <2> QED BY <1>2, <1>6, <2>2, <2>3
  <1>7. CASE i # n /\ j # n
    <2>1. i \in DOMAIN interruptQ /\ j \in DOMAIN interruptQ
      BY <1>2, <1>7
    <2> QED BY <1>2, <2>1 DEF InSequence
  <1> QED BY <1>5, <1>6, <1>7

LEMMA SameQueues ==
  ASSUME Typed, interruptQ' = interruptQ, cmdQ' = cmdQ, progress' \in Progresses,
         swapPending' \in BOOLEAN
  PROVE  /\ Env' \in Envs /\ Env'.prog = progress' /\ Env'.swap = swapPending'
         /\ Env'.w = Env.w /\ Env'.sp = Env.sp /\ Env'.dp = Env.dp
  <1>1. /\ Env' \in Envs /\ Env'.prog = progress' /\ Env'.swap = swapPending'
    BY EnvAfter DEF Typed, TypeOK
  <1>2. Env'.w = Env.w /\ Env'.sp = Env.sp /\ Env'.dp = Env.dp
    BY DEF Env, Queued, RSP_DONE_MSG, RDP_DONE_MSG, TaskMsg
  <1> QED BY <1>1, <1>2

LEMMA StillGameSide ==
  ASSUME GameSide, game' = game,
         \A t \in Tasks : progress[t] = "idle" => progress'[t] = "idle"
  PROVE  GameSide'
  BY DEF GameSide, GfxTasks, Tasks

LEMMA InvAfter ==
  ASSUME sc'.curRSP = sc.curRSP, sc'.curRDP = sc.curRDP, sc'.rspCount = sc.rspCount,
         sc'.rdpCount = sc.rdpCount, Inv, Ok(sc', Env'),
         Count(interruptQ', VIDEO_MSG) = Count(interruptQ, VIDEO_MSG),
         dpLocal' \in TaskOrNone, interruptQ' \in Seq(Messages), cmdQ' \in Seq(Tasks),
         swapPending' \in BOOLEAN, progress' \in Progresses, audioMsgs' \in 0 .. AudioQSize,
         game' \in [pc : {"submit", "wait"}, k : DOMAIN Frame],
         InSequence', GameSide'
  PROVE  Inv'
  <1>1. sc' \in States
    BY DEF Ok, Mid
  <1>2. Typed'
    BY <1>1 DEF Typed, TypeOK, Progresses
  <1>3. OnTime(sc', Count(interruptQ', VIDEO_MSG))
    BY DEF Inv, OnTime
  <1>4. Ok(sc, Env)' /\ OnTime(sc, Count(interruptQ, VIDEO_MSG))'
    BY <1>3 DEF Ok, OnTime, Count, VIDEO_MSG
  <1> QED BY <1>2, <1>4 DEF Inv

LEMMA RspSyncStep == ASSUME Inv, NEW t \in Tasks, RspSync(t) PROVE Inv'
  <1> DEFINE h == Env
             g == Env'
  <1>1. /\ Typed /\ Ok(sc, h) /\ InSequence /\ GameSide
        /\ sc \in States /\ progress \in Progresses
    BY DEF Inv, Typed, TypeOK, Progresses
  <1>2. /\ SyncEarly /\ t \in GfxTasks /\ sc.rsp = t /\ progress[t] = "work"
        /\ progress' = [progress EXCEPT ![t] = "synced"] /\ sc' = [sc EXCEPT !.rdp = t]
        /\ UNCHANGED <<dpLocal, interruptQ, cmdQ, swapPending, audioMsgs, game>>
    BY DEF RspSync
  <1>3. progress' \in Progresses
    BY <1>1, <1>2 DEF Progresses
  <1>4. /\ g \in Envs /\ g.prog = progress' /\ g.swap = h.swap
        /\ g.w = h.w /\ g.sp = h.sp /\ g.dp = h.dp /\ h.prog = progress
    BY <1>1, <1>2, <1>3, SameQueues, EnvTypes DEF Typed, TypeOK
  <1> HIDE DEF g, h
  <1>5. Ok(sc', g)
    BY <1>1, <1>2, <1>4, SyncKeepsBooks
  <1>6. /\ sc'.curRSP = sc.curRSP /\ sc'.curRDP = sc.curRDP
        /\ sc'.rspCount = sc.rspCount /\ sc'.rdpCount = sc.rdpCount
    BY <1>1, <1>2 DEF States
  <1>7. InSequence'
    BY <1>1, <1>2, <1>6 DEF InSequence, RSP_DONE_MSG, RDP_DONE_MSG
  <1>8. GameSide'
    BY <1>1, <1>2, StillGameSide DEF Progresses
  <1> QED BY <1>1, <1>2, <1>3, <1>5, <1>6, <1>7, <1>8, InvAfter DEF Typed, TypeOK, g

LEMMA RspFinishStep == ASSUME Inv, NEW t \in Tasks, RspFinish(t) PROVE Inv'
  <1> DEFINE h == Env
             g == Env'
  <1>1. /\ Typed /\ Ok(sc, h) /\ InSequence /\ GameSide
        /\ sc \in States /\ progress \in Progresses
    BY DEF Inv, Typed, TypeOK, Progresses
  <1>2. /\ sc.rsp = t /\ Post(RSP_DONE_MSG)
        /\ progress' = [progress EXCEPT ![t] = "finished"]
        /\ UNCHANGED <<dpLocal, cmdQ, swapPending, audioMsgs, game>>
        /\ \/ /\ t \in AudioTasks \/ progress[t] = "synced"
              /\ sc' = [sc EXCEPT !.rsp = NoTask, !.yielded = FALSE]
           \/ /\ t \in GfxTasks /\ progress[t] = "work" /\ ~SyncEarly
              /\ sc' = [sc EXCEPT !.rsp = NoTask, !.yielded = FALSE, !.rdp = t]
    BY DEF RspFinish
  <1>3. progress' \in Progresses
    BY <1>1, <1>2 DEF Progresses
  <1>4. /\ g \in Envs /\ g.prog = progress' /\ g.swap = h.swap
        /\ g.w = h.w /\ g.sp = h.sp + 1 /\ g.dp = h.dp + 0 /\ h.prog = progress
        /\ Count(interruptQ', VIDEO_MSG) = Count(interruptQ, VIDEO_MSG) + 0
        /\ interruptQ' \in Seq(Messages)
    BY <1>1, <1>2, <1>3, PostEnv, EnvTypes, MessagesApart DEF Typed, TypeOK
  <1>5. h \in Envs /\ Count(interruptQ, VIDEO_MSG) \in Nat
    BY <1>1, EnvTypes
  <1> HIDE DEF g, h
  <1>6. g.dp = h.dp /\ Count(interruptQ', VIDEO_MSG) = Count(interruptQ, VIDEO_MSG)
    BY <1>4, <1>5 DEF Envs
  <1>7. Ok(sc', g) /\ (~SyncEarly /\ sc.curRSP \in GfxTasks => h.dp = 0)
    <2>1. g.prog = [h.prog EXCEPT ![t] = "finished"] /\ RspEnds(sc, sc', h, t)
      BY <1>2, <1>4 DEF RspEnds
    <2>2. /\ g \in Envs /\ Ok(sc, h) /\ sc.rsp = t
          /\ g.w = h.w /\ g.sp = h.sp + 1 /\ g.dp = h.dp /\ g.swap = h.swap
      BY <1>1, <1>2, <1>4, <1>6
    <2> QED BY <2>1, <2>2, FinishKeepsBooks
  <1>8. /\ sc'.curRSP = sc.curRSP /\ sc'.curRDP = sc.curRDP
        /\ sc'.rspCount = sc.rspCount /\ sc'.rdpCount = sc.rdpCount
    BY <1>1, <1>2 DEF States
  <1>9. InSequence'
    <2>1. RSP_DONE_MSG \in Messages
      BY DEF Messages
    <2> QED BY <1>1, <1>2, <1>7, <1>8, <2>1, PostInSequence DEF h
  <1>10. progress[t] # "idle"
    <2>1. sc.curRSP = t /\ t # NoTask
      BY <1>1, <1>2, KindsOfTask DEF Ok, Mid, RspSide
    <2>2. h.prog[t] # "idle"
      BY <1>1, <1>2, <2>1 DEF Ok, Mid, RspSide
    <2> QED BY <1>4, <2>2
  <1>11. GameSide'
    BY <1>1, <1>2, <1>10, StillGameSide DEF Progresses
  <1> QED BY <1>1, <1>2, <1>3, <1>4, <1>6, <1>7, <1>8, <1>9, <1>11, InvAfter DEF Typed, TypeOK, g

LEMMA RspYieldStep == ASSUME Inv, RspYield PROVE Inv'
  <1> DEFINE h == Env
             g == Env'
  <1>1. /\ Typed /\ Ok(sc, h) /\ InSequence /\ GameSide
        /\ sc \in States /\ progress \in Progresses
    BY DEF Inv, Typed, TypeOK, Progresses
  <1>2. /\ sc.rsp # NoTask /\ sc.yieldSignal /\ Post(RSP_DONE_MSG)
        /\ sc' = [sc EXCEPT !.rsp = NoTask, !.yielded = TRUE]
        /\ UNCHANGED <<dpLocal, cmdQ, swapPending, progress, audioMsgs, game>>
    BY DEF RspYield
  <1>3. /\ g \in Envs /\ g.prog = progress' /\ g.swap = h.swap
        /\ g.w = h.w /\ g.sp = h.sp + 1 /\ g.dp = h.dp + 0 /\ h.prog = progress
        /\ Count(interruptQ', VIDEO_MSG) = Count(interruptQ, VIDEO_MSG) + 0
        /\ interruptQ' \in Seq(Messages)
    BY <1>1, <1>2, PostEnv, EnvTypes, MessagesApart DEF Typed, TypeOK
  <1>4. h \in Envs /\ Count(interruptQ, VIDEO_MSG) \in Nat
    BY <1>1, EnvTypes
  <1> HIDE DEF g, h
  <1>5. g.dp = h.dp /\ Count(interruptQ', VIDEO_MSG) = Count(interruptQ, VIDEO_MSG)
    BY <1>3, <1>4 DEF Envs
  <1>6. Ok(sc', g) /\ (~SyncEarly /\ sc.curRSP \in GfxTasks => h.dp = 0)
    BY <1>1, <1>2, <1>3, <1>5, StopKeepsBooks
  <1>7. /\ sc'.curRSP = sc.curRSP /\ sc'.curRDP = sc.curRDP
        /\ sc'.rspCount = sc.rspCount /\ sc'.rdpCount = sc.rdpCount
    BY <1>1, <1>2 DEF States
  <1>8. InSequence'
    <2>1. RSP_DONE_MSG \in Messages
      BY DEF Messages
    <2> QED BY <1>1, <1>2, <1>6, <1>7, <2>1, PostInSequence DEF h
  <1>9. GameSide'
    BY <1>1, <1>2, StillGameSide
  <1> QED BY <1>1, <1>2, <1>3, <1>5, <1>6, <1>7, <1>8, <1>9, InvAfter DEF Typed, TypeOK, Progresses, g

LEMMA RdpFinishStep == ASSUME Inv, RdpFinish PROVE Inv'
  <1> DEFINE h == Env
             g == Env'
  <1>1. /\ Typed /\ Ok(sc, h) /\ InSequence /\ GameSide
        /\ sc \in States /\ progress \in Progresses
    BY DEF Inv, Typed, TypeOK, Progresses
  <1>2. /\ sc.rdp # NoTask /\ Post(RDP_DONE_MSG) /\ sc' = [sc EXCEPT !.rdp = NoTask]
        /\ UNCHANGED <<dpLocal, cmdQ, swapPending, progress, audioMsgs, game>>
    BY DEF RdpFinish
  <1>3. /\ g \in Envs /\ g.prog = progress' /\ g.swap = h.swap
        /\ g.w = h.w /\ g.sp = h.sp + 0 /\ g.dp = h.dp + 1 /\ h.prog = progress
        /\ Count(interruptQ', VIDEO_MSG) = Count(interruptQ, VIDEO_MSG) + 0
        /\ interruptQ' \in Seq(Messages)
    BY <1>1, <1>2, PostEnv, EnvTypes, MessagesApart DEF Typed, TypeOK
  <1>4. h \in Envs /\ Count(interruptQ, VIDEO_MSG) \in Nat
    BY <1>1, EnvTypes
  <1> HIDE DEF g, h
  <1>5. g.sp = h.sp /\ Count(interruptQ', VIDEO_MSG) = Count(interruptQ, VIDEO_MSG)
    BY <1>3, <1>4 DEF Envs
  <1>6. Ok(sc', g)
    BY <1>1, <1>2, <1>3, <1>5, RdpStopKeepsBooks
  <1>7. /\ sc'.curRSP = sc.curRSP /\ sc'.curRDP = sc.curRDP
        /\ sc'.rspCount = sc.rspCount /\ sc'.rdpCount = sc.rdpCount
    BY <1>1, <1>2 DEF States
  <1>8. InSequence'
    <2>1. RDP_DONE_MSG \in Messages /\ RDP_DONE_MSG # RSP_DONE_MSG
      BY MessagesApart DEF Messages
    <2> QED BY <1>1, <1>2, <1>7, <2>1, PostInSequence
  <1>9. GameSide'
    BY <1>1, <1>2, StillGameSide
  <1> QED BY <1>1, <1>2, <1>3, <1>5, <1>6, <1>7, <1>8, <1>9, InvAfter DEF Typed, TypeOK, Progresses, g

\* The scheduler has handled the retrace before this one.
LEMMA VerticalRetraceStep == ASSUME Punctual, Inv, VerticalRetrace PROVE Inv'
  <1> DEFINE h == Env
             g == Env'
  <1>1. /\ Typed /\ Ok(sc, h) /\ InSequence /\ GameSide
        /\ sc \in States /\ progress \in Progresses
    BY DEF Inv, Typed, TypeOK, Progresses
  <1>2. /\ \A k \in DOMAIN interruptQ : interruptQ[k] # VIDEO_MSG
        /\ InTime /\ Post(VIDEO_MSG) /\ swapPending' = FALSE
        /\ UNCHANGED <<sc, dpLocal, cmdQ, progress, audioMsgs, game>>
    BY DEF VerticalRetrace
  <1>3. /\ g \in Envs /\ g.prog = progress' /\ g.swap = FALSE
        /\ g.w = h.w /\ g.sp = h.sp + 0 /\ g.dp = h.dp + 0 /\ h.prog = progress
        /\ Count(interruptQ', VIDEO_MSG) = Count(interruptQ, VIDEO_MSG) + 1
        /\ interruptQ' \in Seq(Messages)
    BY <1>1, <1>2, PostEnv, EnvTypes, MessagesApart DEF Typed, TypeOK, Progresses
  <1>4. h \in Envs /\ Count(interruptQ, VIDEO_MSG) = 0
    BY <1>1, <1>2, EnvTypes, CountNat DEF Typed, TypeOK
  <1> HIDE DEF g, h
  <1>5. g.sp = h.sp /\ g.dp = h.dp /\ Count(interruptQ', VIDEO_MSG) = 1
    BY <1>3, <1>4 DEF Envs
  <1>6. Ok(sc, g)
    BY <1>1, <1>2, <1>3, <1>5, SwapKeepsBooks
  <1>7. OnTime(sc, 1)
    <2>1. sc.rspCount \in Nat /\ sc.rdpCount \in Nat /\ WatchdogLimit \in Nat
      BY <1>1, SchedAssumption DEF States
    <2>2. \A t \in TaskOrNone : ~Overruns(t)
      BY <1>1 DEF Punctual, Overruns, Hung, Progresses
    <2>3. sc.curRSP \in TaskOrNone /\ sc.curRDP \in TaskOrNone
      BY <1>1 DEF States
    <2>4. ~Overruns(sc.curRSP) /\ ~MayTake(sc.curRDP)
      BY <2>2, <2>3 DEF MayTake
    <2> QED BY <1>2, <2>1, <2>4 DEF InTime, OnTime
  <1>8. InSequence'
    <2>1. VIDEO_MSG \in Messages /\ VIDEO_MSG # RSP_DONE_MSG
      BY MessagesApart DEF Messages
    <2> QED BY <1>1, <1>2, <2>1, PostInSequence
  <1>9. GameSide'
    BY <1>1, <1>2, StillGameSide
  <1>10. Typed'
    BY <1>1, <1>2, <1>3 DEF Typed, TypeOK
  <1>11. Ok(sc, Env)' /\ OnTime(sc, Count(interruptQ, VIDEO_MSG))'
    BY <1>2, <1>5, <1>6, <1>7 DEF Ok, OnTime, Count, VIDEO_MSG, g
  <1> QED BY <1>8, <1>9, <1>10, <1>11 DEF Inv

\* A client sends a task: what is left is its own variables.
LEMMA SendTaskStep ==
  ASSUME Inv, NEW t \in Tasks, SendTask(t), progress[t] = "idle",
         UNCHANGED <<sc, dpLocal, swapPending>>,
         audioMsgs' \in 0 .. AudioQSize,
         game' \in [pc : {"submit", "wait"}, k : DOMAIN Frame], GameSide'
  PROVE  Inv'
  <1> DEFINE h == Env
             g == Env'
  <1>1. /\ Typed /\ Ok(sc, h) /\ InSequence
    BY DEF Inv
  <1>2. /\ g \in Envs /\ g.w = [h.w EXCEPT ![t] = @ + 1]
        /\ g.prog = [h.prog EXCEPT ![t] = "work"] /\ g.swap = h.swap
        /\ g.sp = h.sp /\ g.dp = h.dp
        /\ Count(interruptQ', VIDEO_MSG) = Count(interruptQ, VIDEO_MSG)
        /\ interruptQ' \in Seq(Messages) /\ cmdQ' \in Seq(Tasks) /\ progress' \in Progresses
        /\ \/ Post(TaskMsg(t))
           \/ interruptQ' = interruptQ
    BY <1>1, SendEnv
  <1>3. h.prog[t] = "idle"
    BY <1>1, EnvTypes
  <1> HIDE DEF g, h
  <1>4. Ok(sc', g)
    <2>1. Ok(sc, g)
      BY <1>1, <1>2, <1>3, SubmitKeepsBooks
    <2> QED BY <2>1
  <1>5. InSequence'
    <2>1. CASE Post(TaskMsg(t))
      <3>1. TaskMsg(t) \in Messages /\ TaskMsg(t) # RSP_DONE_MSG
        BY MessagesApart DEF Messages
      <3> QED BY <1>1, <2>1, <3>1, PostInSequence
    <2>2. CASE interruptQ' = interruptQ
      BY <1>1, <2>2 DEF InSequence, RSP_DONE_MSG, RDP_DONE_MSG
    <2> QED BY <1>2, <2>1, <2>2
  <1> QED BY <1>1, <1>2, <1>4, <1>5, InvAfter DEF Typed, TypeOK, g

\* A client takes the done message of a task.
LEMMA TakeDoneStep ==
  ASSUME Inv, NEW t \in Tasks, TakeDone(t),
         UNCHANGED <<dpLocal, interruptQ, cmdQ, audioMsgs>>, swapPending' \in BOOLEAN,
         swapPending' => swapPending \/ \A u \in GfxTasks : progress'[u] = "idle",
         game' \in [pc : {"submit", "wait"}, k : DOMAIN Frame], GameSide'
  PROVE  Inv'
  <1> DEFINE h == Env
             g == Env'
             m == [w |-> h.w, sp |-> h.sp, dp |-> h.dp, prog |-> progress', swap |-> h.swap]
  <1>1. /\ Typed /\ Ok(sc, h) /\ InSequence /\ h \in Envs
        /\ sc \in States /\ progress \in Progresses /\ h.prog = progress /\ h.swap = swapPending
    BY EnvTypes DEF Inv, Typed, TypeOK, Progresses
  <1>2. /\ sc.done[t] > 0 /\ sc' = [sc EXCEPT !.done[t] = @ - 1]
        /\ progress' = [progress EXCEPT ![t] = "idle"]
    BY DEF TakeDone
  <1>3. progress' \in Progresses
    BY <1>1, <1>2 DEF Progresses
  <1>4. /\ g \in Envs /\ g.prog = progress' /\ g.swap = swapPending'
        /\ g.w = h.w /\ g.sp = h.sp /\ g.dp = h.dp
    BY <1>1, <1>3, SameQueues
  <1> HIDE DEF g, h
  <1>5. /\ m \in Envs /\ m.w = h.w /\ m.sp = h.sp /\ m.dp = h.dp /\ m.swap = h.swap
        /\ m.prog = [h.prog EXCEPT ![t] = "idle"] /\ m.prog = progress'
    BY <1>1, <1>2, <1>3 DEF Envs, Progresses
  <1> HIDE DEF m
  <1>6. Ok(sc', m)
    BY <1>1, <1>2, <1>5, TakeKeepsBooks
  <1>7. Ok(sc', g)
    <2>1. g.prog = m.prog /\ g.w = m.w /\ g.sp = m.sp /\ g.dp = m.dp
      BY <1>4, <1>5
    <2>2. g.swap => m.swap \/ \A u \in GfxTasks : m.prog[u] = "idle"
      BY <1>1, <1>4, <1>5
    <2> QED BY <1>4, <1>6, <2>1, <2>2, SwapKeepsBooks
  <1>8. /\ sc'.curRSP = sc.curRSP /\ sc'.curRDP = sc.curRDP
        /\ sc'.rspCount = sc.rspCount /\ sc'.rdpCount = sc.rdpCount
    BY <1>1, <1>2 DEF States
  <1>9. InSequence'
    BY <1>1, <1>8 DEF InSequence, RSP_DONE_MSG, RDP_DONE_MSG
  <1>10. Count(interruptQ', VIDEO_MSG) = Count(interruptQ, VIDEO_MSG)
    OBVIOUS
  <1> QED BY <1>1, <1>3, <1>7, <1>8, <1>9, <1>10, InvAfter DEF Typed, TypeOK, g

LEMMA AudioStep ==
  ASSUME Inv, NEW t \in AudioTasks, AudioSubmit(t) \/ AudioTaskDone(t)
  PROVE  Inv'
  <1>1. /\ Typed /\ GameSide /\ t \in Tasks /\ progress \in Progresses
        /\ \A j \in DOMAIN Frame : Frame[j] \in Tasks /\ Frame[j] # t
    BY KindsOfTask DEF Inv, Typed, TypeOK, Progresses, GfxTasks
  <1>2. CASE AudioSubmit(t)
    <2>1. /\ audioMsgs > 0 /\ progress[t] = "idle" /\ SendTask(t) /\ audioMsgs' = audioMsgs - 1
          /\ UNCHANGED <<sc, dpLocal, swapPending, game>>
      BY <1>2 DEF AudioSubmit
    <2>2. audioMsgs' \in 0 .. AudioQSize
      BY <1>1, <2>1, SchedAssumption DEF Typed, TypeOK
    <2>3. GameSide'
      <3>1. progress' = [progress EXCEPT ![t] = "work"]
        BY <2>1 DEF SendTask
      <3>2. \A j \in DOMAIN Frame : progress'[Frame[j]] = progress[Frame[j]]
        BY <1>1, <3>1 DEF Progresses
      <3> QED BY <1>1, <2>1, <3>2 DEF GameSide
    <2> QED BY <1>1, <2>1, <2>2, <2>3, SendTaskStep DEF Typed, TypeOK
  <1>3. CASE AudioTaskDone(t)
    <2>1. TakeDone(t) /\ UNCHANGED <<dpLocal, interruptQ, cmdQ, swapPending, audioMsgs, game>>
      BY <1>3 DEF AudioTaskDone
    <2>2. GameSide'
      <3>1. progress' = [progress EXCEPT ![t] = "idle"]
        BY <2>1 DEF TakeDone
      <3> QED BY <1>1, <2>1, <3>1, StillGameSide DEF Progresses
    <2> QED BY <1>1, <2>1, <2>2, TakeDoneStep DEF Typed, TypeOK
  <1> QED BY <1>2, <1>3

LEMMA AudioHurryStep == ASSUME Inv, AudioHurry PROVE Inv'
  <1> DEFINE h == Env
             g == Env'
  <1>1. /\ Typed /\ Ok(sc, h) /\ InSequence /\ GameSide /\ progress \in Progresses
    BY DEF Inv, Typed, TypeOK, Progresses
  <1>2. /\ Post(UNK_MSG)
        /\ UNCHANGED <<sc, dpLocal, cmdQ, swapPending, progress, audioMsgs, game>>
    BY DEF AudioHurry
  <1>3. /\ g \in Envs /\ g.prog = h.prog /\ g.swap = h.swap
        /\ g.w = h.w /\ g.sp = h.sp + 0 /\ g.dp = h.dp + 0
        /\ Count(interruptQ', VIDEO_MSG) = Count(interruptQ, VIDEO_MSG) + 0
        /\ interruptQ' \in Seq(Messages)
    BY <1>1, <1>2, PostEnv, EnvTypes, MessagesApart DEF Typed, TypeOK
  <1>4. h \in Envs /\ Count(interruptQ, VIDEO_MSG) \in Nat
    BY <1>1, EnvTypes
  <1> HIDE DEF g, h
  <1>5. g.sp = h.sp /\ g.dp = h.dp /\ Count(interruptQ', VIDEO_MSG) = Count(interruptQ, VIDEO_MSG)
    BY <1>3, <1>4 DEF Envs
  <1>6. Ok(sc', g)
    <2>1. Ok(sc, g)
      BY <1>1, <1>3, <1>5, SwapKeepsBooks
    <2> QED BY <1>2, <2>1
  <1>7. InSequence'
    <2>1. UNK_MSG \in Messages /\ UNK_MSG # RSP_DONE_MSG
      BY MessagesApart DEF Messages
    <2> QED BY <1>1, <1>2, <2>1, PostInSequence
  <1>8. GameSide'
    BY <1>1, <1>2, StillGameSide
  <1> QED BY <1>1, <1>2, <1>3, <1>5, <1>6, <1>7, <1>8, InvAfter DEF Typed, TypeOK, Progresses, g

\* The frame: its tasks are different ones, counted from 1.
LEMMA FrameTypes ==
  /\ Len(Frame) \in Nat \ {0} /\ DOMAIN Frame = 1 .. Len(Frame)
  /\ \A j \in DOMAIN Frame : Frame[j] \in GfxTasks /\ Frame[j] \in Tasks
  /\ \A j, k \in DOMAIN Frame : Frame[j] = Frame[k] => j = k
  /\ \A t \in GfxTasks : \E j \in DOMAIN Frame : t = Frame[j]
  <1>1. Frame \in Seq(GfxTasks) /\ Frame # <<>>
    BY SchedAssumption
  <1>2. Len(Frame) \in Nat \ {0} /\ DOMAIN Frame = 1 .. Len(Frame)
    BY <1>1
  <1> QED BY <1>2, SchedAssumption DEF GfxTasks, Tasks

LEMMA NextStepTypes ==
  ASSUME Typed, NEW pc \in {"submit", "wait"}
  PROVE  /\ NextStep(pc) \in [pc : {"submit", "wait"}, k : DOMAIN Frame]
         /\ game.k < Len(Frame) =>
              NextStep(pc).pc = game.pc /\ NextStep(pc).k = game.k + 1
         /\ ~(game.k < Len(Frame)) => game.k = Len(Frame) /\ NextStep(pc) = [pc |-> pc, k |-> 1]
         /\ game.k \in DOMAIN Frame
  <1>1. game \in [pc : {"submit", "wait"}, k : DOMAIN Frame]
    BY DEF Typed, TypeOK
  <1> QED BY <1>1, FrameTypes DEF NextStep

LEMMA GameSubmitStep == ASSUME Inv, GameSubmit PROVE Inv'
  <1> DEFINE t == Frame[game.k]
  <1>1. /\ Typed /\ GameSide /\ progress \in Progresses
        /\ game.pc = "submit" /\ SendTask(t) /\ game' = NextStep("wait")
        /\ UNCHANGED <<sc, dpLocal, swapPending, audioMsgs>>
    BY DEF GameSubmit, Inv, Typed, TypeOK, Progresses
  <1>2. game.k \in DOMAIN Frame /\ t \in Tasks /\ game.k \in Nat
    BY <1>1, NextStepTypes, FrameTypes
  <1>3. progress[t] = "idle"
    BY <1>1, <1>2 DEF GameSide
  <1>4. game' \in [pc : {"submit", "wait"}, k : DOMAIN Frame]
    BY <1>1, NextStepTypes
  <1>5. GameSide'
    <2>1. progress' = [progress EXCEPT ![t] = "work"]
      BY <1>1 DEF SendTask
    <2>2. \A j \in DOMAIN Frame : j # game.k => progress'[Frame[j]] = progress[Frame[j]]
      BY <1>1, <1>2, <2>1, FrameTypes DEF Progresses
    <2> SUFFICES ASSUME NEW j \in DOMAIN Frame,
                        IF game'.pc = "submit" THEN game'.k <= j ELSE j < game'.k
                 PROVE  progress'[Frame[j]] = "idle"
      BY DEF GameSide
    <2>3. j \in 1 .. Len(Frame) /\ Len(Frame) \in Nat
      BY FrameTypes
    <2>4. CASE game.k < Len(Frame)
      <3>1. game'.pc = "submit" /\ game'.k = game.k + 1
        BY <1>1, <2>4, NextStepTypes
      <3>2. game.k <= j /\ j # game.k
        BY <1>2, <2>3, <3>1
      <3> QED BY <1>1, <2>2, <3>2 DEF GameSide
    <2>5. CASE ~(game.k < Len(Frame))
      <3>1. game'.pc = "wait" /\ game'.k = 1
        BY <1>1, <2>5, NextStepTypes
      <3> QED BY <2>3, <3>1
    <2> QED BY <2>4, <2>5
  <1> QED BY <1>1, <1>2, <1>3, <1>4, <1>5, SendTaskStep DEF Typed, TypeOK

\* When the last task of a frame is answered, so are all of them: a swap is
\* never asked for while a task is under way.
LEMMA WaitStep == ASSUME Inv, rcpWaitDP PROVE Inv'
  <1> DEFINE t == Frame[game.k]
  <1>1. /\ Typed /\ GameSide /\ progress \in Progresses /\ swapPending \in BOOLEAN
        /\ game.pc = "wait" /\ TakeDone(t) /\ game' = NextStep("submit")
        /\ swapPending' = (swapPending \/ game.k = Len(Frame))
        /\ UNCHANGED <<dpLocal, interruptQ, cmdQ, audioMsgs>>
    BY DEF rcpWaitDP, Inv, Typed, TypeOK, Progresses
  <1>2. game.k \in DOMAIN Frame /\ t \in Tasks /\ game.k \in Nat
    BY <1>1, NextStepTypes, FrameTypes
  <1>3. game' \in [pc : {"submit", "wait"}, k : DOMAIN Frame]
    BY <1>1, NextStepTypes
  <1>4. progress' = [progress EXCEPT ![t] = "idle"]
    BY <1>1 DEF TakeDone
  <1>5. ASSUME NEW j \in DOMAIN Frame, j <= game.k
        PROVE  progress'[Frame[j]] = "idle"
    <2>1. j \in Nat /\ Frame[j] \in Tasks
      BY FrameTypes
    <2>2. CASE j = game.k
      BY <1>1, <1>2, <1>4, <2>2 DEF Progresses
    <2>3. CASE j # game.k
      <3>1. j < game.k
        BY <1>2, <1>5, <2>1, <2>3
      <3>2. progress[Frame[j]] = "idle"
        BY <1>1, <3>1 DEF GameSide
      <3> QED BY <1>1, <1>4, <2>1, <3>2 DEF Progresses
    <2> QED BY <2>2, <2>3
  <1>6. game.k = Len(Frame) => \A u \in GfxTasks : progress'[u] = "idle"
    <2> SUFFICES ASSUME game.k = Len(Frame), NEW u \in GfxTasks PROVE progress'[u] = "idle"
      OBVIOUS
    <2>1. PICK j \in DOMAIN Frame : u = Frame[j]
      BY FrameTypes
    <2>2. j <= game.k
      BY FrameTypes
    <2> QED BY <1>5, <2>1, <2>2
  <1>7. GameSide'
    <2> SUFFICES ASSUME NEW j \in DOMAIN Frame,
                        IF game'.pc = "submit" THEN game'.k <= j ELSE j < game'.k
                 PROVE  progress'[Frame[j]] = "idle"
      BY DEF GameSide
    <2>1. CASE game.k < Len(Frame)
      <3>1. game'.pc = "wait" /\ game'.k = game.k + 1
        BY <1>1, <2>1, NextStepTypes
      <3>2. j <= game.k
        BY <1>2, <3>1, FrameTypes
      <3> QED BY <1>5, <3>2
    <2>2. CASE ~(game.k < Len(Frame))
      <3>1. game.k = Len(Frame)
        BY <1>1, <2>2, NextStepTypes
      <3> QED BY <1>6, <3>1, FrameTypes
    <2> QED BY <2>1, <2>2
  <1>8. swapPending' \in BOOLEAN
    BY <1>1
  <1>9. swapPending' => swapPending \/ \A u \in GfxTasks : progress'[u] = "idle"
    BY <1>1, <1>6
  <1> QED BY <1>1, <1>2, <1>3, <1>7, <1>8, <1>9, TakeDoneStep

LEMMA InitInv == ASSUME Init PROVE Inv
  <1>1. /\ sc = [curRSP |-> NoTask, curRDP |-> NoTask, unkTask |-> NoTask,
                 audioList |-> <<>>, gfxList |-> <<>>,
                 frameCount |-> 0, doAudio |-> FALSE, nextFrame |-> 0,
                 rspCount |-> 0, rdpCount |-> 0,
                 state |-> [t \in Tasks |-> {}], done |-> [t \in Tasks |-> 0],
                 rsp |-> NoTask, rdp |-> NoTask,
                 yieldSignal |-> FALSE, yielded |-> FALSE, crashed |-> "no"]
        /\ dpLocal = NoTask /\ interruptQ = <<>> /\ cmdQ = <<>> /\ swapPending = FALSE
        /\ progress = [t \in Tasks |-> "idle"] /\ audioMsgs = 0
        /\ game = [pc |-> "submit", k |-> 1]
    BY DEF Init
  <1>2. sc \in States
    <2>1. /\ [t \in Tasks |-> {}] \in [Tasks -> SUBSET {"SP", "DP", "YIELD", "YIELDED"}]
          /\ [t \in Tasks |-> 0] \in [Tasks -> Nat]
          /\ <<>> \in Seq(AudioTasks) /\ <<>> \in Seq(GfxTasks)
      OBVIOUS
    <2> QED BY <1>1, <2>1 DEF States, TaskOrNone
  <1>3. Typed
    <2>1. /\ <<>> \in Seq(Messages) /\ <<>> \in Seq(Tasks) /\ 0 \in 0 .. AudioQSize
      BY SchedAssumption
    <2>2. /\ progress \in [Tasks -> {"idle", "work", "synced", "hung", "finished"}]
          /\ progress \in Progresses
      BY <1>1 DEF Progresses
    <2>3. game \in [pc : {"submit", "wait"}, k : DOMAIN Frame]
      BY <1>1, FrameTypes
    <2> QED BY <1>1, <1>2, <2>1, <2>2, <2>3 DEF Typed, TypeOK, TaskOrNone
  <1> DEFINE h == Env
  <1>4. /\ h \in Envs /\ h.prog = progress /\ h.sp = 0 /\ h.dp = 0
        /\ \A t \in Tasks : h.w[t] = 0
    BY <1>1, <1>3, EnvTypes, CountEmpty
  <1> HIDE DEF h
  <1>5. /\ sc.curRSP = NoTask /\ sc.curRDP = NoTask /\ sc.unkTask = NoTask
        /\ sc.rsp = NoTask /\ sc.rdp = NoTask /\ sc.crashed = "no" /\ ~sc.doAudio
        /\ \A t \in Tasks : sc.state[t] = {} /\ sc.done[t] = 0 /\ In(sc, t) = 0 /\ h.prog[t] = "idle"
    BY <1>1, <1>4, CountEmpty DEF In
  <1>6. OncePlaced(sc, h)
    <2>1. \A t \in Tasks : Places(sc, h, t) = 0
      BY <1>4, <1>5, KindsOfTask DEF Places, Runs
    <2> QED BY <1>5, <2>1 DEF OncePlaced
  <1>7. RspSide(sc, h) /\ RdpSide(sc, h)
    BY <1>4, <1>5, KindsOfTask DEF RspSide, RdpSide
  <1>8. YieldedSide(sc, h) /\ ClientSide(sc, h)
    BY <1>4, <1>5, KindsOfTask DEF YieldedSide, ClientSide
  <1>9. Ok(sc, Env)
    BY <1>2, <1>4, <1>5, <1>6, <1>7, <1>8 DEF Ok, Mid, h
  <1>10. OnTime(sc, Count(interruptQ, VIDEO_MSG))
    BY <1>1, <1>5, CountEmpty DEF OnTime
  <1>11. InSequence /\ GameSide
    BY <1>1, FrameTypes DEF InSequence, GameSide
  <1> QED BY <1>3, <1>9, <1>10, <1>11 DEF Inv

LEMMA NextKeepsInv == ASSUME Punctual, Inv, [Next]_vars PROVE Inv'
  <1>1. CASE __scMain
    BY <1>1, MessageHandled, MessageKeepsInv
  <1>2. CASE Hardware
    <2>1. ASSUME NEW t \in Tasks, RspSync(t) PROVE Inv'
      BY <2>1, RspSyncStep
    <2>2. ASSUME NEW t \in Tasks, RspFinish(t) PROVE Inv'
      BY <2>2, RspFinishStep
    <2>3. ASSUME NEW t \in Tasks, RspHangs(t) PROVE FALSE
      BY <2>3 DEF RspHangs, Punctual
    <2> QED BY <1>2, <2>1, <2>2, <2>3, RspYieldStep, RdpFinishStep, VerticalRetraceStep DEF Hardware
  <1>3. CASE Clients
    BY <1>3, AudioStep, AudioHurryStep, GameSubmitStep, WaitStep DEF Clients
  <1>4. CASE UNCHANGED vars
    <2>1. /\ sc' = sc /\ dpLocal' = dpLocal /\ interruptQ' = interruptQ /\ cmdQ' = cmdQ
          /\ swapPending' = swapPending /\ progress' = progress
          /\ audioMsgs' = audioMsgs /\ game' = game
      BY <1>4 DEF vars
    <2>2. Typed' /\ InSequence' /\ GameSide'
      BY <2>1 DEF Inv, Typed, TypeOK, InSequence, GameSide, RSP_DONE_MSG, RDP_DONE_MSG
    <2>3. Env' = Env /\ Count(interruptQ', VIDEO_MSG) = Count(interruptQ, VIDEO_MSG)
      BY <2>1 DEF Env, Queued, RSP_DONE_MSG, RDP_DONE_MSG, TaskMsg
    <2>4. Ok(sc', Env') /\ OnTime(sc', Count(interruptQ', VIDEO_MSG))
      BY <2>1, <2>3 DEF Inv
    <2>5. Ok(sc, Env)' /\ OnTime(sc, Count(interruptQ, VIDEO_MSG))'
      BY <2>4 DEF Ok, OnTime, Count, VIDEO_MSG
    <2> QED BY <2>2, <2>5 DEF Inv
  <1> QED BY <1>1, <1>2, <1>3, <1>4 DEF Next, Stopped

-----------------------------------------------------------------------------
(* The theorems.                                                           *)

\* The books are kept: what sched.c believes of the units, the lists and the
\* tasks agrees with what the hardware and the clients do.
THEOREM SchedInvariant == ASSUME Punctual PROVE Spec => []Inv
  <1>1. Init => Inv
    BY InitInv
  <1>2. Inv /\ [Next]_vars => Inv'
    BY NextKeepsInv
  <1> QED BY <1>1, <1>2, PTL DEF Spec

\* Every variable has its type, whatever tasks there are.
THEOREM SchedTypes == ASSUME Punctual PROVE Spec => []TypeOK
  <1>1. Inv => TypeOK
    BY DEF Inv, Typed
  <1> QED BY <1>1, SchedInvariant, PTL

\* curRSPTask and curRDPTask tell what runs: an interrupt comes for them once,
\* and a yielded task that still needs the RDP owns it (the assertion in
\* __scSchedule).
THEOREM SchedUnits == ASSUME Punctual PROVE Spec => []UnitsAsBelieved
  <1>1. ASSUME Inv PROVE UnitsAsBelieved
    <2> DEFINE h == Env
    <2>1. /\ RspSide(sc, h) /\ RdpSide(sc, h) /\ YieldedSide(sc, h) /\ sc \in States /\ h \in Envs
          /\ h.sp = Count(interruptQ, RSP_DONE_MSG) /\ h.dp = Count(interruptQ, RDP_DONE_MSG)
      BY <1>1, EnvTypes DEF Inv, Ok, Mid
    <2> HIDE DEF h
    <2>2. h.dp \in Nat
      BY <2>1 DEF Envs
    <2>3. /\ sc.rsp # NoTask => sc.rsp = sc.curRSP
          /\ h.sp = (IF sc.curRSP # NoTask /\ sc.rsp = NoTask THEN 1 ELSE 0)
      BY <2>1 DEF RspSide
    <2>4. /\ sc.rdp # NoTask => sc.rdp = sc.curRDP
          /\ h.dp + (IF sc.rdp # NoTask THEN 1 ELSE 0) <= (IF sc.curRDP # NoTask THEN 1 ELSE 0)
      <3>1. CASE sc.curRDP = NoTask
        BY <2>1, <2>2, <3>1 DEF RdpSide
      <3>2. CASE sc.curRDP # NoTask
        <4> DEFINE t == sc.curRDP
        <4>1. t \in Tasks
          BY <2>1, <3>2 DEF States, TaskOrNone
        <4>2. /\ sc.rdp \in {NoTask, t}
              /\ h.dp + (IF sc.rdp = NoTask THEN 0 ELSE 1) = (IF h.prog[t] = "work" THEN 0 ELSE 1)
          BY <2>1, <4>1 DEF RdpSide
        <4> QED BY <2>2, <3>2, <4>2
      <3> QED BY <3>1, <3>2
    <2>5. \A t \in GfxTasks : "YIELDED" \in sc.state[t] /\ "DP" \in sc.state[t] => sc.curRDP = t
      BY <2>1, KindsOfTask DEF YieldedSide, Begun
    <2> QED BY <2>1, <2>3, <2>4, <2>5 DEF UnitsAsBelieved
  <1> QED BY <1>1, SchedInvariant, PTL

\* __scSchedule never takes the head of an empty audio list, and the RDP is
\* never started with the task an earlier message left in dp.
THEOREM SchedNoStaleStart == ASSUME Punctual PROVE Spec => []NoStaleStart
  <1>1. ASSUME Inv PROVE NoStaleStart
    BY <1>1 DEF Inv, Ok, Mid, NoStaleStart
  <1> QED BY <1>1, SchedInvariant, PTL

\* No task is lost and none is run twice, as long as the RSP ends a graphics
\* task before the RDP does and a frame has no more than one last task.
THEOREM SchedOnePlace == ASSUME Punctual, Exact PROVE Spec => []OnePlace
  <1>1. ASSUME Inv PROVE OnePlace
    <2> SUFFICES ASSUME NEW t \in Tasks
                 PROVE  Queued(t) + Listed(t) + Running(t) + PutOff(t) + sc.done[t]
                          = (IF progress[t] = "idle" THEN 0 ELSE 1)
      <3>1. \A t \in Tasks : progress[t] # "hung"
        BY <1>1 DEF Inv, Typed, Progresses
      <3> QED BY <3>1 DEF OnePlace
    <2>1. Listed(t) = In(sc, t) /\ Running(t) = Runs(sc, t)
      BY DEF Listed, In, Running, Runs
    <2>2. Env.w[t] = Queued(t) /\ Env.prog = progress
      BY DEF Env
    <2>3. Places(sc, Env, t) = (IF Env.prog[t] = "idle" THEN 0 ELSE 1)
      BY <1>1 DEF Inv, Ok, Mid, OncePlaced
    <2> QED BY <2>1, <2>2, <2>3 DEF Places, PutOff
  <1> QED BY <1>1, SchedInvariant, PTL

\* A done message means that both units have ended the task, as long as no
\* task runs into the watchdog (ReportedIsDone is violated where one does).
THEOREM SchedReportedIsDone == ASSUME Punctual PROVE Spec => []ReportedIsDone
  <1>1. ASSUME Inv PROVE ReportedIsDone
    <2> DEFINE h == Env
    <2>1. Mid(sc, h) /\ h.prog = progress
      BY <1>1, EnvTypes DEF Inv, Ok
    <2> HIDE DEF h
    <2> SUFFICES ASSUME NEW t \in Tasks, sc.done[t] > 0
                 PROVE  progress[t] = "finished" /\ sc.rdp # t
      BY DEF ReportedIsDone
    <2>2. progress[t] = "finished"
      BY <2>1 DEF Mid, ClientSide
    <2>3. Places(sc, h, t) <= 1
      <3>1. Places(sc, h, t) <= (IF h.prog[t] = "idle" THEN 0 ELSE 1)
        BY <2>1 DEF Mid, OncePlaced
      <3> QED BY <2>1, <2>2, <3>1
    <2>4. /\ In(sc, t) \in Nat /\ h.w[t] \in Nat /\ sc.done[t] \in Nat
          /\ Runs(sc, t) \in 0 .. 1
      BY <2>1, MidTypes
    <2>5. In(sc, t) = 0 /\ Runs(sc, t) = 0
      <3> DEFINE off == IF sc.unkTask = t THEN 1 ELSE 0
      <3>1. off \in 0 .. 1
        OBVIOUS
      <3>2. h.w[t] + In(sc, t) + Runs(sc, t) + off + sc.done[t] <= 1
        BY <2>3 DEF Places
      <3>3. off \in Nat /\ Runs(sc, t) \in Nat
        BY <2>4, <3>1
      <3> HIDE DEF off
      <3> QED BY <2>4, <3>2, <3>3, SmallSum
    <2>6. sc.curRDP # t
      BY <2>5 DEF Runs
    <2>7. sc.curRDP \in Tasks \union {NoTask} /\ t # NoTask
      BY <2>1, MidTypes, KindsOfTask
    <2>8. sc.rdp # t
      BY <2>1, <2>6, <2>7 DEF Mid, RdpSide
    <2> QED BY <2>2, <2>8
  <1> QED BY <1>1, SchedInvariant, PTL

\* A done message is lost (CompleteIsReported is violated) only where the RDP
\* ends a task before the RSP: if the full sync is the RSP's last act, a task
\* with nothing left to do has been reported, or is put off.
THEOREM SchedReports == ASSUME Punctual, Exact PROVE Spec => []CompleteIsReported
  <1>1. ASSUME Inv PROVE CompleteIsReported
    <2> DEFINE h == Env
    <2>1. Mid(sc, h) /\ h.prog = progress
      BY <1>1, EnvTypes DEF Inv, Ok
    <2> HIDE DEF h
    <2> SUFFICES ASSUME NEW t \in Tasks, progress[t] = "finished",
                        sc.state[t] \intersect {"SP", "DP"} = {}
                 PROVE  sc.unkTask = t \/ sc.done[t] > 0
      BY DEF CompleteIsReported
    <2>2. In(sc, t) \in Nat /\ h.w[t] \in Nat /\ sc.done[t] \in Nat
      BY <2>1, MidTypes
    <2>3. ~(h.w[t] > 0) /\ ~(In(sc, t) > 0)
      <3>1. "YIELDED" \notin sc.state[t]
        BY <2>1 DEF Mid, YieldedSide
      <3> QED BY <2>1, <3>1 DEF Mid, ClientSide
    <2>4. sc.curRSP # t /\ sc.curRDP # t
      BY <2>1 DEF Mid, RspSide, RdpSide
    <2>5. Runs(sc, t) = 0
      BY <2>4 DEF Runs
    <2>6. Places(sc, h, t) = 1
      <3>1. Places(sc, h, t) = (IF h.prog[t] = "idle" THEN 0 ELSE 1)
        BY <2>1 DEF Mid, OncePlaced
      <3> QED BY <2>1, <3>1
    <2>7. h.w[t] = 0 /\ In(sc, t) = 0
      BY <2>2, <2>3
    <2> QED BY <2>2, <2>5, <2>6, <2>7 DEF Places
  <1> QED BY <1>1, SchedInvariant, PTL

-----------------------------------------------------------------------------
(* The refinement of AbstractRcp.                                          *)

LeftOf(p, rdp, t) ==
  (IF p \in {"work", "synced", "hung"} THEN {"SP"} ELSE {})
    \union (IF t \in GfxTasks /\ (p \in {"work", "hung"} \/ rdp = t) THEN {"DP"} ELSE {})

ClientOf(p, n) ==
  IF p = "idle" THEN "idle" ELSE IF n > 0 THEN "answered" ELSE "waiting"

LEMMA MappedState ==
  /\ HardwareLeft = [t \in Tasks |-> LeftOf(progress[t], sc.rdp, t)]
  /\ HardwareLeft' = [t \in Tasks |-> LeftOf(progress'[t], sc'.rdp, t)]
  /\ ClientState = [t \in Tasks |-> ClientOf(progress[t], sc.done[t])]
  /\ ClientState' = [t \in Tasks |-> ClientOf(progress'[t], sc'.done[t])]
  /\ Rcp!AllTasks = Tasks
  BY DEF HardwareLeft, ClientState, LeftOf, ClientOf, Rcp!AllTasks, Tasks

\* What a step does to the mapped state: nothing, or something to one task.
LEMMA LeftStays ==
  ASSUME \A u \in Tasks : LeftOf(progress'[u], sc'.rdp, u) = LeftOf(progress[u], sc.rdp, u)
  PROVE  HardwareLeft' = HardwareLeft
  BY MappedState

LEMMA ClientStays ==
  ASSUME \A u \in Tasks : ClientOf(progress'[u], sc'.done[u]) = ClientOf(progress[u], sc.done[u])
  PROVE  ClientState' = ClientState
  BY MappedState

LEMMA LeftChanges ==
  ASSUME NEW t \in Tasks,
         \A u \in Tasks : u # t =>
           LeftOf(progress'[u], sc'.rdp, u) = LeftOf(progress[u], sc.rdp, u)
  PROVE  HardwareLeft' = [HardwareLeft EXCEPT ![t] = LeftOf(progress'[t], sc'.rdp, t)]
  BY MappedState

LEMMA ClientChanges ==
  ASSUME NEW t \in Tasks,
         \A u \in Tasks : u # t =>
           ClientOf(progress'[u], sc'.done[u]) = ClientOf(progress[u], sc.done[u])
  PROVE  ClientState' = [ClientState EXCEPT ![t] = ClientOf(progress'[t], sc'.done[t])]
  BY MappedState

Stutters == HardwareLeft' = HardwareLeft /\ ClientState' = ClientState

\* A message is handled: at most one client is told, whose task is finished.
LEMMA MessageAnswers ==
  ASSUME Inv, Handled
  PROVE  Stutters \/ \E t \in Tasks : Rcp!Answer(t)
  <1> DEFINE g == Env'
  <1>1. /\ progress' = progress /\ sc'.rdp = sc.rdp /\ Told(sc, sc') /\ Mid(sc', g)
        /\ g.prog = progress'
    BY DEF Handled, Took, Goes, Ok, Env
  <1> HIDE DEF g
  <1>2. HardwareLeft' = HardwareLeft
    BY <1>1, LeftStays
  <1>3. CASE sc'.done = sc.done
    BY <1>1, <1>2, <1>3, ClientStays DEF Stutters
  <1>4. ASSUME NEW t \in Tasks, sc'.done = [sc.done EXCEPT ![t] = @ + 1]
        PROVE  Rcp!Answer(t)
    <2>1. /\ sc.done \in [Tasks -> Nat]
          /\ In(sc', t) \in Nat /\ g.w[t] \in Nat /\ sc'.done[t] \in Nat /\ Runs(sc', t) \in 0 .. 1
      BY <1>1, MidTypes DEF Inv, Ok
    <2>2. sc'.done[t] = sc.done[t] + 1 /\ sc.done[t] \in Nat
      BY <1>4, <2>1
    <2>3. progress[t] = "finished"
      BY <1>1, <2>2 DEF Mid, ClientSide
    <2>4. Places(sc', g, t) <= 1
      <3>1. Places(sc', g, t) <= (IF g.prog[t] = "idle" THEN 0 ELSE 1)
        BY <1>1 DEF Mid, OncePlaced
      <3> QED BY <1>1, <2>3, <3>1
    <2>5. sc.done[t] = 0 /\ In(sc', t) = 0 /\ Runs(sc', t) = 0
      <3> DEFINE n == sc'.done[t]
                 off == IF sc'.unkTask = t THEN 1 ELSE 0
      <3>1. off \in 0 .. 1
        OBVIOUS
      <3>2. g.w[t] + In(sc', t) + Runs(sc', t) + off + n <= 1
        BY <2>4 DEF Places
      <3>3. n \in Nat \ {0}
        BY <2>2
      <3>4. n = 1 /\ In(sc', t) = 0 /\ Runs(sc', t) = 0
        <4> HIDE DEF n, off
        <4> QED BY <2>1, <3>1, <3>2, <3>3
      <3> QED BY <2>2, <3>4
    <2>6. sc.rdp # t
      <3>1. sc'.curRDP # t
        BY <2>5 DEF Runs
      <3>2. sc'.curRDP \in Tasks \union {NoTask} /\ t # NoTask
        BY <1>1, MidTypes, KindsOfTask
      <3> QED BY <1>1, <3>1, <3>2 DEF Mid, RdpSide
    <2>7. HardwareLeft[t] = {} /\ ClientState[t] = "waiting"
      BY <2>3, <2>5, <2>6, MappedState DEF LeftOf, ClientOf
    <2>8. ClientState' = [ClientState EXCEPT ![t] = "answered"]
      <3>1. \A u \in Tasks : u # t => sc'.done[u] = sc.done[u]
        BY <1>4, <2>1
      <3>2. ClientOf(progress'[t], sc'.done[t]) = "answered"
        BY <1>1, <2>2, <2>3 DEF ClientOf
      <3> QED BY <1>1, <3>1, <3>2, ClientChanges
    <2> QED BY <1>2, <2>7, <2>8 DEF Rcp!Answer
  <1> QED BY <1>1, <1>3, <1>4 DEF Told

\* No other graphics task is half done.
LEMMA OthersWhole ==
  ASSUME NEW s, NEW h, Mid(s, h), NEW t \in Tasks, NEW o \in GfxTasks, o # t,
         (s.curRSP = t /\ t \in GfxTasks) \/ s.curRDP = t
  PROVE  LeftOf(h.prog[o], s.rdp, o) \in {{}, {"SP", "DP"}}
  <1>1. /\ o \in Tasks /\ o # NoTask /\ t # NoTask /\ h \in Envs
        /\ h.prog[o] \in {"idle", "work", "synced", "finished"}
    BY KindsOfTask DEF Mid, Envs
  <1>2. s.curRDP \in {NoTask, t}
    BY DEF Mid, RspSide, Begun
  <1>3. s.rdp # o
    BY <1>1, <1>2 DEF Mid, RdpSide
  <1>4. h.prog[o] # "synced"
    <2> SUFFICES ASSUME h.prog[o] = "synced" PROVE FALSE
      OBVIOUS
    <2>1. s.curRSP = o \/ "YIELDED" \in s.state[o]
      BY <1>1 DEF Mid, ClientSide
    <2>2. Begun(s, h, o) /\ (s.curRSP # o => s.curRSP \notin GfxTasks)
      BY <1>1, <2>1 DEF Mid, RspSide, YieldedSide
    <2>3. s.curRDP = t
      BY <2>2
    <2> QED BY <1>1, <2>2, <2>3 DEF Begun
  <1> QED BY <1>1, <1>3, <1>4 DEF LeftOf

LEMMA SyncStutters == ASSUME Inv, NEW t \in Tasks, RspSync(t) PROVE Stutters
  <1>1. /\ Mid(sc, Env) /\ Env.prog = progress /\ Env \in Envs
        /\ progress \in Progresses /\ sc \in States
    BY EnvTypes DEF Inv, Ok, Typed, TypeOK, Progresses
  <1>2. /\ t \in GfxTasks /\ sc.rsp = t /\ progress[t] = "work" /\ t # NoTask
        /\ progress' = [progress EXCEPT ![t] = "synced"] /\ sc' = [sc EXCEPT !.rdp = t]
    BY KindsOfTask DEF RspSync
  <1>3. sc'.rdp = t /\ sc'.done = sc.done
    BY <1>1, <1>2 DEF States
  <1> DEFINE h == Env
  <1> HIDE DEF h
  <1>4. sc.curRDP = t
    <2>1. sc.curRSP = t /\ h.prog[t] = "work"
      BY <1>1, <1>2 DEF Mid, RspSide, h
    <2> QED BY <1>1, <1>2, <2>1 DEF Mid, RspSide, Begun, h
  <1>5. sc.rdp \in {NoTask, t}
    BY <1>1, <1>4 DEF Mid, RdpSide
  <1>6. /\ progress'[t] = "synced" /\ \A u \in Tasks : u # t => progress'[u] = progress[u]
    BY <1>1, <1>2 DEF Progresses
  <1>7. HardwareLeft' = HardwareLeft
    BY <1>2, <1>3, <1>5, <1>6, LeftStays, KindsOfTask DEF LeftOf
  <1>8. ClientState' = ClientState
    BY <1>2, <1>3, <1>6, ClientStays DEF ClientOf
  <1> QED BY <1>7, <1>8 DEF Stutters

LEMMA FinishEndsPart == ASSUME Inv, NEW t \in Tasks, RspFinish(t) PROVE Rcp!EndPart(t, "SP")
  <1> DEFINE h == Env
  <1>1. /\ Mid(sc, h) /\ h.prog = progress /\ h \in Envs
        /\ progress \in Progresses /\ sc \in States
    BY EnvTypes DEF Inv, Ok, Typed, TypeOK, Progresses
  <1>2. /\ sc.rsp = t /\ t # NoTask
        /\ progress' = [progress EXCEPT ![t] = "finished"]
        /\ \/ /\ t \in AudioTasks \/ progress[t] = "synced"
              /\ sc' = [sc EXCEPT !.rsp = NoTask, !.yielded = FALSE]
           \/ /\ t \in GfxTasks /\ progress[t] = "work"
              /\ sc' = [sc EXCEPT !.rsp = NoTask, !.yielded = FALSE, !.rdp = t]
    BY KindsOfTask DEF RspFinish
  <1> HIDE DEF h
  <1>3. /\ sc.curRSP = t /\ progress[t] \in {"work", "synced"}
        /\ t \in GfxTasks => Begun(sc, h, t)
    BY <1>1, <1>2 DEF Mid, RspSide
  <1>4. /\ progress'[t] = "finished" /\ \A u \in Tasks : u # t => progress'[u] = progress[u]
    BY <1>1, <1>2 DEF Progresses
  <1>5. /\ sc'.done = sc.done
        /\ IF t \in AudioTasks \/ progress[t] = "synced" THEN sc'.rdp = sc.rdp
           ELSE sc'.rdp = t /\ t \in GfxTasks /\ progress[t] = "work"
    <2>1. CASE /\ t \in AudioTasks \/ progress[t] = "synced"
               /\ sc' = [sc EXCEPT !.rsp = NoTask, !.yielded = FALSE]
      BY <1>1, <2>1 DEF States
    <2>2. CASE /\ t \in GfxTasks /\ progress[t] = "work"
               /\ sc' = [sc EXCEPT !.rsp = NoTask, !.yielded = FALSE, !.rdp = t]
      <3>1. t \notin AudioTasks
        BY <2>2, KindsOfTask
      <3> QED BY <1>1, <2>2, <3>1 DEF States
    <2> QED BY <1>2, <2>1, <2>2
  <1>6. ~(t \in AudioTasks \/ progress[t] = "synced") => sc.rdp \in {NoTask, t}
    <2> SUFFICES ASSUME ~(t \in AudioTasks \/ progress[t] = "synced")
                 PROVE  sc.rdp \in {NoTask, t}
      OBVIOUS
    <2>1. sc.curRDP = t
      BY <1>1, <1>3, <1>5 DEF Begun
    <2> QED BY <1>1, <2>1 DEF Mid, RdpSide
  <1>7. \A u \in Tasks : u # t =>
          LeftOf(progress'[u], sc'.rdp, u) = LeftOf(progress[u], sc.rdp, u)
    BY <1>4, <1>5, <1>6, KindsOfTask DEF LeftOf
  <1>8. /\ "SP" \in LeftOf(progress[t], sc.rdp, t)
        /\ LeftOf(progress'[t], sc'.rdp, t) = LeftOf(progress[t], sc.rdp, t) \ {"SP"}
    BY <1>3, <1>4, <1>5, KindsOfTask DEF LeftOf
  <1>9. HardwareLeft' = [HardwareLeft EXCEPT ![t] = @ \ {"SP"}] /\ "SP" \in HardwareLeft[t]
    BY <1>7, <1>8, LeftChanges, MappedState
  <1>10. ClientState' = ClientState
    BY <1>3, <1>4, <1>5, ClientStays DEF ClientOf
  <1>11. ASSUME t \in GfxTasks, NEW o \in GfxTasks \ {t}
         PROVE  HardwareLeft[o] \in {{}, Rcp!Parts(o)}
    <2>1. LeftOf(progress[o], sc.rdp, o) \in {{}, {"SP", "DP"}}
      BY <1>1, <1>3, <1>11, OthersWhole
    <2>2. Rcp!Parts(o) = {"SP", "DP"} /\ o \in Tasks
      BY KindsOfTask DEF Rcp!Parts
    <2> QED BY <2>1, <2>2, MappedState
  <1> QED BY <1>9, <1>10, <1>11 DEF Rcp!EndPart

LEMMA RdpEndsPart ==
  ASSUME Inv, RdpFinish
  PROVE  \E t \in Tasks : Rcp!EndPart(t, "DP")
  <1> DEFINE h == Env
             t == sc.rdp
  <1>1. /\ Mid(sc, h) /\ h.prog = progress /\ h \in Envs
        /\ progress \in Progresses /\ sc \in States
    BY EnvTypes DEF Inv, Ok, Typed, TypeOK, Progresses
  <1>2. t # NoTask /\ sc' = [sc EXCEPT !.rdp = NoTask] /\ progress' = progress
    BY DEF RdpFinish
  <1> HIDE DEF h
  <1>3. t \in Tasks
    BY <1>1, <1>2 DEF States, TaskOrNone
  <1>4. sc'.rdp = NoTask /\ sc'.done = sc.done
    BY <1>1, <1>2 DEF States
  <1>5. sc.curRDP = t /\ t \in GfxTasks /\ progress[t] \notin {"work", "hung"}
    <2>1. sc.curRDP \in Tasks /\ h.dp \in Nat
      BY <1>1, <1>2 DEF States, TaskOrNone, Mid, RdpSide, Envs
    <2>2. /\ sc.rdp = sc.curRDP /\ sc.curRDP \in GfxTasks
          /\ h.dp + 1 = (IF h.prog[sc.curRDP] = "work" THEN 0 ELSE 1)
      BY <1>1, <1>2, <2>1 DEF Mid, RdpSide
    <2>3. progress[t] # "hung"
      BY <1>1, <1>3 DEF Progresses
    <2> QED BY <1>1, <2>1, <2>2, <2>3
  <1>6. \A u \in Tasks : u # t =>
          LeftOf(progress'[u], sc'.rdp, u) = LeftOf(progress[u], sc.rdp, u)
    BY <1>2, <1>4, KindsOfTask DEF LeftOf
  <1>7. /\ "DP" \in LeftOf(progress[t], sc.rdp, t)
        /\ LeftOf(progress'[t], sc'.rdp, t) = LeftOf(progress[t], sc.rdp, t) \ {"DP"}
    BY <1>2, <1>4, <1>5 DEF LeftOf
  <1>8. HardwareLeft' = [HardwareLeft EXCEPT ![t] = @ \ {"DP"}] /\ "DP" \in HardwareLeft[t]
    BY <1>3, <1>6, <1>7, LeftChanges, MappedState
  <1>9. ClientState' = ClientState
    BY <1>2, <1>4, ClientStays
  <1>10. ASSUME NEW o \in GfxTasks \ {t}
         PROVE  HardwareLeft[o] \in {{}, Rcp!Parts(o)}
    <2>1. LeftOf(progress[o], sc.rdp, o) \in {{}, {"SP", "DP"}}
      BY <1>1, <1>3, <1>5, OthersWhole
    <2>2. Rcp!Parts(o) = {"SP", "DP"} /\ o \in Tasks
      BY KindsOfTask DEF Rcp!Parts
    <2> QED BY <2>1, <2>2, MappedState
  <1>11. Rcp!EndPart(t, "DP")
    BY <1>8, <1>9, <1>10 DEF Rcp!EndPart
  <1> QED BY <1>3, <1>11

LEMMA SendSubmits ==
  ASSUME Inv, NEW t \in Tasks, SendTask(t), progress[t] = "idle", sc' = sc
  PROVE  Rcp!Submit(t)
  <1> DEFINE h == Env
  <1>1. /\ Mid(sc, h) /\ h.prog = progress /\ h \in Envs
        /\ progress \in Progresses
    BY EnvTypes DEF Inv, Ok, Typed, TypeOK, Progresses
  <1> HIDE DEF h
  <1>2. progress'[t] = "work" /\ \A u \in Tasks : u # t => progress'[u] = progress[u]
    BY <1>1 DEF SendTask, Progresses
  <1>3. sc.done[t] = 0
    <2>1. /\ In(sc, t) \in Nat /\ h.w[t] \in Nat /\ sc.done[t] \in Nat
          /\ Runs(sc, t) \in 0 .. 1
      BY <1>1, MidTypes
    <2>2. sc.done[t] > 0 => h.prog[t] = "finished"
      BY <1>1 DEF Mid, ClientSide
    <2> QED BY <1>1, <2>1, <2>2
  <1>4. ClientState[t] = "idle" /\ ClientState' = [ClientState EXCEPT ![t] = "waiting"]
    <2>1. ClientOf(progress'[t], sc'.done[t]) = "waiting" /\ ClientOf(progress[t], sc.done[t]) = "idle"
      BY <1>2, <1>3 DEF ClientOf
    <2> QED BY <1>2, <2>1, ClientChanges, MappedState
  <1>5. HardwareLeft' = [HardwareLeft EXCEPT ![t] = Rcp!Parts(t)]
    <2>1. LeftOf(progress'[t], sc'.rdp, t) = Rcp!Parts(t)
      BY <1>2, KindsOfTask DEF LeftOf, Rcp!Parts
    <2> QED BY <1>2, <2>1, LeftChanges
  <1> QED BY <1>4, <1>5 DEF Rcp!Submit

LEMMA TakeReceives ==
  ASSUME Inv, NEW t \in Tasks, TakeDone(t)
  PROVE  Rcp!Receive(t)
  <1> DEFINE h == Env
  <1>1. /\ Mid(sc, h) /\ h.prog = progress /\ h \in Envs
        /\ progress \in Progresses /\ sc \in States
    BY EnvTypes DEF Inv, Ok, Typed, TypeOK, Progresses
  <1>2. /\ sc.done[t] > 0 /\ sc' = [sc EXCEPT !.done[t] = @ - 1]
        /\ progress' = [progress EXCEPT ![t] = "idle"]
    BY DEF TakeDone
  <1> HIDE DEF h
  <1>3. progress[t] = "finished"
    BY <1>1, <1>2 DEF Mid, ClientSide
  <1>4. progress'[t] = "idle" /\ \A u \in Tasks : u # t => progress'[u] = progress[u]
    BY <1>1, <1>2 DEF Progresses
  <1>5. sc'.rdp = sc.rdp /\ \A u \in Tasks : u # t => sc'.done[u] = sc.done[u]
    BY <1>1, <1>2 DEF States
  <1>6. HardwareLeft' = HardwareLeft
    BY <1>3, <1>4, <1>5, LeftStays DEF LeftOf
  <1>7. ClientState[t] = "answered" /\ ClientState' = [ClientState EXCEPT ![t] = "idle"]
    <2>1. ClientOf(progress'[t], sc'.done[t]) = "idle" /\ ClientOf(progress[t], sc.done[t]) = "answered"
      BY <1>2, <1>3, <1>4 DEF ClientOf
    <2> QED BY <1>4, <1>5, <2>1, ClientChanges, MappedState
  <1> QED BY <1>6, <1>7 DEF Rcp!Receive

LEMMA StepRefines ==
  ASSUME Punctual, Inv, [Next]_vars
  PROVE  [Rcp!Next]_(Rcp!rcpVars)
  <1>1. Rcp!AllTasks = Tasks
    BY MappedState
  <1>2. Stutters => UNCHANGED Rcp!rcpVars
    BY DEF Stutters, Rcp!rcpVars
  <1>3. ASSUME sc' = sc, progress' = progress PROVE Stutters
    BY <1>3, LeftStays, ClientStays DEF Stutters
  <1>4. CASE __scMain
    BY <1>1, <1>2, <1>4, MessageHandled, MessageAnswers DEF Rcp!Next
  <1>5. CASE Hardware
    <2>1. ASSUME NEW t \in Tasks, RspSync(t) PROVE Stutters
      BY <2>1, SyncStutters
    <2>2. ASSUME NEW t \in Tasks, RspFinish(t) PROVE Rcp!Next
      BY <1>1, <2>2, FinishEndsPart DEF Rcp!Next
    <2>3. ASSUME RspYield PROVE Stutters
      <3>1. sc \in States /\ sc' = [sc EXCEPT !.rsp = NoTask, !.yielded = TRUE] /\ progress' = progress
        BY <2>3 DEF RspYield, Inv, Typed, TypeOK
      <3>2. sc'.rdp = sc.rdp /\ sc'.done = sc.done
        BY <3>1 DEF States
      <3> QED BY <3>1, <3>2, LeftStays, ClientStays DEF Stutters
    <2>4. ASSUME RdpFinish PROVE Rcp!Next
      BY <1>1, <2>4, RdpEndsPart DEF Rcp!Next
    <2>5. ASSUME VerticalRetrace PROVE Stutters
      BY <1>3, <2>5 DEF VerticalRetrace
    <2>6. ASSUME NEW t \in Tasks, RspHangs(t) PROVE FALSE
      BY <2>6 DEF RspHangs, Punctual
    <2> QED BY <1>2, <1>5, <2>1, <2>2, <2>3, <2>4, <2>5, <2>6 DEF Hardware
  <1>6. CASE Clients
    <2>1. ASSUME NEW t \in AudioTasks, AudioSubmit(t) \/ AudioTaskDone(t) PROVE Rcp!Next
      <3>1. t \in Tasks
        BY KindsOfTask
      <3>2. Rcp!Submit(t) \/ Rcp!Receive(t)
        BY <2>1, <3>1, SendSubmits, TakeReceives DEF AudioSubmit, AudioTaskDone
      <3> QED BY <1>1, <3>1, <3>2 DEF Rcp!Next
    <2>2. ASSUME AudioHurry PROVE Stutters
      BY <1>3, <2>2 DEF AudioHurry
    <2>3. game.k \in DOMAIN Frame /\ Frame[game.k] \in Tasks
      BY NextStepTypes, FrameTypes DEF Inv
    <2>4. ASSUME GameSubmit PROVE Rcp!Next
      <3>1. progress[Frame[game.k]] = "idle"
        BY <2>3, <2>4, FrameTypes DEF Inv, GameSide, GameSubmit
      <3>2. Rcp!Submit(Frame[game.k])
        BY <2>3, <2>4, <3>1, SendSubmits DEF GameSubmit
      <3> QED BY <1>1, <2>3, <3>2 DEF Rcp!Next
    <2>5. ASSUME rcpWaitDP PROVE Rcp!Next
      <3>1. Rcp!Receive(Frame[game.k])
        BY <2>3, <2>5, TakeReceives DEF rcpWaitDP
      <3> QED BY <1>1, <2>3, <3>1 DEF Rcp!Next
    <2> QED BY <1>2, <1>6, <2>1, <2>2, <2>4, <2>5 DEF Clients
  <1>7. CASE UNCHANGED vars
    BY <1>2, <1>3, <1>7 DEF vars
  <1> QED BY <1>4, <1>5, <1>6, <1>7 DEF Next, Stopped

\* A client is told only when the hardware has finished with its task, and
\* once; two graphics tasks are never under way together.
THEOREM SchedRefinesRcp == ASSUME Punctual PROVE Spec => RcpSpec
  <1>1. Init => Rcp!Init
    <2> SUFFICES ASSUME Init PROVE Rcp!Init
      OBVIOUS
    <2>1. \A t \in Tasks : /\ LeftOf(progress[t], sc.rdp, t) = {}
                           /\ ClientOf(progress[t], sc.done[t]) = "idle"
      BY KindsOfTask DEF Init, LeftOf, ClientOf
    <2> QED BY <2>1, MappedState DEF Rcp!Init
  <1>2. Inv /\ [Next]_vars => [Rcp!Next]_(Rcp!rcpVars)
    BY StepRefines
  <1> QED BY <1>1, <1>2, SchedInvariant, PTL DEF Spec, RcpSpec, Rcp!Spec

=============================================================================
