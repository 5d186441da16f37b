------------------------------ MODULE ViManager ------------------------------
(***************************************************************************)
(* The video interface's two contexts (libultra's vi*.c) and the VI        *)
(* manager's thread.  The functions change the next context with           *)
(* interrupts masked; at a retrace the manager writes it to the registers, *)
(* exchanges the two and copies what is shown into the new next one.  It   *)
(* then tells whoever asked for every so many retraces.                    *)
(*                                                                         *)
(* Scales, the control word, fades and the time of day are left out.       *)
(***************************************************************************)
EXTENDS Naturals

CONSTANTS
  Buffers,      \* framebuffers, the one of the reset included
  NoBuffer,     \* the framep of a cleared context
  Modes,        \* OSViModes
  Clients,      \* queues that may be told of retraces
  NoClient,     \* no queue yet
  MaxRetraces,  \* largest retraceCount asked for
  MaxPending    \* retraces not yet handled (bound; viEventQueue holds 5)

ASSUME ViAssumption ==
  /\ NoBuffer \notin Buffers /\ NoClient \notin Clients
  /\ MaxRetraces \in Nat \ {0} /\ MaxPending \in 1..5

VARIABLES
  vi,          \* the two contexts
  next,        \* the one __osViNext points to
  registers,   \* what the VI shows
  viEvents,    \* retraces the manager has still to handle
  retrace,     \* the manager's count down to the next message
  wanted,      \* what the program asked for last (history)
  misled       \* another client was told than the one asked for (history)

viVars == <<vi, next, registers, viEvents, retrace, wanted, misled>>

__osViNext == vi[next]
__osViCurr == vi[3 - next]

Contexts ==
  [framep : Buffers \cup {NoBuffer}, modep : Modes, black : BOOLEAN,
   msgq : Clients \cup {NoClient}, retraceCount : 1..MaxRetraces]

-----------------------------------------------------------------------------
(* The program's side, with interrupts masked.                             *)

Change(set(_)) ==
  /\ vi' = [vi EXCEPT ![next] = set(__osViNext)]
  /\ wanted' = set(wanted)
  /\ UNCHANGED <<next, registers, viEvents, retrace, misled>>

osViSwapBuffer(f) == Change(LAMBDA c : [c EXCEPT !.framep = f])

\* The state word is overwritten: a black screen is forgotten.
osViSetMode(m) == Change(LAMBDA c : [c EXCEPT !.modep = m, !.black = FALSE])

osViBlack(b) == Change(LAMBDA c : [c EXCEPT !.black = b])

osViSetEvent(q, n) == Change(LAMBDA c : [c EXCEPT !.msgq = q, !.retraceCount = n])

-----------------------------------------------------------------------------
(* The retrace.                                                            *)

Interrupt ==
  /\ viEvents < MaxPending
  /\ viEvents' = viEvents + 1
  /\ UNCHANGED <<vi, next, registers, retrace, wanted, misled>>

\* Mutant: what is shown is not copied into the next context.
SwapOnly ==
  /\ registers' = __osViNext
  /\ next' = 3 - next
  /\ vi' = vi

__osViSwapContext ==
  /\ registers' = __osViNext
  /\ next' = 3 - next
  /\ vi' = [vi EXCEPT ![next'] = __osViNext]

\* Mutant: the count is not started again.
CountOnce ==
  /\ viEvents > 0 /\ viEvents' = viEvents - 1
  /\ __osViSwapContext
  /\ retrace' = retrace - 1
  /\ UNCHANGED <<misled, wanted>>

\* The message goes to the client of the context just shown.
viMgrMain ==
  LET vc == __osViNext
  IN  /\ viEvents > 0 /\ viEvents' = viEvents - 1
      /\ __osViSwapContext
      /\ IF retrace > 1
         THEN retrace' = retrace - 1 /\ misled' = misled
         ELSE /\ retrace' = vc.retraceCount
              /\ misled' = (misled \/ vc.msgq # wanted.msgq)
      /\ wanted' = wanted

-----------------------------------------------------------------------------
\* __osViInit clears both, blackens the next and shows it.
ViInit ==
  \E m \in Modes :
    LET first == [framep |-> NoBuffer, modep |-> m, black |-> TRUE,
                  msgq |-> NoClient, retraceCount |-> 1]
    IN  /\ vi = [i \in {1, 2} |-> first] /\ next = 1
        /\ registers = first /\ wanted = first
        /\ viEvents = 0 /\ retrace = 1 /\ misled = FALSE

ViNext ==
  \/ \E f \in Buffers : osViSwapBuffer(f)
  \/ \E m \in Modes : osViSetMode(m)
  \/ \E b \in BOOLEAN : osViBlack(b)
  \/ \E q \in Clients, n \in 1..MaxRetraces : osViSetEvent(q, n)
  \/ Interrupt \/ viMgrMain

-----------------------------------------------------------------------------
ViTypeOK ==
  /\ vi \in [{1, 2} -> Contexts] /\ next \in {1, 2}
  /\ {registers, wanted} \subseteq Contexts
  /\ viEvents \in 0..MaxPending /\ retrace \in 1..MaxRetraces
  /\ misled \in BOOLEAN

\* viswapcontext.c:72 and sched.c:667: through every exchange of the contexts the
\* next one is what was asked for last and the current one what is shown, so that
\* the scheduler's comparison of their framebuffers tells whether a swap is
\* pending; no retrace is told to a client whose event was taken over.
ContextsAgree ==
  /\ __osViNext = wanted /\ __osViCurr = registers
  /\ ~misled
=============================================================================
