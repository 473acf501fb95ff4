----------------------------- MODULE LlmGateway -----------------------------
(***************************************************************************)
(* One pod's LLMClient: the agent loops of its runs share one semaphore    *)
(* (RateLimitDecorator) around every LLM call.  A tool that is itself      *)
(* answered by an LLM (LLMSimulator.run) is executed synchronously on the  *)
(* event loop: call_sync hands the call to a second loop in a thread of    *)
(* its own and blocks the first one until the answer is there.             *)
(*                                                                         *)
(* A Task is the coroutine of one run, or of one request, on the main      *)
(* loop.  While `blocked` names a task, or a task is between two awaits    *)
(* with a tool to run, no other step of the main loop can be taken.        *)
(*                                                                         *)
(* asyncio.Semaphore (Python 3.11) is external.  It belongs to no loop     *)
(* until a caller has to wait; it then belongs to that caller's loop, and  *)
(* a caller of the other loop that has to wait gets a RuntimeError.        *)
(***************************************************************************)
EXTENDS Naturals, FiniteSets, SequencesExt

CONSTANTS
  Task,            \* agent loops on the main loop
  Background,      \* the one caller on the loop of call_sync
  MaxConcurrency,  \* Settings.LLM_MAX_CONCURRENCY
  LlmTools         \* some tool has engine llm, or hybrid with an llm fallback

ASSUME GatewayAssumption ==
  /\ Background \notin Task
  /\ IsFiniteSet(Task)
  /\ MaxConcurrency \in Nat \ {0}
  /\ LlmTools \in BOOLEAN

VARIABLES
  pc,       \* pc[c]: what the caller does
  blocked,  \* the task whose tool blocks the main loop, or Background for none
  coerced,  \* the background call is the repair of an invalid answer
  value,    \* Semaphore._value
  waiters,  \* Semaphore._waiters
  bound,    \* the loop the semaphore belongs to
  refused   \* history: a call was refused instead of waiting

vars == <<pc, blocked, coerced, value, waiters, bound, refused>>

Caller == Task \cup {Background}
Place  == {"idle", "acquire", "waiting", "woken", "calling", "tool"}
Loop   == {"none", "main", "background"}

LoopOf(c) == IF c = Background THEN "background" ELSE "main"
Runs(c)   == c = Background \/ /\ blocked = Background
                               /\ \A t \in Task \ {c} : pc[t] # "tool"

Init ==
  /\ pc = [c \in Caller |-> "idle"]
  /\ blocked = Background
  /\ coerced = FALSE
  /\ value = MaxConcurrency
  /\ waiters = <<>>
  /\ bound = "none"
  /\ refused = FALSE

Move(c, here, there) == pc[c] = here /\ pc' = [pc EXCEPT ![c] = there]

-----------------------------------------------------------------------------
(* The semaphore                                                           *)

Locked == value = 0 \/ waiters # <<>>

\* _wake_up_next: hand a permit to the first waiter that has none yet; q and
\* v are the waiters and the value, p the places it finds.
Wake(q, v, p) ==
  LET first == SelectInSeq(q, LAMBDA c : p[c] = "waiting")
  IN IF first = 0
     THEN value' = v /\ pc' = p
     ELSE value' = v - 1 /\ pc' = [p EXCEPT ![q[first]] = "woken"]

\* release: the caller goes on to `there`.
Leave(c, there) == Wake(waiters, value + 1, [pc EXCEPT ![c] = there])

\* The agent loop has a request for the LLM.
Request(c) ==
  /\ c \in Task
  /\ Runs(c)
  /\ Move(c, "idle", "acquire")
  /\ UNCHANGED <<blocked, coerced, value, waiters, bound, refused>>

Acquire(c) ==
  /\ Runs(c)
  /\ ~Locked
  /\ Move(c, "acquire", "calling")
  /\ value' = value - 1
  /\ UNCHANGED <<blocked, coerced, waiters, bound, refused>>

Wait(c) ==
  /\ Runs(c)
  /\ Locked
  /\ bound \in {"none", LoopOf(c)}
  /\ Move(c, "acquire", "waiting")
  /\ bound' = LoopOf(c)
  /\ waiters' = Append(waiters, c)
  /\ UNCHANGED <<blocked, coerced, value, refused>>

\* The RuntimeError ends the call: for a tool, as an error the agent reads.
Refuse(c) ==
  /\ Runs(c)
  /\ Locked
  /\ bound \notin {"none", LoopOf(c)}
  /\ Move(c, "acquire", "idle")
  /\ refused' = TRUE
  /\ blocked' = IF c = Background THEN Background ELSE blocked
  /\ coerced' = IF c = Background THEN FALSE ELSE coerced
  /\ UNCHANGED <<value, waiters, bound>>

\* The waiter runs again: it leaves the queue, and passes on a permit that
\* was released meanwhile.
Resume(c) ==
  /\ Runs(c)
  /\ pc[c] = "woken"
  /\ waiters' = RemoveFirst(waiters, c)
  /\ LET p == [pc EXCEPT ![c] = "calling"]
     IN IF value > 0 THEN Wake(waiters', value, p) ELSE value' = value /\ pc' = p
  /\ UNCHANGED <<blocked, coerced, bound, refused>>

-----------------------------------------------------------------------------
(* The calls                                                               *)

\* The provider answers, fails for good, or is timed out: TimeoutDecorator is
\* inside the semaphore.  The agent loop goes on with a tool, or ends.
\* Slip: the permit is given back by a call that succeeded only.
SlipAnswered(t) ==
  /\ t \in Task
  /\ Runs(t)
  /\ pc[t] = "calling"
  /\ \/ Leave(t, IF LlmTools THEN "tool" ELSE "idle")
     \/ pc' = [pc EXCEPT ![t] = "idle"] /\ value' = value
  /\ UNCHANGED <<blocked, coerced, waiters, bound, refused>>

Answered(t) ==
  /\ t \in Task
  /\ Runs(t)
  /\ pc[t] = "calling"
  /\ \/ Leave(t, "idle")
     \/ LlmTools /\ Leave(t, "tool")
  /\ UNCHANGED <<blocked, coerced, waiters, bound, refused>>

\* LLMSimulator.run, in call_sync: the coroutine is handed over and the main
\* loop blocks in fut.result(); the task then goes on to `there`.
CallSync(t, there) ==
  /\ t \in Task
  /\ Runs(t)
  /\ blocked' = t
  /\ pc' = [pc EXCEPT ![t] = there, ![Background] = "acquire"]
  /\ UNCHANGED <<coerced, value, waiters, bound, refused>>

\* One tool of the answer; the answer may ask for more.
Simulate(t) ==
  /\ pc[t] = "tool"
  /\ \E there \in {"tool", "idle"} : CallSync(t, there)

\* POST simulate: the tool without an agent.
Preview(t) ==
  /\ LlmTools
  /\ pc[t] = "idle"
  /\ CallSync(t, "idle")

\* The background call is answered.  coerce_json_output asks once more when
\* the answer does not fit the schema; else fut.result() returns.
BackgroundAnswered ==
  /\ pc[Background] = "calling"
  /\ \/ /\ ~coerced
        /\ coerced' = TRUE
        /\ Leave(Background, "acquire")
        /\ UNCHANGED blocked
     \/ /\ coerced' = FALSE
        /\ Leave(Background, "idle")
        /\ blocked' = Background
  /\ UNCHANGED <<waiters, bound, refused>>

\* A stop or the global timeout cancels the run.  A waiter that had its
\* permit gives it back, as `async with` does for a call under way.
\* Slip: the permit of a woken waiter is lost.
SlipCancel(t) ==
  /\ t \in Task
  /\ Runs(t)
  /\ waiters' = RemoveFirst(waiters, t)
  /\ \/ pc[t] \in {"acquire", "waiting", "woken"} /\ pc' = [pc EXCEPT ![t] = "idle"] /\ value' = value
     \/ pc[t] = "calling" /\ Wake(waiters', value + 1, [pc EXCEPT ![t] = "idle"])
  /\ UNCHANGED <<blocked, coerced, bound, refused>>

Cancel(t) ==
  /\ t \in Task
  /\ Runs(t)
  /\ waiters' = RemoveFirst(waiters, t)
  /\ \/ /\ pc[t] \in {"acquire", "waiting"}
        /\ pc' = [pc EXCEPT ![t] = "idle"]
        /\ value' = value
     \/ /\ pc[t] \in {"woken", "calling"}
        /\ Wake(waiters', value + 1, [pc EXCEPT ![t] = "idle"])
  /\ UNCHANGED <<blocked, coerced, bound, refused>>

-----------------------------------------------------------------------------
Step(c) == Acquire(c) \/ Wait(c) \/ Refuse(c) \/ Resume(c)

Next ==
  \/ \E c \in Caller : Step(c)
  \/ \E t \in Task : Request(t) \/ Answered(t) \/ Simulate(t) \/ Preview(t) \/ Cancel(t)
  \/ BackgroundAnswered

Spec == Init /\ [][Next]_vars

(***************************************************************************)
(* Fairness.  Loops run what is ready, and every call ends: it is under    *)
(* wait_for.  No run is obliged to ask, and none is cancelled for sure.    *)
(***************************************************************************)
FairSpec ==
  /\ Spec
  /\ \A c \in Caller : WF_vars(Step(c))
  /\ \A t \in Task : WF_vars(Answered(t)) /\ WF_vars(Simulate(t))
  /\ WF_vars(BackgroundAnswered)

-----------------------------------------------------------------------------
(* Properties                                                              *)

\* The variables have their types.
TypeOK ==
  /\ pc \in [Caller -> Place]
  /\ blocked \in Caller
  /\ coerced \in BOOLEAN
  /\ value \in 0..MaxConcurrency
  /\ waiters \in Seq(Caller)
  /\ bound \in Loop
  /\ refused \in BOOLEAN

Holding == { c \in Caller : pc[c] \in {"woken", "calling"} }

\* No permit is lost or made up, however calls end and whoever is cancelled:
\* so never more than MaxConcurrency calls are under way.
PermitsAccounted == value + Cardinality(Holding) = MaxConcurrency

\* Nobody sleeps while a permit lies idle, unless a waiter who has been woken
\* is about to pass it on; and the queue holds exactly those who wait, each
\* once, so that no cancelled call is ever handed a permit.
NoLostWakeup ==
  /\ (\E c \in Caller : pc[c] = "waiting")
       => value = 0 \/ \E c \in Caller : pc[c] = "woken"
  /\ ToSet(waiters) = { c \in Caller : pc[c] \in {"waiting", "woken"} }
  /\ IsInjective(waiters)

\* Permits and waiters stay consistent, whoever is cancelled where: no permit is
\* lost, and nobody sleeps beside one.  (Semaphore.acquire and release.)
PermitsSafe == TypeOK /\ PermitsAccounted /\ NoLostWakeup

\* A call that has to wait for a permit is served or cancelled in the end,
\* unless a tool comes to block the main loop.  (Under FairSpec.)
WaitingEnds ==
  \A t \in Task : pc[t] = "waiting" ~> pc[t] # "waiting" \/ blocked # Background

(* What the repository says of the program and the program does not do.    *)

\* A call above the limit waits (llm/decorators/rate_limit.py:9): then the
\* limit never stops anyone for good.
BlockedLoopReturns == \A t \in Task : blocked = t ~> blocked # t

\* A call above the limit waits (llm/decorators/rate_limit.py:9) and is not
\* refused.
NeverRefused == ~refused

=============================================================================
