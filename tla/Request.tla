------------------------------- MODULE Request -------------------------------
(***************************************************************************)
(* What execute promises for a request, whatever happens at the nodes: it  *)
(* is tried at most MaxAttempts times, one call at a time; an answer that   *)
(* settles it, for or against, is the last one asked for and decides how    *)
(* the execution ends; and without such an answer the execution gives up    *)
(* only when every attempt has been used, or something in it throws.        *)
(***************************************************************************)
EXTENDS Naturals

CONSTANTS Requests, MaxAttempts

VARIABLES phase,    \* "idle", "ready", "waiting" for an answer, "ended"
          tries,    \* attempts used up so far
          verdict,  \* what the last answer said
          result    \* how the execution ended

promiseVars == <<phase, tries, verdict, result>>

Settled(r) == verdict[r] \in {"accepted", "rejected"}

PromiseInit ==
    /\ phase = [r \in Requests |-> "idle"]
    /\ tries = [r \in Requests |-> 0]
    /\ verdict = [r \in Requests |-> "none"]
    /\ result = [r \in Requests |-> "none"]

Move(r, from, to) == phase[r] = from /\ phase' = [phase EXCEPT ![r] = to]

Begin(r) == Move(r, "idle", "ready") /\ UNCHANGED <<tries, verdict, result>>

UseAttempt(r) ==
    /\ ~Settled(r)
    /\ tries[r] < MaxAttempts
    /\ tries' = [tries EXCEPT ![r] = @ + 1]

(* An attempt that never reached a node.                                   *)
Miss(r) == Move(r, "ready", "ready") /\ UseAttempt(r) /\ UNCHANGED <<verdict, result>>

Call(r) == Move(r, "ready", "waiting") /\ UseAttempt(r) /\ UNCHANGED <<verdict, result>>

Answer(r) ==
    /\ Move(r, "waiting", "ready")
    /\ \E v \in {"accepted", "rejected", "again"} : verdict' = [verdict EXCEPT ![r] = v]
    /\ UNCHANGED <<tries, result>>

(* A request that cannot be made.                                          *)
Refuse(r) ==
    /\ Move(r, "idle", "ended")
    /\ result' = [result EXCEPT ![r] = "RequestThrew"]
    /\ UNCHANGED <<tries, verdict>>

(* How an execution may end, given its last answer.  One that was accepted *)
(* may turn out to be unreadable, and so may one that did not settle it.   *)
Ending(r, res) ==
    \/ res = "success" /\ verdict[r] = "accepted"
    \/ res = "PrecheckStatus" /\ verdict[r] = "rejected"
    \/ res = "ResponseThrew" /\ verdict[r] \in {"accepted", "again"}
    \/ res = "MaxAttemptsExceeded" /\ ~Settled(r) /\ tries[r] = MaxAttempts
    \/ res \in {"RequestThrew", "crash"} /\ ~Settled(r)

Finish(r) ==
    /\ Move(r, "ready", "ended")
    /\ \E res \in {"success", "PrecheckStatus", "MaxAttemptsExceeded", "RequestThrew",
                   "ResponseThrew", "crash"} :
          /\ Ending(r, res)
          /\ result' = [result EXCEPT ![r] = res]
    /\ UNCHANGED <<tries, verdict>>

PromiseNext == \E r \in Requests :
    Begin(r) \/ Refuse(r) \/ Miss(r) \/ Call(r) \/ Answer(r) \/ Finish(r)

PromiseSpec == PromiseInit /\ [][PromiseNext]_promiseVars

==============================================================================
