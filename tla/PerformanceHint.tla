--------------------------- MODULE PerformanceHint ---------------------------
(***************************************************************************)
(* The performance hints of a stream of AAudio: a callback opens a session *)
(* of ADPF when the app has enabled hints, reports how long it took, and   *)
(* closes the session when the app has disabled them; starting and closing *)
(* the stream close it too, on the app's thread.  AdpfWrapper has a lock,  *)
(* and isOpen and mAdpfOpenAttempted are used without it.  A callback may  *)
(* come at any time, in the middle of a close and after it.                *)
(***************************************************************************)
EXTENDS Naturals

CONSTANT MaxClosings \* the bound on starts and closes

VARIABLES enabled, attempted, \* mPerformanceHintEnabled, mAdpfOpenAttempted
          session,            \* mHintSession: 0 for none, 1 for one that is open
          lost,               \* sessions the service has open besides
          cb,                 \* where the callback is
          app,                \* where the app's thread is
          closings            \* how often the app has closed hints

vars == <<enabled, attempted, session, lost, cb, app, closings>>

Init ==
  /\ enabled \in BOOLEAN /\ attempted = FALSE
  /\ session = 0 /\ lost = 0 /\ closings = 0
  /\ cb = "none" /\ app = "idle"

(* AdpfWrapper::open, under its lock, which may get no session: what       *)
(* mHintSession was, it forgets.                                           *)
OpenSession == session' \in {0, 1} /\ lost' = lost + session

(* Variant of CloseSession: the pointer is cleared, and no more. *)
ForgetSession == session' = 0 /\ lost' = lost + session

(* AdpfWrapper::close, under its lock.                                     *)
CloseSession == session' = 0 /\ UNCHANGED lost

-----------------------------------------------------------------------------
(* beginPerformanceHintInCallback                                          *)
BeginCallback ==
  /\ cb = "none"
  /\ cb' = IF enabled THEN IF attempted THEN "app" ELSE "open"
           ELSE IF attempted THEN "close" ELSE "app"
  /\ UNCHANGED <<enabled, attempted, session, lost, app, closings>>

CallbackOpens ==
  /\ cb = "open" /\ cb' = "opened"
  /\ OpenSession
  /\ UNCHANGED <<enabled, attempted, app, closings>>

CallbackCloses ==
  /\ cb = "close" /\ cb' = "closed"
  /\ CloseSession
  /\ UNCHANGED <<enabled, attempted, app, closings>>

SetAttempted ==
  /\ cb \in {"opened", "closed"} /\ cb' = "app"
  /\ attempted' = (cb = "opened")
  /\ UNCHANGED <<enabled, session, lost, app, closings>>

(* onEndCallback, or reportWorkload by the app's callback: isOpen is asked *)
(* without the lock.                                                       *)
AskIsOpen ==
  /\ cb = "app"
  /\ cb' \in (IF session # 0 THEN {"report", "none"} ELSE {"none"})
  /\ UNCHANGED <<enabled, attempted, session, lost, app, closings>>

(* reportActualDuration, under the lock, asks again whether there is a     *)
(* session; after a workload, the app goes on.                             *)
ReportDuration ==
  /\ cb = "report" /\ cb' \in {"app", "none"}
  /\ UNCHANGED <<enabled, attempted, session, lost, app, closings>>

Callback == BeginCallback \/ CallbackOpens \/ CallbackCloses \/ SetAttempted \/ AskIsOpen \/ ReportDuration

-----------------------------------------------------------------------------
(* The app's threads: setPerformanceHintEnabled; and requestStart or       *)
(* close, which hold mLock and call closePerformanceHint.                  *)
SetEnabled ==
  /\ enabled' = ~enabled
  /\ UNCHANGED <<attempted, session, lost, cb, app, closings>>

ClosePerformanceHint ==
  /\ app = "idle" /\ closings < MaxClosings
  /\ app' = "closing" /\ closings' = closings + 1
  /\ CloseSession
  /\ UNCHANGED <<enabled, attempted, cb>>

ClearAttempted ==
  /\ app = "closing" /\ app' = "idle"
  /\ attempted' = FALSE
  /\ UNCHANGED <<enabled, session, lost, cb, closings>>

Next == Callback \/ SetEnabled \/ ClosePerformanceHint \/ ClearAttempted
Spec == Init /\ [][Next]_vars

-----------------------------------------------------------------------------
(* Property.                                                               *)

(* A start or close that comes between a callback's look at its flag and   *)
(* the flag's change, or just before such a look, leaves a session open,   *)
(* and none does so twice: the service never has more sessions open for a  *)
(* stream than one, and one for each of its starts and closes, however     *)
(* often hints are enabled and disabled.                                   *)
SessionsBounded == lost + session =< closings + 1
=============================================================================
