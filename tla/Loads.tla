-------------------------------- MODULE Loads --------------------------------
(***************************************************************************)
(* The ways to compute a missing value once: CtxCache, the function of     *)
(* CacheWrapper, and those of LoadOnce.  They share nothing, so one of     *)
(* them is used, and the others stay as they begin.                        *)
(***************************************************************************)
EXTENDS Naturals, FiniteSets

CONSTANTS
  Procs, MaxCalls, LoadsFail, Panics, Removals,              \* CtxCache
  Users, UseLock, LockTimeouts, LeaseLost, AsyncUpdates, Refreshes, Penetration, RedisFails,
    MaxVersion, MaxUses,                                     \* CacheWrapper
  Instance, MaxLoads, MaxMishaps                             \* LoadOnce

VARIABLES kind,
          cached, flight, call, ctxDone, calls, panicked,
          row, cache, holder, wcall, updates, delayed, wlapsed, wcalls,
          flavour, useLock, lcached, loadGroup, lock, token, shared, lapsed, lcall, lcalls, mishaps

C == INSTANCE CtxCache
W == INSTANCE CacheWrapper WITH Procs <- Users, MaxCalls <- MaxUses,
       call <- wcall, lapsed <- wlapsed, calls <- wcalls
L == INSTANCE LoadOnce WITH MaxCalls <- MaxLoads,
       cached <- lcached, call <- lcall, calls <- lcalls

cvars == <<cached, flight, call, ctxDone, calls, panicked>>
wvars == <<row, cache, holder, wcall, updates, delayed, wlapsed, wcalls>>
lvars == <<flavour, useLock, lcached, loadGroup, lock, token, shared, lapsed, lcall, lcalls, mishaps>>
vars == <<kind, cvars, wvars, lvars>>

Init ==
  /\ kind \in {"ctxcache", "wrapper", "other"}
  /\ C!Init /\ W!Init /\ L!Init /\ (kind # "other" => flavour = "local")

CtxCache(step) == kind = "ctxcache" /\ step /\ UNCHANGED <<kind, wvars, lvars>>
Wrapper(step) == kind = "wrapper" /\ step /\ UNCHANGED <<kind, cvars, lvars>>
Other(step) == kind = "other" /\ step /\ UNCHANGED <<kind, cvars, wvars>>

Next == CtxCache(C!Next) \/ Wrapper(W!Next) \/ Other(L!Next)
Spec == Init /\ [][Next]_vars

(* The fairness of the three. *)
FairSpec ==
  /\ Spec
  /\ \A p \in Procs : /\ WF_vars(CtxCache(C!Step(p))) /\ WF_vars(CtxCache(C!CtxEnds(p)))
                      /\ WF_vars(Other(L!Step(p)))
  /\ WF_vars(Other(L!ExpireLeft))
  /\ \A p \in Users : WF_vars(Wrapper(W!Step(p)))
  /\ WF_vars(Wrapper(W!Background)) /\ WF_vars(Wrapper(W!ExpireGone))

-----------------------------------------------------------------------------
(* The properties of the three: see CtxCache, CacheWrapper and LoadOnce. *)
OneLoader == C!OneLoader /\ W!OneLoad /\ L!OneLoader
LockGivenBack == W!LockGivenBack /\ L!LockGivenBack
CallsReturn == C!CallsReturn /\ W!CallsReturn /\ L!CallsReturn

(* The safety part of LockGivenBack, for proofs. *)
NoLockLeft ==
  /\ \A p \in Users : ~W!LeftBehind(p)
  /\ \A p \in Procs : ~L!LeftBehind(p)
=============================================================================
