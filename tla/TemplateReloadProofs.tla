------------------------ MODULE TemplateReloadProofs ------------------------
(***************************************************************************)
(* The fail-safe reload, for any number of overlapping reloads and any     *)
(* number of changes of the directory.                                     *)
(***************************************************************************)
EXTENDS TemplateReload, TLAPS

\* What a reload is about to swap in can be loaded, as the active templates
\* can; the watcher runs only when NewEngine has loaded some.
TInv ==
    /\ load \in [Loader -> {"idle", "parse", "swap"}]
    /\ parsed \in [Loader -> 0 .. NoTemplates]
    /\ \A l \in Loader : load[l] = "swap" => parsed[l] \in good
    /\ disk \in 0 .. MaxEdits
    /\ good \subseteq 0 .. MaxEdits
    /\ ActiveIsUsable

\* No reload has begun when the process starts.
LEMMA InitTInv == Init => TInv
BY TemplateAssumption DEF Init, TInv, ActiveIsUsable, NoTemplates

\* A version that could be loaded stays one: no step takes it out of good, and
\* a reload takes only such a version on from Parse to Swap.
LEMMA StepTInv == TInv /\ [Next]_vars => TInv'
  <1> SUFFICES ASSUME TInv, [Next]_vars PROVE TInv'
    OBVIOUS
  <1> USE TemplateAssumption DEF TInv, ActiveIsUsable, NoTemplates
  <1>1. ASSUME NEW kind \in Kind, Edit(kind) PROVE TInv'
    BY <1>1 DEF Edit
  <1>2. CASE NewEngine
    BY <1>2 DEF NewEngine
  <1>3. CASE WatchBegins
    BY <1>3 DEF WatchBegins
  <1>4. ASSUME NEW kind \in Kind, WatchEvent(kind) PROVE TInv'
    BY <1>4 DEF WatchEvent
  <1>5. CASE WatchStops
    BY <1>5 DEF WatchStops
  <1>6. ASSUME NEW l \in Loader, TimerFires(l) PROVE TInv'
    BY <1>6 DEF TimerFires
  <1>7. ASSUME NEW l \in Loader, Parse(l) PROVE TInv'
    BY <1>7 DEF Parse
  <1>8. ASSUME NEW l \in Loader, Swap(l) PROVE TInv'
    BY <1>8 DEF Swap
  <1>9. CASE UNCHANGED vars
    BY <1>9 DEF vars
  <1> QED
    BY <1>1, <1>2, <1>3, <1>4, <1>5, <1>6, <1>7, <1>8, <1>9 DEF Next

\* However reloads overlap and whatever is on disk, Render uses templates that
\* could be loaded (engine.go:72).
THEOREM ReloadIsFailSafe == Spec => []ActiveIsUsable
  <1>1. TInv => ActiveIsUsable
    BY DEF TInv
  <1> QED BY <1>1, InitTInv, StepTInv, PTL DEF Spec
=============================================================================
