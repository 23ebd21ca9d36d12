--------------------------- MODULE TemplateReload ---------------------------
(***************************************************************************)
(* internal/template: the template engine and the watcher that reloads it  *)
(* when the template directory changes.                                    *)
(*                                                                         *)
(* The directory is abstracted to the number of times it was changed and   *)
(* to whether what it holds now can be loaded.  A reload runs in the       *)
(* goroutine of the timer that fired: timer.Stop does not stop a reload    *)
(* that has begun, so reloads may overlap.                                 *)
(***************************************************************************)
EXTENDS Naturals

CONSTANTS Loader,     \* goroutines in which reloads run: how many may overlap
          MaxEdits    \* bound of the model: changes of the directory

ASSUME TemplateAssumption == MaxEdits \in Nat

VARIABLES
    disk,      \* the version of the directory's content
    good,      \* the versions that can be loaded
    tmpl,      \* e.tmpl, as the version it was parsed from; none before
    watcher,   \* where Watch is
    event,     \* the kinds of change fsnotify has events of for the watcher
    unseen,    \* auxiliary: no event makes the watcher load the last change
    timer,     \* the debounce timer is running
    load,      \* where each reload is
    parsed     \* what it has parsed

vars == <<disk, good, tmpl, watcher, event, unseen, timer, load, parsed>>

NoTemplates == MaxEdits + 1

\* fsnotify.Op, by whether Watch looks for it.
Kind == {"write", "rename"}

\* The directory as it is when the process starts: loadable or not.
Init ==
    /\ disk = 0
    /\ good \in SUBSET {0}
    /\ tmpl = NoTemplates
    /\ watcher = "none"
    /\ event = {}
    /\ unseen = FALSE
    /\ timer = FALSE
    /\ load = [l \in Loader |-> "idle"]
    /\ parsed = [l \in Loader |-> NoTemplates]

\* Somebody writes, creates or removes a file ("write"), or moves one out of the
\* directory ("rename").  fsnotify reports it once the directory has been added.
Edit(kind) ==
    /\ disk < MaxEdits
    /\ disk' = disk + 1
    /\ good' \in {good, good \cup {disk + 1}}
    /\ event' = IF watcher = "watching" THEN event \cup {kind} ELSE event
    /\ unseen' = (watcher # "none" /\ (watcher # "watching" \/ kind = "rename"))
    /\ UNCHANGED <<tmpl, watcher, timer, load, parsed>>

\* NewEngine: an unusable directory is an error that ends run().
NewEngine ==
    /\ watcher = "none"
    /\ \/ disk \in good /\ tmpl' = disk /\ watcher' = "starting"
       \/ disk \notin good /\ watcher' = "stopped" /\ UNCHANGED tmpl
    /\ UNCHANGED <<disk, good, event, unseen, timer, load, parsed>>

\* The goroutine of Watch gets to watcher.Add, which may fail.
WatchBegins ==
    /\ watcher = "starting"
    /\ watcher' \in {"watching", "stopped"}
    /\ UNCHANGED <<disk, good, tmpl, event, unseen, timer, load, parsed>>

\* Seeded fault: an event that comes while a reload runs is dropped.
WatchEvent_NoReset(kind) ==
    /\ watcher = "watching"
    /\ kind \in event
    /\ event' = event \ {kind}
    /\ timer' = (timer \/ (kind = "write" /\ \A l \in Loader : load[l] = "idle"))
    /\ UNCHANGED <<disk, good, tmpl, watcher, unseen, load, parsed>>

\* An event stops the timer, if there is one, and starts a new one; a rename
\* is none of the kinds that are looked for.
WatchEvent(kind) ==
    /\ watcher = "watching"
    /\ kind \in event
    /\ event' = event \ {kind}
    /\ timer' = (timer \/ kind = "write")
    /\ UNCHANGED <<disk, good, tmpl, watcher, unseen, load, parsed>>

\* ctx.Done(): the timer is stopped; a reload that has begun goes on.
WatchStops ==
    /\ watcher = "watching"
    /\ watcher' = "stopped"
    /\ timer' = FALSE
    /\ UNCHANGED <<disk, good, tmpl, event, unseen, load, parsed>>

\* No event came for the debounce period: Reload runs in a goroutine of its own.
TimerFires(l) ==
    /\ timer
    /\ load[l] = "idle"
    /\ timer' = FALSE
    /\ load' = [load EXCEPT ![l] = "parse"]
    /\ UNCHANGED <<disk, good, tmpl, watcher, event, unseen, parsed>>

\* Seeded fault: what was parsed is swapped in without looking at the error.
Parse_IgnoresError(l) ==
    /\ load[l] = "parse"
    /\ parsed' = [parsed EXCEPT ![l] = disk]
    /\ load' = [load EXCEPT ![l] = "swap"]
    /\ UNCHANGED <<disk, good, tmpl, watcher, event, unseen, timer>>

\* load() globs and parses the files; on an error it returns.
Parse(l) ==
    /\ load[l] = "parse"
    /\ \/ /\ disk \in good
          /\ parsed' = [parsed EXCEPT ![l] = disk]
          /\ load' = [load EXCEPT ![l] = "swap"]
       \/ /\ disk \notin good
          /\ load' = [load EXCEPT ![l] = "idle"]
          /\ UNCHANGED parsed
    /\ UNCHANGED <<disk, good, tmpl, watcher, event, unseen, timer>>

\* e.tmpl = tmpl, under the lock that Render takes to read it.
Swap(l) ==
    /\ load[l] = "swap"
    /\ tmpl' = parsed[l]
    /\ load' = [load EXCEPT ![l] = "idle"]
    /\ UNCHANGED <<disk, good, watcher, event, unseen, timer, parsed>>

Next ==
    \/ NewEngine \/ WatchBegins \/ WatchStops
    \/ \E kind \in Kind : Edit(kind) \/ WatchEvent(kind)
    \/ \E l \in Loader : TimerFires(l) \/ Parse(l) \/ Swap(l)

Spec == Init /\ [][Next]_vars

-----------------------------------------------------------------------------

\* The reload is "fail-safe" (engine.go:72): from NewEngine on Render has
\* templates, and they are a version that could be loaded, whatever is on disk
\* now and however reloads overlap.
ActiveIsUsable ==
    /\ watcher \in {"starting", "watching"} => tmpl \in good
    /\ tmpl # NoTemplates => tmpl \in good

\* The scheduler runs the goroutines, and the debounce timer fires.
FairSpec ==
    /\ Spec
    /\ \A kind \in Kind : WF_vars(WatchEvent(kind))
    /\ WF_vars(NewEngine) /\ WF_vars(WatchBegins)
    /\ \A l \in Loader : WF_vars(TimerFires(l)) /\ WF_vars(Parse(l) \/ Swap(l))

\* The templates on disk are the ones in use, or cannot be used.
UpToDate == tmpl = disk \/ disk \notin good

\* Every reload is over before the next one begins.
NoOverlap == \A l, m \in Loader : load[l] # "idle" /\ load[m] # "idle" => l = m

\* When changes have come to an end, the last one is loaded unless it cannot be:
\* even when the events of several changes are merged or arrive while a reload
\* is running.  What is lost (reload.go:38, 58 and 71) is only a change made
\* between NewEngine's load and watcher.Add, a file moved out of the directory,
\* and the newer of two reloads that overlap.
LastChangeIsLoaded ==
    []NoOverlap => <>[](UpToDate \/ unseen \/ watcher = "stopped")
=============================================================================
