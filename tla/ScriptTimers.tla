---------------------------- MODULE ScriptTimers ----------------------------
(***************************************************************************)
(* The script timers (server/scrtimers.cpp) and the natives SetTimer and   *)
(* KillTimer (server/scrcustom.cpp).                                       *)
(*                                                                         *)
(* Process walks the map of timers in the order of their ids and runs the  *)
(* script function of each that expired.  That function may set and kill   *)
(* timers, and unload scripts together with their timers, while Process    *)
(* holds iterators to the current timer and to the one after it.           *)
(***************************************************************************)
EXTENDS Integers

CONSTANTS Scripts,           \* AMX programs: the game mode and filter scripts
          MaxTimers,         \* bound on m_dwTimerCount
          Intervals,         \* intervals that scripts ask for
          Frames,            \* the times that pass between two calls of Process
          UnloadInCallback   \* may a timer's function unload scripts?

ASSUME ScriptTimersAssumption ==
    /\ Scripts # {}               \* there is a game mode
    /\ MaxTimers \in Nat
    /\ Intervals \subseteq Int
    /\ Frames \subseteq Nat
    /\ UnloadInCallback \in BOOLEAN

TimerIds == 1 .. MaxTimers
End == MaxTimers + 1         \* m_Timers.end()

VARIABLES live,        \* keys of m_Timers
          timer,       \* the ScriptTimer_s of each key
          timerCount,  \* m_dwTimerCount
          loaded,      \* programs in memory
          phase,       \* idle, in the loop of Process, or in a timer's function
          itor, tmp,   \* the iterators of Process
          elapsed,     \* iElapsedTime of the running Process
          fires,       \* how often each timer's function was called, up to 2
          dead         \* timers that were killed or whose script was unloaded

scanVars == <<phase, itor, tmp, elapsed>>
timerVars == <<live, timer, timerCount, loaded, scanVars, fires, dead>>

Timer == [owner : Scripts, total : Int, remaining : Int,
          repeating : BOOLEAN, killed : BOOLEAN]

NoTimer == [owner |-> CHOOSE s \in Scripts : TRUE, total |-> 0, remaining |-> 0,
            repeating |-> FALSE, killed |-> FALSE]

TimersTypeOK ==
    /\ live \in SUBSET (1 .. timerCount)
    /\ timer \in [TimerIds -> Timer]
    /\ timerCount \in 0 .. MaxTimers
    /\ loaded \in SUBSET Scripts
    /\ phase \in {"idle", "scan", "callback", "crashed"}
    /\ itor \in TimerIds \cup {End} /\ tmp \in TimerIds \cup {End}
    /\ elapsed \in Nat
    /\ fires \in [TimerIds -> 0 .. 2]
    /\ dead \in SUBSET TimerIds

TimersInit ==
    /\ live = {}
    /\ timer = [i \in TimerIds |-> NoTimer]
    /\ timerCount = 0
    /\ loaded = Scripts
    /\ phase = "idle" /\ itor = End /\ tmp = End /\ elapsed = 0
    /\ fires = [i \in TimerIds |-> 0]
    /\ dead = {}

\* Scripts run between two calls of Process and inside the timers' functions.
ScriptsRun == phase \in {"idle", "callback"}

-----------------------------------------------------------------------------
(* What scripts and the console do. *)

\* New and NewEx: ids are never used again.
SetTimer(s, interval, repeating) ==
    /\ ScriptsRun /\ s \in loaded
    /\ timerCount < MaxTimers
    /\ timerCount' = timerCount + 1
    /\ live' = live \cup {timerCount'}
    /\ timer' = [timer EXCEPT ![timerCount'] =
          [owner |-> s, total |-> interval, remaining |-> interval,
           repeating |-> repeating, killed |-> FALSE]]
    /\ UNCHANGED <<loaded, scanVars, fires, dead>>

\* A mutant: the timer is only made to expire.
Kill_Expiring(i) ==
    /\ ScriptsRun /\ i \in live
    /\ timer' = [timer EXCEPT ![i].remaining = 0, ![i].repeating = FALSE]
    /\ dead' = dead \cup {i}
    /\ UNCHANGED <<live, timerCount, loaded, scanVars, fires>>

\* The timer stays in the map, to be deleted when Process comes to it.
Kill(i) ==
    /\ ScriptsRun /\ i \in live
    /\ timer' = [timer EXCEPT ![i].remaining = 0, ![i].killed = TRUE,
                              ![i].repeating = FALSE]
    /\ dead' = dead \cup {i}
    /\ UNCHANGED <<live, timerCount, loaded, scanVars, fires>>

\* A mutant: the loop goes on after a deletion and misses the next timer.
OwnedBy_First(s) ==
    {i \in live : timer[i].owner = s /\
                  ((i - 1) \in live => timer[i - 1].owner # s)}

OwnedBy(s) == {i \in live : timer[i].owner = s}

\* A mutant: the ids start over when a script ends.
Unload_Recounting(s) ==
    /\ phase = "idle" /\ s \in loaded
    /\ loaded' = loaded \ {s}
    /\ live' = live \ OwnedBy(s) /\ dead' = dead \cup OwnedBy(s)
    /\ timerCount' = 0
    /\ UNCHANGED <<timer, scanVars, fires>>

\* A script is unloaded: DeleteForMode.
Unload(s) ==
    /\ phase = "idle" \/ (phase = "callback" /\ UnloadInCallback)
    /\ s \in loaded
    /\ loaded' = loaded \ {s}
    /\ live' = live \ OwnedBy(s)
    /\ dead' = dead \cup {i \in live : timer[i].owner = s}
    /\ UNCHANGED <<timer, timerCount, scanVars, fires>>

Load(s) ==
    /\ ScriptsRun /\ s \notin loaded
    /\ loaded' = loaded \cup {s}
    /\ UNCHANGED <<live, timer, timerCount, scanVars, fires, dead>>

-----------------------------------------------------------------------------
(* Process. *)

\* The iterator after i.
After(i) == IF \E j \in live : j > i
            THEN CHOOSE j \in live : j > i /\ \A k \in live : k > i => j =< k
            ELSE End

\* Process goes on at i, or has come to the end.
ContinueAt(i) ==
    /\ phase' = IF i = End THEN "idle" ELSE "scan"
    /\ itor' = i /\ tmp' = End
    /\ elapsed' = IF i = End THEN 0 ELSE elapsed

Process(e) ==
    /\ phase = "idle" /\ live # {}
    /\ phase' = "scan" /\ itor' = After(0) /\ elapsed' = e
    /\ UNCHANGED <<live, timer, timerCount, loaded, tmp, fires, dead>>

Left == timer[itor].remaining - elapsed

\* The time of the current timer has not come.
Pass ==
    /\ phase = "scan" /\ Left > 0
    /\ timer' = [timer EXCEPT ![itor].remaining = Left]
    /\ ContinueAt(After(itor))
    /\ UNCHANGED <<live, timerCount, loaded, fires, dead>>

\* The current timer expired: Process notes the next one and calls the
\* function of this one.
Call ==
    /\ phase = "scan" /\ Left =< 0 /\ ~timer[itor].killed
    /\ timer' = [timer EXCEPT ![itor].remaining = Left]
    /\ phase' = "callback" /\ tmp' = After(itor)
    /\ fires' = [fires EXCEPT ![itor] = IF @ = 2 THEN 2 ELSE @ + 1]
    /\ UNCHANGED <<live, timerCount, loaded, itor, elapsed, dead>>

\* The step of the loop after an expired timer: the iterator moves to the next
\* timer and then once more, so that the next one is passed over this time.
SkipTo(next) == ContinueAt(IF next = End THEN End ELSE After(next))

\* A mutant: a repeating timer starts again from zero and expires at every call.
Expired_FromZero ==
    IF timer[itor].repeating
    THEN timer' = [timer EXCEPT ![itor].remaining = 0] /\ UNCHANGED live
    ELSE live' = live \ {itor} /\ UNCHANGED timer

Expired ==
    IF timer[itor].repeating
    THEN timer' = [timer EXCEPT ![itor].remaining = timer[itor].total] /\ UNCHANGED live
    ELSE live' = live \ {itor} /\ UNCHANGED timer

\* A killed timer expires without a call.
Reap ==
    /\ phase = "scan" /\ Left =< 0 /\ timer[itor].killed
    /\ live' = live \ {itor}
    /\ SkipTo(After(itor))
    /\ UNCHANGED <<timer, timerCount, loaded, fires, dead>>

IteratorsValid == phase = "callback" => itor \in live /\ tmp \in live \cup {End}

\* The function returned.  Process goes on with its two iterators; if the
\* function got their timers erased, what it reads is freed memory.
Return ==
    /\ phase = "callback"
    /\ IF IteratorsValid
       THEN Expired /\ SkipTo(tmp)
       ELSE phase' = "crashed" /\ UNCHANGED <<live, timer, itor, tmp, elapsed>>
    /\ UNCHANGED <<timerCount, loaded, fires, dead>>

TimersNext ==
    \/ \E s \in Scripts, n \in Intervals, r \in BOOLEAN : SetTimer(s, n, r)
    \/ \E i \in TimerIds : Kill(i)
    \/ \E s \in Scripts : Unload(s)
    \/ \E s \in Scripts : Load(s)
    \/ \E e \in Frames : Process(e)
    \/ Pass \/ Call \/ Reap \/ Return

TimersSpec == TimersInit /\ [][TimersNext]_timerVars

\* The main loop calls Process again and again while the game runs, and a
\* timer's function returns.
TimersFairSpec ==
    /\ TimersSpec
    /\ WF_timerVars(\E e \in Frames : Process(e))
    /\ WF_timerVars(Pass \/ Call \/ Reap \/ Return)

-----------------------------------------------------------------------------
(* Properties. *)

\* No timer outlives its program: Process never calls into a program that has
\* been freed (DeleteForMode, scrtimers.cpp 54-71).
NoOrphanTimer == \A i \in live : timer[i].owner \in loaded

\* Nothing Process reads was freed: neither the timers its iterators are at, when
\* a function returns (scrtimers.cpp 234-279), nor the programs of timers.
NothingDangles == IteratorsValid /\ NoOrphanTimer

\* A timer that does not repeat calls its function at most once, however
\* Process is interrupted by what the functions do.
OneShotFiresOnce ==
    \A i \in live : ~timer[i].repeating /\ ~timer[i].killed =>
        fires[i] = 0 \/ (phase = "callback" /\ itor = i /\ fires[i] = 1)

\* After KillTimer, or after its script is unloaded, a timer's function is
\* never called again, although a killed timer may wait in the map for many
\* calls of Process.
DeadStaysDead == [][\A i \in dead : fires'[i] = fires[i]]_timerVars

\* No timer calls its function more often than a script asked for.
NoCallTooMany == []OneShotFiresOnce /\ DeadStaysDead

\* Passing over the successor of an expired timer delays timers but starves
\* none, unless a script sets a timer so short that it expires whenever Process
\* comes to it: each timer runs, is killed or is unloaded.
ExpiresAtOnce(i) == \E e \in Frames : timer[i].total =< e
TimersFire ==
    [](\A i \in live : ~ExpiresAtOnce(i)) =>
        \A i \in TimerIds :
            i \in live ~> i \notin live \/ (phase = "callback" /\ itor = i)
=============================================================================
