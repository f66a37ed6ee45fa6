--------------------------- MODULE FilterScripts ---------------------------
(***************************************************************************)
(* The filter scripts of the server (server/filterscripts.cpp): an array   *)
(* of programs and one of their names, loaded and unloaded by the          *)
(* configuration and by console commands, and called one after another.    *)
(*                                                                         *)
(* A file can be missing, or be there and hold no program.  In the latter  *)
(* case the slot keeps an AMX without a program, and the first callback    *)
(* that comes to it reads through a null pointer (sdk/amx/amx.c:1286).     *)
(***************************************************************************)
EXTENDS Integers, FiniteSets

CONSTANTS MaxFilterScripts,    \* MAX_FILTER_SCRIPTS
          Names,               \* names of script files
          Readable,            \* the names whose files can be opened
          Loadable,            \* the names whose files hold a program
          FilterNames,         \* the names given to loadfs and unloadfs
          Empty                \* a null pointer, and the empty name

ASSUME FilterScriptsAssumption ==
    /\ MaxFilterScripts \in Nat
    /\ Loadable \subseteq Readable /\ Readable \subseteq Names
    /\ FilterNames \subseteq Names
    /\ Empty \notin Names /\ "blank" \notin Names /\ Empty # "blank"

VARIABLES scripts,       \* m_pFilterScripts: the program in every slot
          names,         \* m_szFilterScriptName
          scriptCount,   \* m_iFilterScriptCount
          blankTried,    \* history: a file without a program was loaded
          up             \* is the server there?

filterVars == <<scripts, names, scriptCount, blankTried>>

Slots == 0 .. (MaxFilterScripts - 1)

FilterTypeOK ==
    /\ scripts \in [Slots -> Names \cup {Empty, "blank"}]
    /\ names \in [Slots -> Names \cup {Empty}]
    /\ scriptCount \in 0 .. MaxFilterScripts
    /\ blankTried \in BOOLEAN

FilterInit ==
    /\ scripts = [s \in Slots |-> Empty] /\ names = [s \in Slots |-> Empty]
    /\ scriptCount = 0 /\ blankTried = FALSE

First(S) == CHOOSE s \in S : \A r \in S : s =< r
Occupied == {s \in Slots : scripts[s] # Empty}
Running(n) == \E s \in Slots : scripts[s] = n

-----------------------------------------------------------------------------
(* The script machine's part is scripts; programs' own effects are left out. *)

\* The slot for a script: the first free one, unless its name is found before that.
SpareSlot(n, progs, nms) ==
    {s \in Slots : /\ progs[s] = Empty
                   /\ \A r \in Slots : r < s => progs[r] # Empty /\ nms[r] # n}

\* A mutant: one slot is never used.
HasRoom_Less(c) == c + 1 < MaxFilterScripts

HasRoom(c) == c < MaxFilterScripts

\* LoadFilterScript from given contents; a reload comes here from an unload.
LoadInto(n, progs, nms) ==
    IF ~HasRoom(scriptCount) \/ n \notin Readable \/ SpareSlot(n, progs, nms) = {}
    THEN scripts' = progs /\ names' = nms /\ UNCHANGED <<scriptCount, blankTried>>
    ELSE \E s \in SpareSlot(n, progs, nms) :
        IF n \in Loadable
        THEN /\ scripts' = [progs EXCEPT ![s] = n] /\ names' = [nms EXCEPT ![s] = n]
             /\ scriptCount' = scriptCount + 1
             /\ UNCHANGED blankTried
        ELSE /\ scripts' = [progs EXCEPT ![s] = "blank"] /\ names' = nms
             /\ blankTried' = TRUE
             /\ UNCHANGED scriptCount

LoadFilterScript(n) == up /\ LoadInto(n, scripts, names) /\ UNCHANGED up

\* A mutant: the name stays with the slot.
NamesWithout_Kept(n) == names

\* RemoveFilterScript for the first slot of that name, which also ends the program's
\* timers; the count stays as it was.
FirstNamed(n) == {s \in Slots : names[s] = n /\ \A r \in Slots : r < s => names[r] # n}

\* A mutant: the program is freed and the pointer kept.
ScriptsWithout_Dangling(n) ==
    [s \in Slots |-> IF s \in FirstNamed(n) /\ scripts[s] # Empty THEN "blank" ELSE scripts[s]]

ScriptsWithout(n) == [s \in Slots |-> IF s \in FirstNamed(n) THEN Empty ELSE scripts[s]]

NamesWithout(n) == [s \in Slots |-> IF s \in FirstNamed(n) THEN Empty ELSE names[s]]

UnloadOneFilterScript(n) ==
    /\ up
    /\ scripts' = ScriptsWithout(n) /\ names' = NamesWithout(n)
    /\ UNCHANGED <<scriptCount, blankTried, up>>

\* con_reloadfs.
ReloadFs(n) == up /\ LoadInto(n, ScriptsWithout(n), NamesWithout(n)) /\ UNCHANGED up

\* Whether the server survives a callback: the scripts are called in the order of
\* their slots until one returns 0, and one without a program stops the server.
CallOutcomes ==
    IF "blank" \notin {scripts[s] : s \in Slots} THEN {TRUE}
    ELSE IF scripts[First(Occupied)] = "blank" THEN {FALSE} ELSE BOOLEAN

\* A callback of the filter scripts.
CallPublic == up /\ up' \in CallOutcomes /\ UNCHANGED filterVars

FilterNext ==
    \/ \E n \in FilterNames : LoadFilterScript(n) \/ UnloadOneFilterScript(n) \/ ReloadFs(n)
    \/ CallPublic

-----------------------------------------------------------------------------
(* Properties. *)

(* What unloadfs finds by its name runs, and what runs can be found, also  *)
(* after failed loads and when a script was loaded a second time behind a  *)
(* gap (filterscripts.cpp:50-55, 158-172).                                 *)
NamesMatch == \A s \in Slots : \A n \in Names : scripts[s] = n <=> names[s] = n

(* A script that runs and is reloaded runs afterwards, while fewer loads   *)
(* have succeeded than there are slots; then no load succeeds any more,    *)
(* since unloading is not counted (filterscripts.cpp:43, 177-197).         *)
ReloadKeepsRunning ==
    [][\A n \in FilterNames \cap Loadable :
          ReloadFs(n) /\ Running(n) /\ scriptCount < MaxFilterScripts
              => \E s \in Slots : scripts'[s] = n]_filterVars
=============================================================================
