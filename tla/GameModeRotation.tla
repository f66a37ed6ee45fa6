-------------------------- MODULE GameModeRotation --------------------------
(***************************************************************************)
(* Which game mode runs next: GetNextScriptFile and SetNextScriptFile      *)
(* (server/netgame.cpp), and those who call them: the constructor of the   *)
(* game, the native GameModeExit (server/scrcustom.cpp) and the console's  *)
(* gmx and changemode (server/console.cpp).                                *)
(*                                                                         *)
(* The configuration lists game modes, each with a repeat count.  A        *)
(* request to end the mode is honoured at the end of the main loop's       *)
(* iteration, so several requests may come before one restart.  The filter *)
(* scripts are called when a mode ends and when the next begins.           *)
(***************************************************************************)
EXTENDS FilterScripts, Sequences

CONSTANTS Config,        \* the console variables gamemode0, gamemode1, ...
          Named          \* the names an administrator gives to changemode

ASSUME GameModeRotationAssumption ==
    /\ Config \in Seq([name : Names, repeats : Nat]) /\ Len(Config) > 0
    /\ Named \subseteq Names
    /\ Config[1].name \in Loadable

VARIABLES index,         \* m_iCurrentGameModeIndex
          repeat,        \* m_iCurrentGameModeRepeat
          file,          \* szGameModeFile
          finished,      \* bGameModeFinished
          running,       \* the mode that was loaded last
          initialised,   \* m_bInitialised: it has a program
          unloadable,    \* history: a mode without a program was loaded
          plays          \* how often in a row the rotation loaded the same entry, up to 3

choice == <<index, repeat, file, plays>>
rotationVars == <<choice, finished, running, initialised, unloadable, filterVars, up>>

\* repeat only counts down from 0, as far as RepeatFloor; the int goes on to
\* -2^31, and the code tells it only from 0.
RepeatFloor == -2

RotationTypeOK ==
    /\ index \in 0 .. (Len(Config) - 1)
    /\ repeat \in RepeatFloor .. 0
    /\ file \in Names
    /\ finished \in BOOLEAN
    /\ running \in Names
    /\ initialised \in BOOLEAN /\ unloadable \in BOOLEAN /\ up \in BOOLEAN
    /\ plays \in 0 .. 3
    /\ FilterTypeOK

Entry(i) == Config[i + 1]

\* GetNextScriptFile: past the last entry it starts again from 0.
NextIndex(i) == IF i + 1 < Len(Config) THEN i + 1 ELSE 0

\* The repeat count that SetNextScriptFile reads.  strtok has cut the variable
\* at the first blank, so sscanf never finds a number.
ConfigRepeat(i) == 0

\* SetNextScriptFile(NULL) chooses the entry ...
RotateTo == IF repeat # 0 THEN index ELSE NextIndex(index)

\* A mutant: it counts up.
CountDown_Up(r) == r + 1

\* ... and counts down.
CountDown(r) == IF r - 1 < RepeatFloor THEN RepeatFloor ELSE r - 1
RepeatAfter == CountDown(IF repeat = 0 THEN ConfigRepeat(RotateTo) ELSE repeat)

\* The constructor takes entry 0, and Init loads it.
RotationInit ==
    /\ index = 0
    /\ repeat = CountDown(ConfigRepeat(0))
    /\ file = Entry(0).name
    /\ finished = FALSE
    /\ running = Entry(0).name
    /\ initialised = TRUE /\ unloadable = FALSE
    /\ up = TRUE /\ plays = 1
    /\ FilterInit

-----------------------------------------------------------------------------

\* n_GameModeExit stops the server if the next file is not there.
GameModeExit ==
    /\ up
    /\ index' = RotateTo
    /\ file' = Entry(RotateTo).name
    /\ IF Entry(RotateTo).name \in Readable
       THEN /\ repeat' = RepeatAfter /\ finished' = TRUE /\ up' = TRUE
            /\ plays' = IF index' # index THEN 1 ELSE IF plays = 3 THEN 3 ELSE plays + 1
       ELSE up' = FALSE /\ UNCHANGED <<repeat, finished, plays>>
    /\ UNCHANGED <<running, initialised, unloadable, filterVars>>

\* SetNextScriptFile(szFile): the file is set before it is tried.
SetNextScriptFile(n) ==
    /\ file' = n
    /\ IF n \in Readable
       THEN repeat' = 0 /\ finished' = TRUE
       ELSE UNCHANGED <<repeat, finished>>

\* A mutant: the index moves only to entries that can be read.
Gmx_Stopping ==
    /\ up
    /\ IF Entry(NextIndex(index)).name \in Readable
       THEN index' = NextIndex(index) /\ SetNextScriptFile(Entry(NextIndex(index)).name)
       ELSE UNCHANGED <<index, file, repeat, finished>>
    /\ plays' = 0
    /\ UNCHANGED <<running, initialised, unloadable, filterVars, up>>

\* con_gmx.
Gmx ==
    /\ up
    /\ index' = NextIndex(index)
    /\ SetNextScriptFile(Entry(NextIndex(index)).name)
    /\ plays' = 0
    /\ UNCHANGED <<running, initialised, unloadable, filterVars, up>>

\* con_changemode.
ChangeMode(n) ==
    /\ up
    /\ SetNextScriptFile(n)
    /\ plays' = 0
    /\ UNCHANGED <<index, running, initialised, unloadable, filterVars, up>>

\* main() restarts the game: the mode is unloaded, Init loads szGameModeFile, and the
\* filter scripts are called about both.  Unload looks for OnGameModeExit whether there
\* is a program or not.
Restart ==
    /\ up /\ finished
    /\ finished' = FALSE
    /\ running' = file
    /\ initialised' = (file \in Loadable)
    /\ unloadable' = (unloadable \/ file \notin Loadable)
    /\ \E survives \in CallOutcomes : up' = (initialised /\ survives)
    /\ UNCHANGED <<choice, filterVars>>

FilterStep == FilterNext /\ UNCHANGED <<choice, finished, running, initialised, unloadable>>

RotationNext ==
    GameModeExit \/ Gmx \/ (\E n \in Named : ChangeMode(n)) \/ Restart \/ FilterStep

RotationSpec == RotationInit /\ [][RotationNext]_rotationVars

\* The main loop restarts when it was asked to, before anything else is asked.
RotationFairSpec == RotationSpec /\ WF_rotationVars(Restart)

-----------------------------------------------------------------------------
(* Properties. *)

Request == GameModeExit \/ Gmx \/ \E n \in Named : ChangeMode(n)

\* An administrator who asks for the next mode again and again, and waits until each
\* request is served, sees every mode of the configuration that can be read run again
\* and again, in spite of entries that cannot be read (the file is changed before it is
\* tried), of changemode, and of modes that end by themselves in between.  One who asks
\* twice before a restart skips a mode each time: the second request overwrites the file
\* of the first, so nothing is claimed for him.
GmxReachesAll ==
    \A i \in 1 .. Len(Config) :
        /\ Config[i].name \in Readable
        /\ []<><<Gmx>>_rotationVars
        /\ <>[][Request => ~finished]_rotationVars
        /\ <>[]up
        => []<>(running = Config[i].name)

\* No callback follows a null program unless a file was loaded that holds none,
\* whatever is loaded, unloaded, reloaded and rotated in between.
StopsForBadFilesOnly ==
    [][(Restart \/ FilterStep) /\ ~up' => blankTried \/ unloadable]_rotationVars

\* "it will attempt to rotate scripts as per configuration" (netgame.cpp 252):
\* no entry is taken more often in a row than it is repeated.
RotatesAsConfigured ==
    plays =< IF Entry(index).repeats > 1 THEN Entry(index).repeats ELSE 1
=============================================================================
