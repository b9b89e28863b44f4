--------------------------- MODULE PersistedEdits ---------------------------
(***************************************************************************)
(* PersistCVarEdits and Autobrew's settings: two plugins that each keep a  *)
(* mod.cfg which the engine evaluates when the game starts.  The first     *)
(* records what a console sink sees of any cvar, the second what its menu  *)
(* sets of its own cvars, so the lines of one cvar may stand in both.      *)
(*                                                                         *)
(* The console is modelled from what the two plugins say of it: it holds   *)
(* the last line for a cvar that is not registered yet and applies it on   *)
(* registration, and it tells its sinks of every change of a value.        *)
(***************************************************************************)
EXTENDS Integers, Sequences, FiniteSets

CONSTANTS
  EngineCVars,    \* registered before any mod.cfg is evaluated
  MenuCVars,      \* Autobrew's
  Switch,         \* kcse_pce_persist
  Lines,          \* all of them in the order of the file
  Values,         \* 0, which stands for "off", among them
  Default,        \* cvar -> its value without any line
  Blank,          \* a value cut off by a crash
  Absent,         \* the value of a cvar that is not registered
  MaxSessions, MaxEdits, MaxFaults

ASSUME EditsAssumption ==
  /\ EngineCVars \cap MenuCVars = {} /\ Switch \notin EngineCVars \cup MenuCVars
  /\ Lines \in Seq(EngineCVars \cup MenuCVars \cup {Switch})
  /\ Default \in [EngineCVars \cup MenuCVars \cup {Switch} -> Values]
  /\ 0 \in Values /\ Blank \notin Values /\ Absent \notin Values

CVars == EngineCVars \cup MenuCVars \cup {Switch}
Files == {"pce", "autobrew"}

VARIABLES
  value,      \* the cvars
  held,       \* the console's values for cvars to come
  recorded,    \* g_entries of both plugins
  armed,      \* the sink is with the console
  phase,      \* "off", "launched", "predata" or "loaded"
  file,       \* the two mod.cfg
  lastFile,   \* which of them the engine evaluates last
  \* What the program does not keep:
  wanted,     \* the value last set where a plugin records
  unsaved,    \* the files whose last write failed
  disturbed,  \* a session ended with an unsaved file or within a write
  menuOnly,   \* Autobrew's cvars were only set in the menu, and recorded
  sessions, edits, faults

console == <<value, held>>
ghosts == <<wanted, disturbed, menuOnly>>
counts == <<sessions, edits, faults>>
editVars == <<value, held, recorded, armed, phase, file, lastFile, wanted, unsaved,
          disturbed, menuOnly, sessions, edits, faults>>
-----------------------------------------------------------------------------
NoLines == << >>
Only(e, C) == [c \in DOMAIN e \cap C |-> e[c]]
With(e, c, v) == [d \in DOMAIN e \cup {c} |-> IF d = c THEN v ELSE e[d]]

(* What the console makes of a value: one cut short reads as 0.             *)
Read(v) == IF v = Blank THEN 0 ELSE v
Line(c) ==
  LET other == CHOOSE f \in Files : f # lastFile
      from == IF c \in DOMAIN file[lastFile] THEN lastFile ELSE other
  IN Read(file[from][c])
Disputed(c) ==
  /\ \A f \in Files : c \in DOMAIN file[f]
  /\ \E f, g \in Files : file[f][c] # file[g][c]
HasLine(c) == \E f \in Files : c \in DOMAIN file[f]
OnRegistration(c) == IF c \in DOMAIN held THEN held[c] ELSE Default[c]

EditsInit ==
  /\ value = [c \in CVars |-> Absent] /\ held = NoLines
  /\ recorded = [f \in Files |-> NoLines]
  /\ armed = FALSE /\ phase = "off"
  /\ file = [f \in Files |-> NoLines] /\ lastFile \in Files
  /\ wanted = Default /\ unsaved = {} /\ disturbed = FALSE /\ menuOnly = TRUE
  /\ sessions = 0 /\ edits = 0 /\ faults = 0
-----------------------------------------------------------------------------
(* Mutant: nothing is seeded. *)
Unseeded(f) == NoLines

(* LoadExisting and LoadPersistedEdits: a rewrite must not forget what was  *)
(* edited in other sessions.                                                *)
Seeded(f) == file[f]

(* The game starts: both plugins load, and both files are evaluated.        *)
Launch ==
  /\ phase = "off" /\ sessions < MaxSessions
  /\ phase' = "launched"
  /\ recorded' = [f \in Files |-> Seeded(f)]
  /\ value' = [c \in CVars |->
                 IF c \notin EngineCVars THEN Absent
                 ELSE IF HasLine(c) THEN Line(c) ELSE Default[c]]
  /\ held' = [c \in {d \in CVars \ EngineCVars : HasLine(d)} |-> Line(c)]
  /\ sessions' = sessions + 1
  /\ UNCHANGED <<armed, file, lastFile, ghosts, unsaved, edits, faults>>

(* kMessage_PreDataLoaded: the switch is registered.                        *)
PreDataLoaded ==
  /\ phase = "launched"
  /\ phase' = "predata"
  /\ value' = [value EXCEPT ![Switch] = OnRegistration(Switch)]
  /\ UNCHANGED <<held, recorded, armed, file, lastFile, ghosts, unsaved, counts>>

(* kMessage_DataLoaded reaches the two plugins in the order they loaded.    *)
DataLoaded ==
  /\ phase = "predata" /\ armed /\ \A c \in MenuCVars : value[c] # Absent
  /\ phase' = "loaded"
  /\ UNCHANGED <<console, recorded, armed, file, lastFile, ghosts, unsaved, counts>>

ArmSink ==
  /\ phase = "predata" /\ ~armed
  /\ armed' = TRUE
  /\ UNCHANGED <<console, recorded, phase, file, lastFile, ghosts, unsaved, counts>>

Stands(e, c, v) == c \in DOMAIN e /\ e[c] = v

(* Mutant: a plugin's file is rewritten only for a cvar it has not seen. *)
OnceRecordedEdit(f, c, v, s, ok) ==
  IF Stands(s.recorded[f], c, v) THEN s
  ELSE LET new == With(s.recorded[f], c, v)
           write == ok /\ c \notin DOMAIN s.recorded[f]
       IN [recorded |-> [s.recorded EXCEPT ![f] = new],
           file    |-> IF write THEN [s.file EXCEPT ![f] = new] ELSE s.file,
           unsaved |-> s.unsaved]

(* RecordEdit, PersistSetting: the entry first, then the whole file, unless *)
(* the entry stands already.  When the file cannot be opened the entry      *)
(* stays in memory alone.  s holds the entries and the files so far.         *)
RecordedEdit(f, c, v, s, ok) ==
  IF Stands(s.recorded[f], c, v) THEN s
  ELSE LET new == With(s.recorded[f], c, v) IN
       [recorded |-> [s.recorded EXCEPT ![f] = new],
        file    |-> IF ok THEN [s.file EXCEPT ![f] = new] ELSE s.file,
        unsaved |-> IF ok THEN s.unsaved \ {f} ELSE s.unsaved \cup {f}]

Books == [recorded |-> recorded, file |-> file, unsaved |-> unsaved]

(* Mutants: the switch is recorded like any other cvar; what the sink saw   *)
(* before is not recorded again.                                            *)
SwitchedListens(c, persist) == armed /\ persist # 0
FirstListens(c, persist) == armed /\ c \notin DOMAIN recorded["pce"]

(* OnAfterVarChange: the switch always, the others while it is on.  persist *)
(* is the value of the switch after the change.                             *)
Listens(c, persist) == armed /\ (c = Switch \/ persist # 0)

(* Setting a cvar: nothing when the value is unchanged, else the new value  *)
(* and then the sink.                                                       *)
AfterVarChange(c, v, s, ok) ==
  IF value[c] # v /\ Listens(c, IF c = Switch THEN v ELSE value[Switch])
    THEN RecordedEdit("pce", c, v, s, ok)
    ELSE s

Keep(s) == recorded' = s.recorded /\ file' = s.file /\ unsaved' = s.unsaved
Fault(ok) == faults' = IF ok THEN faults ELSE faults + 1
MayFail(ok) == ok \in BOOLEAN /\ (ok \/ faults < MaxFaults)

(* Autobrew registers its cvars, for a sink that may be armed by now: what  *)
(* the console held for them then counts as an edit.  Where the files       *)
(* differ, their order has decided what the player has from now on.         *)
RegisterMenuCVar(c, ok) ==
  /\ phase = "predata" /\ value[c] = Absent
  /\ value' = [value EXCEPT ![c] = OnRegistration(c)]
  /\ IF OnRegistration(c) # Default[c] /\ Listens(c, value[Switch])
       THEN Keep(RecordedEdit("pce", c, OnRegistration(c), Books, ok)) /\ Fault(ok)
       ELSE ok /\ UNCHANGED <<recorded, file, unsaved, faults>>
  /\ wanted' = IF Disputed(c) THEN [wanted EXCEPT ![c] = value'[c]] ELSE wanted
  /\ UNCHANGED <<held, armed, phase, lastFile, disturbed, menuOnly, sessions, edits>>

(* The console, a script or the game sets a registered cvar.                *)
ConsoleEdit(c, v, ok) ==
  /\ edits < MaxEdits /\ value[c] \notin {Absent, v}
  /\ edits' = edits + 1
  /\ value' = [value EXCEPT ![c] = v]
  /\ Keep(AfterVarChange(c, v, Books, ok)) /\ Fault(ok)
  /\ wanted' = IF armed /\ (c = Switch \/ value[Switch] # 0)
                 THEN [wanted EXCEPT ![c] = v] ELSE wanted
  /\ menuOnly' = (menuOnly /\ c \notin MenuCVars)
  /\ UNCHANGED <<held, armed, phase, lastFile, disturbed, sessions>>

(* HandleMcmMessage: the menu sets a cvar through the console, where the    *)
(* sink records it too, and then records it in Autobrew's file.             *)
MenuEdit(c, v, okSink, ok) ==
  /\ phase = "loaded" /\ edits < MaxEdits
  /\ edits' = edits + 1
  /\ value' = [value EXCEPT ![c] = v]
  /\ Keep(RecordedEdit("autobrew", c, v, AfterVarChange(c, v, Books, okSink), ok))
  /\ Fault(ok /\ okSink)
  /\ wanted' = [wanted EXCEPT ![c] = v]
  /\ menuOnly' = (menuOnly /\ value[Switch] # 0)
  /\ UNCHANGED <<held, armed, phase, lastFile, disturbed, sessions>>

Ended ==
  /\ phase' = "off" /\ armed' = FALSE
  /\ value' = [c \in CVars |-> Absent] /\ held' = NoLines
  /\ recorded' = [f \in Files |-> NoLines]
  /\ unsaved' = {}

(* The game ends, by itself or by a crash: nothing is written then.         *)
Quit ==
  /\ phase # "off"
  /\ Ended
  /\ disturbed' = (disturbed \/ unsaved # {})
  /\ UNCHANGED <<file, lastFile, wanted, menuOnly, counts>>

(* The game dies within WriteFileLocked or WriteCfg: the file was truncated *)
(* and holds the first lines, the last of them perhaps cut off.             *)
Torn(e) ==
  LET upTo(n) == Only(e, {Lines[i] : i \in 1..n})
  IN {upTo(n) : n \in 0..Len(Lines)}
       \cup {With(upTo(n - 1), Lines[n], Blank) :
               n \in {i \in DOMAIN Lines : Lines[i] \in DOMAIN e}}
DieWriting ==
  /\ faults < MaxFaults
  /\ \E c \in CVars, v \in Values :
       \/ /\ value[c] \notin {Absent, v}
          /\ Listens(c, IF c = Switch THEN v ELSE value[Switch])
          /\ ~Stands(recorded["pce"], c, v)
          /\ \E t \in Torn(With(recorded["pce"], c, v)) :
               file' = [file EXCEPT !["pce"] = t]
       \/ /\ phase = "loaded" /\ c \in MenuCVars
          /\ ~Stands(recorded["autobrew"], c, v)
          /\ \E t \in Torn(With(recorded["autobrew"], c, v)) :
               file' = [AfterVarChange(c, v, Books, TRUE).file EXCEPT !["autobrew"] = t]
  /\ Ended
  /\ disturbed' = TRUE /\ faults' = faults + 1
  /\ UNCHANGED <<lastFile, wanted, menuOnly, sessions, edits>>

(* "Delete a line to forget that edit": what is wanted is then what the     *)
(* other file says, or the default.                                         *)
DeleteLine(f, c) ==
  /\ phase = "off" /\ edits < MaxEdits /\ c \in DOMAIN file[f]
  /\ edits' = edits + 1
  /\ file' = [file EXCEPT ![f] = Only(@, CVars \ {c})]
  /\ wanted' = [wanted EXCEPT ![c] =
                  IF \E g \in Files \ {f} : c \in DOMAIN file[g]
                    THEN Read(file[CHOOSE g \in Files : g # f][c]) ELSE Default[c]]
  /\ UNCHANGED <<console, recorded, armed, phase, lastFile, unsaved, disturbed,
                 menuOnly, sessions, faults>>

EditsNext ==
  \/ Launch \/ PreDataLoaded \/ ArmSink \/ DataLoaded \/ Quit
  \/ \E ok \in BOOLEAN :
       /\ MayFail(ok)
       /\ \/ \E c \in MenuCVars : RegisterMenuCVar(c, ok)
          \/ \E c \in CVars, v \in Values : ConsoleEdit(c, v, ok)
          \/ \E c \in MenuCVars, v \in Values, okSink \in {ok, TRUE} :
               MenuEdit(c, v, okSink, ok) \/ MenuEdit(c, v, ok, okSink)
  \/ DieWriting
  \/ \E f \in Files, c \in CVars : DeleteLine(f, c)

EditsSpec == EditsInit /\ [][EditsNext]_editVars
-----------------------------------------------------------------------------
(* While the game runs, a file is what its plugin remembers, line by line;  *)
(* only a write that failed makes a difference, and the next one that works *)
(* makes up for it.                                                         *)
FileHoldsEntries ==
  phase # "off" => \A f \in Files \ unsaved : file[f] = recorded[f]

(* "so a rewrite never forgets entries that weren't re-edited this session"  *)
(* (both plugins): over any number of sessions a line is only lost to the   *)
(* player or to a game that died within a write, and no other line changes  *)
(* with an edit.                                                            *)
NeverForgets ==
  [][(~disturbed' /\ phase' # "off") =>
       \A f \in Files :
         /\ DOMAIN file[f] \subseteq DOMAIN file'[f]
         /\ \A c, d \in DOMAIN file[f] :
              (file'[f][c] # file[f][c] /\ file'[f][d] # file[f][d] /\ unsaved = {})
                => c = d]_editVars

(* "records CVar edits and replays them on the next launch": a cvar comes   *)
(* up with the value that was last set while somebody recorded, the switch  *)
(* among them ("so off survives restarts"), unless the two files differ on  *)
(* it; when they differed once, with the value that won.                    *)
ReplaysRecorded ==
  [][\A c \in CVars :
       (value[c] = Absent /\ value'[c] # Absent /\ ~disturbed /\ ~Disputed(c))
         => value'[c] = wanted[c]]_editVars

(* Whoever sets Autobrew's cvars in the menu only, while edits are          *)
(* recorded, gets two files that say the same, so that the order in which   *)
(* the engine evaluates them does not matter.                               *)
MenuNeverDisputed ==
  (menuOnly /\ ~disturbed /\ unsaved = {}) => \A c \in MenuCVars : ~Disputed(c)
-----------------------------------------------------------------------------
(* What makes these inductive. *)

LinesOK(e) ==
  DOMAIN e \subseteq CVars /\ \A c \in DOMAIN e : e[c] \in Values \cup {Blank}

EditsTypeOK ==
  /\ value \in [CVars -> Values \cup {Absent}]
  /\ DOMAIN held \subseteq CVars /\ \A c \in DOMAIN held : held[c] \in Values
  /\ DOMAIN recorded = Files /\ \A f \in Files : LinesOK(recorded[f])
  /\ DOMAIN file = Files /\ \A f \in Files : LinesOK(file[f])
  /\ armed \in BOOLEAN
  /\ phase \in {"off", "launched", "predata", "loaded"}
  /\ lastFile \in Files
  /\ wanted \in [CVars -> Values]
  /\ unsaved \subseteq Files
  /\ disturbed \in BOOLEAN /\ menuOnly \in BOOLEAN

(* Between two games nothing is armed or owed; the menu only works with the  *)
(* sink armed and every cvar registered.                                     *)
PhasesInOrder ==
  /\ phase = "off" => ~armed /\ unsaved = {} /\ \A c \in CVars : value[c] = Absent
  /\ phase = "loaded" => armed /\ \A c \in MenuCVars : value[c] # Absent

(* Whatever a file holds its plugin remembers. *)
NoneUnknown ==
  phase # "off" => \A f \in Files : DOMAIN file[f] \subseteq DOMAIN recorded[f]

(* Until a cvar is registered nobody touches its lines, and the console      *)
(* holds the last of them for it.                                            *)
HeldForRegistration ==
  phase # "off" =>
    \A c \in CVars :
      value[c] = Absent =>
        /\ \A f \in Files :
             /\ c \in DOMAIN recorded[f] <=> c \in DOMAIN file[f]
             /\ c \in DOMAIN file[f] => recorded[f][c] = file[f][c]
        /\ c \notin EngineCVars =>
             /\ c \in DOMAIN held <=> HasLine(c)
             /\ HasLine(c) => held[c] = Line(c)

(* What the next launch will find, if every write works out. *)
Lasting == IF phase = "off" THEN file ELSE recorded

Agreed(c) ==
  \A f, g \in Files :
    c \in DOMAIN Lasting[f] /\ c \in DOMAIN Lasting[g] =>
      Lasting[f][c] = Lasting[g][c]

AllSay(c, v) == \A f \in Files : c \in DOMAIN Lasting[f] => Lasting[f][c] = v

(* Only a game that dies within a write leaves a value cut off. *)
NothingCut ==
  ~disturbed => \A f \in Files : \A c \in DOMAIN Lasting[f] : Lasting[f][c] \in Values

(* Where the two files agree they say what is wanted. *)
WantedLasts ==
  ~disturbed =>
    \A c \in CVars :
      Agreed(c) =>
        /\ AllSay(c, wanted[c])
        /\ (\A f \in Files : c \notin DOMAIN Lasting[f]) => wanted[c] = Default[c]

(* The menu and the files agree on a cvar that only the menu sets. *)
MenuSays ==
  ~disturbed /\ menuOnly =>
    \A c \in MenuCVars : Agreed(c) /\ (value[c] # Absent => AllSay(c, value[c]))

EditsInvariant ==
  /\ EditsTypeOK
  /\ PhasesInOrder
  /\ FileHoldsEntries
  /\ NoneUnknown
  /\ HeldForRegistration
  /\ NothingCut
  /\ WantedLasts
  /\ MenuSays
=============================================================================
