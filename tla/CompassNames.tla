---------------------------- MODULE CompassNames ----------------------------
(***************************************************************************)
(* CompassOverhaul: the plugin notes the localized name of every objective *)
(* mark the quest log adds to the compass, and pushes the whole table to   *)
(* an overlay it injects into the HUD's movie.  The overlay's script looks *)
(* at the table once per frame and reads it again when its LENGTH changed. *)
(* The movie comes and goes (it is unloaded during the intro), and marks   *)
(* may be added while there is none.                                       *)
(*                                                                         *)
(* A table is the set of the marks it names: a mark's id is the next value *)
(* of a counter (C_CompassMark.h), so that no name is ever replaced.       *)
(***************************************************************************)
EXTENDS Naturals, FiniteSets

CONSTANT MaxMarks

VARIABLES
  marks,      \* the counter of mark ids
  live,       \* the marks on the compass (m_marks)
  names,      \* g_objectiveNames
  overlay,    \* _root.compassOverlay: "no movie", "absent", "empty" or "running"
  co_names,   \* the array in the overlay's clip; {} also when there is none
  namesTable, \* what the overlay's script last read from it
  titled      \* not kept by the program: the marks of objectives with a name

compassVars == <<marks, live, names, overlay, co_names, namesTable, titled>>
-----------------------------------------------------------------------------
CompassInit ==
  /\ marks = 0 /\ live = {} /\ names = {} /\ titled = {}
  /\ overlay = "no movie" /\ co_names = {} /\ namesTable = {}

(* Mutant: the table drops the marks that are gone.                         *)
PruningNamed(added) == (names \cap live) \cup added

Named(added) == names \cup added

(* The quest log adds one or two marks.  Without a name to show nothing is  *)
(* noted; without a clip the push has no effect, and the name waits for the *)
(* injection.                                                               *)
AddObjectiveCompassMarkers ==
  \E n \in 1..2, named \in BOOLEAN :
    LET added == (marks + 1)..(marks + n) IN
    /\ marks + n <= MaxMarks
    /\ marks' = marks + n
    /\ live' = live \cup added
    /\ IF named
       THEN /\ names' = Named(added)
            /\ titled' = titled \cup added
            /\ co_names' = IF overlay \in {"empty", "running"} THEN names' ELSE co_names
       ELSE UNCHANGED <<names, titled, co_names>>
    /\ UNCHANGED <<overlay, namesTable>>

(* CFlashUIElement::Init, for the HUD: the movie is there, and gets the     *)
(* overlay unless it has one.  No clip can be made, or loadMovie is refused *)
(* and the clip stays empty; a load that was queued is carried out at once, *)
(* and only then, as it replaces what is in the clip, the table is pushed.  *)
(* A file that is not there leaves the clip as it is.  An empty clip counts *)
(* as an overlay: it is not tried again.                                    *)
InitHud ==
  /\ overlay \in {"no movie", "absent"}
  /\ namesTable' = {}
  /\ \/ overlay' \in {"absent", "empty"} /\ co_names' = {}
     \/ overlay' \in {"empty", "running"} /\ co_names' = names
  /\ UNCHANGED <<marks, live, names, titled>>

(* The overlay's onEnterFrame, of which the labels are left out.            *)
EnterFrame ==
  /\ overlay = "running"
  /\ Cardinality(co_names) # Cardinality(namesTable)
  /\ namesTable' = co_names
  /\ UNCHANGED <<marks, live, names, overlay, co_names, titled>>
-----------------------------------------------------------------------------
(* The game: marks of places and their like, marks that go, the movie       *)
(* unloaded with everything in it.                                          *)
AddOtherMark ==
  /\ marks < MaxMarks
  /\ marks' = marks + 1
  /\ live' = live \cup {marks + 1}
  /\ UNCHANGED <<names, overlay, co_names, namesTable, titled>>

RemoveMark ==
  /\ \E k \in live : live' = live \ {k}
  /\ UNCHANGED <<marks, names, overlay, co_names, namesTable, titled>>

UnloadHud ==
  /\ overlay # "no movie"
  /\ overlay' = "no movie" /\ co_names' = {} /\ namesTable' = {}
  /\ UNCHANGED <<marks, live, names, titled>>

CompassNext ==
  \/ AddObjectiveCompassMarkers \/ InitHud \/ EnterFrame
  \/ AddOtherMark \/ RemoveMark \/ UnloadHud

CompassSpec == CompassInit /\ [][CompassNext]_compassVars
-----------------------------------------------------------------------------
(* "Both arrays only ever grow, so a length change is the reparse signal"   *)
(* (compass.as): when a frame has nothing to read, the running overlay has  *)
(* the names of just those marks on the compass that belong to objectives,  *)
(* whether they came before the movie, between two movies or after marks of *)
(* finished objectives went.                                                *)
LabelsCurrent ==
  (overlay = "running" /\ Cardinality(co_names) = Cardinality(namesTable)) =>
    live \cap namesTable = live \cap titled
=============================================================================
