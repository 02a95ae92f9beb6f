------------------------------ MODULE PanelDraw ------------------------------
(***************************************************************************)
(* What the panel draws (extension/host/panel.ts, viewstate.ts): the graph *)
(* of a file under a set of profiles, its findings, the pane of the        *)
(* selection, and the stored view they are drawn from.                     *)
(*                                                                         *)
(* The extension host is one thread, and an action is one stretch of a     *)
(* handler between two awaits.  The core answers reads concurrently        *)
(* (Serve), so two requests may be answered in either order.               *)
(***************************************************************************)
EXTENDS Integers, Sequences, FiniteSets, SequencesExt

CONSTANTS Files, Profiles,
          Nodes,        \* what may be selected, Stack (null) among them
          Stack,
          Follow,       \* [Nodes -> requests an inspection makes after its first]
          Inspectors,   \* inspections that may be waiting together
          Drawn,        \* and the one a draw ends with
          None,
          MaxActs, MaxSwitches, MaxChanges, MaxFails      \* bounds

\* A draw between two of its awaits.
Draws == [at : {"topology", "diagnose", "pane"}, file : Files, set : SUBSET Profiles]

ASSUME DrawAssumption == /\ Stack \in Nodes /\ Follow \in [Nodes -> Nat]
                         /\ Drawn \notin Inspectors /\ None \notin Draws
                         /\ {MaxActs, MaxSwitches, MaxChanges, MaxFails} \subseteq Nat

VARIABLES
  file,       \* StackPanel.file
  content,    \* [Files -> which of its contents a file has]
  stored,     \* ViewStateStore: [Files -> [profiles, positions, selected]]
  writes,     \* ViewStateStore.writes, the read-modify-writes to be done
  drawing,    \* the draw that runs, or None
  queued, fresh, unseen,
  drawn,      \* StackPanel.graph and drawnProfiles: [set, content]
  findings,   \* the set of profiles they are about
  declared,   \* declaredProfiles is known
  selection,
  inspecting, \* [Inspectors \cup {Drawn} -> an inspection that waits, or None]
  screen,     \* what the webview shows
  asked,      \* history: [Files -> the view the reader last asked for]
  missed,     \* history: a change told within REDRAW_DEDUPE_MS of a redraw
  failed,     \* history: the last draw was refused; the last schema was
  acts, switches, changes, fails

bounds == <<acts, switches, changes, fails>>
store  == <<stored, writes, asked>>
panel  == <<file, drawing, queued, fresh, drawn, findings, declared, selection, inspecting>>
vars   == <<panel, store, content, unseen, screen, missed, failed, bounds>>

EmptyView == [profiles |-> {}, positions |-> 0, selected |-> Stack]

Asking(f, set) == [at |-> "topology", file |-> f, set |-> set]

Init ==
  /\ file \in Files
  /\ content = [f \in Files |-> 0]
  /\ stored = [f \in Files |-> EmptyView] /\ asked = stored
  /\ writes = <<>>
  /\ drawing = Asking(file, {})
  /\ queued = FALSE /\ fresh = TRUE /\ unseen = FALSE
  /\ drawn = [set |-> {}, content |-> 0] /\ findings = {} /\ declared = FALSE
  /\ selection = Stack
  /\ inspecting = [i \in Inspectors \cup {Drawn} |-> None]
  /\ screen = [set |-> {}, content |-> 0, badges |-> {}, pressed |-> {}, pane |-> Stack]
  /\ missed = FALSE /\ failed = [draw |-> FALSE, pane |-> FALSE]
  /\ acts = 0 /\ switches = 0 /\ changes = 0 /\ fails = 0

-----------------------------------------------------------------------------
(* draw(), up to its first await.                                          *)
StartDraw(f) ==
  IF drawing # None THEN queued' = TRUE /\ UNCHANGED <<drawing, fresh, missed>>
  ELSE /\ drawing' = Asking(f, stored'[f].profiles)
       /\ fresh' = TRUE /\ missed' = FALSE
       /\ UNCHANGED queued

(* draw()'s finally: the redraw that was asked for meanwhile.              *)
DropQueued == /\ queued' = FALSE /\ drawing' = None
              /\ UNCHANGED <<fresh, missed>>
EndDraw == /\ queued' = FALSE
           /\ IF queued THEN /\ drawing' = Asking(file, stored[file].profiles)
                             /\ fresh' = TRUE /\ missed' = FALSE
              ELSE drawing' = None /\ UNCHANGED <<fresh, missed>>

Await(at) == /\ drawing' = [drawing EXCEPT !.at = at]
             /\ UNCHANGED <<queued, fresh, missed>>

(* The graph. An answer about a file that is no longer shown is dropped.   *)
Topology ==
  /\ drawing # None /\ drawing.at = "topology"
  /\ IF drawing.file # file THEN EndDraw /\ UNCHANGED drawn
     ELSE /\ drawn' = [set |-> drawing.set, content |-> content[file]]
          /\ Await("diagnose")
  /\ UNCHANGED <<file, findings, declared, selection, inspecting, store, content,
                 unseen, screen, failed, bounds>>

(* The set diagnose is asked about: the one the graph was drawn for.       *)
StoredSet == stored[drawing.file].profiles
DiagnosedSet == drawing.set

(* An inspection, up to its first await.                                   *)
Inspection(id) == [at |-> "schema", file |-> file, id |-> id, left |-> Follow[id]]

(* The findings, the graph on screen, and the pane of what is selected.    *)
Diagnose ==
  /\ drawing # None /\ drawing.at = "diagnose"
  /\ findings' = DiagnosedSet
  /\ IF drawing.file # file THEN EndDraw /\ UNCHANGED <<screen, selection, inspecting, failed>>
     ELSE LET id == stored[file].selected IN
          /\ screen' = [screen EXCEPT !.set = drawn.set, !.content = drawn.content,
                                      !.badges = findings']
          /\ selection' = id
          /\ inspecting' = [inspecting EXCEPT ![Drawn] = Inspection(id)]
          /\ failed' = [failed EXCEPT !.draw = FALSE]
          /\ Await("pane")
  /\ UNCHANGED <<file, drawn, declared, store, content, unseen, bounds>>

(* resyncProfiles: the control goes back to the picture that is up.        *)
Resynced == IF declared THEN [screen EXCEPT !.pressed = drawn.set] ELSE screen

DrawFails ==
  /\ drawing # None /\ drawing.at = "topology" /\ fails < MaxFails
  /\ fails' = fails + 1
  /\ IF drawing.file # file THEN UNCHANGED <<screen, failed>>
     ELSE screen' = Resynced /\ failed' = [failed EXCEPT !.draw = TRUE]
  /\ EndDraw
  /\ UNCHANGED <<file, drawn, findings, declared, selection, inspecting, store, content,
                 unseen, acts, switches, changes>>

-----------------------------------------------------------------------------
Ended(i) == /\ inspecting' = [inspecting EXCEPT ![i] = None]
            /\ IF i = Drawn THEN EndDraw ELSE UNCHANGED <<drawing, queued, fresh, missed>>

Goes(i) == /\ inspecting' = [inspecting EXCEPT ![i].at = "more", ![i].left =
                               IF inspecting[i].at = "schema" THEN @ ELSE @ - 1]
           /\ UNCHANGED <<drawing, queued, fresh, missed>>

(* inspect(): an answer of the core. The first one carries the profiles    *)
(* the control offers; the pane is posted after the last.                  *)
Inspect(i) ==
  LET on == inspecting[i]
      last == on.left = IF on.at = "schema" THEN 0 ELSE 1
      control == IF on.at = "schema" THEN [screen EXCEPT !.pressed = drawn.set] ELSE screen
  IN  /\ on # None
      /\ IF on.file # file THEN Ended(i) /\ UNCHANGED <<screen, declared, failed>>
         ELSE /\ declared' = TRUE
              /\ failed' = IF on.at = "schema" THEN [failed EXCEPT !.pane = FALSE] ELSE failed
              /\ IF last THEN /\ Ended(i)
                              /\ screen' = [control EXCEPT !.pane = on.id]
                 ELSE Goes(i) /\ screen' = control
      /\ UNCHANGED <<file, drawn, findings, selection, store, content, unseen, bounds>>

(* The schema is refused: the pane says so, under the same name.           *)
InspectFails(i) ==
  /\ inspecting[i] # None /\ inspecting[i].at = "schema" /\ fails < MaxFails
  /\ fails' = fails + 1
  /\ Ended(i)
  /\ IF inspecting[i].file # file THEN UNCHANGED <<screen, failed>>
     ELSE /\ screen' = [screen EXCEPT !.pane = inspecting[i].id]
          /\ failed' = [failed EXCEPT !.pane = TRUE]
  /\ UNCHANGED <<file, drawn, findings, declared, selection, store, content, unseen,
                 acts, switches, changes>>

-----------------------------------------------------------------------------
(* ViewStateStore.update: the whole view is read, and written back with    *)
(* one field changed when the Memento's promise settles.                   *)
Write(field, value, then) ==
  [file |-> file, field |-> field, value |-> value, then |-> then, read |-> None]

Queued(ws) == /\ writes' = writes \o ws
              /\ asked' = [asked EXCEPT ![file] = [f \in DOMAIN @ |->
                    IF \E w \in Range(ws) : w.field = f
                    THEN (CHOOSE w \in Range(ws) : w.field = f).value ELSE @[f]]]
              /\ UNCHANGED stored

(* The promise chain: a write begins when the one before it has settled.   *)
AnyTurn(i) == TRUE
Turn(i) == i = 1

BeginWrite(i) ==
  /\ Turn(i) /\ writes[i].read = None
  /\ writes' = [writes EXCEPT ![i].read = stored[writes[i].file]]
  /\ UNCHANGED <<stored, asked, panel, content, unseen, screen, missed, failed, bounds>>

(* And what its caller does next: a changed set is drawn, a selection is   *)
(* inspected.                                                              *)
EndWrite(i) ==
  LET w == writes[i] IN
  /\ w.read # None
  /\ stored' = [stored EXCEPT ![w.file] = [w.read EXCEPT ![w.field] = w.value]]
  /\ writes' = RemoveAt(writes, i)
  /\ IF w.then = "draw" /\ w.read.profiles # w.value THEN StartDraw(file)
     ELSE UNCHANGED <<drawing, queued, fresh, missed>>
  /\ IF w.then # "inspect" THEN UNCHANGED inspecting
     ELSE \E n \in Inspectors : /\ inspecting[n] = None
                                /\ inspecting' = [inspecting EXCEPT ![n] = Inspection(w.value)]
  /\ UNCHANGED <<file, drawn, findings, declared, selection, asked, content, unseen,
                 screen, failed, bounds>>

(* The Memento refuses: the handler's catch says so and puts the control   *)
(* back.                                                                   *)
WriteFails ==
  /\ writes # <<>> /\ writes[1].read # None /\ fails < MaxFails
  /\ fails' = fails + 1
  /\ writes' = Tail(writes)
  /\ asked' = [asked EXCEPT ![writes[1].file][writes[1].field] =
       IF \E w \in Range(Tail(writes)) : w.file = writes[1].file /\ w.field = writes[1].field
       THEN @ ELSE stored[writes[1].file][writes[1].field]]
  /\ screen' = Resynced
  /\ UNCHANGED <<panel, stored, content, unseen, missed, failed, acts, switches, changes>>

-----------------------------------------------------------------------------
(* The reader.                                                             *)
Acts == acts < MaxActs /\ acts' = acts + 1 /\ UNCHANGED <<switches, changes, fails>>

(* A toggle posts where the nodes are, and then the set.                   *)
Toggle(p) ==
  LET set == IF p \in screen.pressed THEN screen.pressed \ {p} ELSE screen.pressed \cup {p}
  IN  /\ Acts
      /\ screen' = [screen EXCEPT !.pressed = set]
      /\ Queued(<<Write("positions", asked[file].positions, "nothing"),
                  Write("profiles", set, "draw")>>)
      /\ UNCHANGED <<panel, content, unseen, missed, failed>>

Drag == /\ Acts
        /\ Queued(<<Write("positions", asked[file].positions + 1, "nothing")>>)
        /\ UNCHANGED <<panel, content, unseen, screen, missed, failed>>

Select(id) ==
  /\ Acts
  /\ selection' = id
  /\ Queued(<<Write("selected", id, "inspect")>>)
  /\ UNCHANGED <<file, drawing, queued, fresh, drawn, findings, declared, inspecting,
                 content, unseen, screen, missed, failed>>

SetFile(f) ==
  /\ f # file /\ switches < MaxSwitches /\ switches' = switches + 1
  /\ file' = f /\ findings' = {} /\ declared' = FALSE /\ unseen' = FALSE
  /\ UNCHANGED stored
  /\ StartDraw(f)
  /\ UNCHANGED <<drawn, selection, inspecting, writes, asked, content, screen, failed,
                 acts, changes, fails>>

(* The file changes on disk, and the panel is told.                        *)
Change == /\ changes < MaxChanges /\ changes' = changes + 1
          /\ content' = [content EXCEPT ![file] = @ + 1]
          /\ unseen' = TRUE
          /\ UNCHANGED <<panel, store, screen, missed, failed, acts, switches, fails>>

SourceChanged ==
  /\ unseen /\ unseen' = FALSE
  /\ UNCHANGED <<file, stored>>
  /\ IF fresh THEN missed' = TRUE /\ UNCHANGED <<drawing, queued, fresh>> ELSE StartDraw(file)
  /\ UNCHANGED <<drawn, findings, declared, selection, inspecting, writes, asked, content,
                 screen, failed, bounds>>

(* REDRAW_DEDUPE_MS after a redraw began.                                  *)
WindowCloses == /\ fresh /\ fresh' = FALSE
                /\ UNCHANGED <<file, drawing, queued, drawn, findings, declared, selection,
                               inspecting, store, content, unseen, screen, missed, failed,
                               bounds>>

Next ==
  \/ Topology \/ Diagnose \/ DrawFails
  \/ \E i \in Inspectors \cup {Drawn} : Inspect(i) \/ InspectFails(i)
  \/ \E i \in DOMAIN writes : BeginWrite(i) \/ EndWrite(i)
  \/ WriteFails
  \/ \E p \in Profiles : Toggle(p)
  \/ Drag \/ (\E id \in Nodes : Select(id)) \/ (\E f \in Files : SetFile(f))
  \/ Change \/ SourceChanged \/ WindowCloses

Spec == Init /\ [][Next]_vars
-----------------------------------------------------------------------------
Quiet == /\ drawing = None /\ writes = <<>> /\ ~unseen
         /\ \A i \in Inspectors \cup {Drawn} : inspecting[i] = None

(* The stored view of every file is the one the reader last asked for, in  *)
(* each of its fields, when the writes have settled: none puts back what   *)
(* another one changed.                                                    *)
ViewKept == writes = <<>> => stored = asked

(* The findings on the nodes are of the set of profiles the graph is of,   *)
(* at all times. When nothing is under way the buttons are too, that set   *)
(* is the stored one, and the graph is of the file as it is: unless the    *)
(* last draw failed, which the pane says, or a change was told within      *)
(* REDRAW_DEDUPE_MS of the start of a redraw.                              *)
ScreenAgrees ==
  /\ screen.badges = screen.set
  /\ Quiet /\ ~failed.draw =>
       /\ screen.set = stored[file].profiles
       /\ ~failed.pane => screen.pressed = screen.set
       /\ missed \/ screen.content = content[file]

(* "The pane is never left empty and never left stale" (panel.ts:829): it  *)
(* is about the selection when nothing is under way.                       *)
PaneShowsSelection == Quiet => screen.pane = selection
=============================================================================
