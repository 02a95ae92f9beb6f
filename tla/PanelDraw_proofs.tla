-------------------------- MODULE PanelDraw_proofs --------------------------
(***************************************************************************)
(* Proofs about PanelDraw, for any number of files, profiles and nodes,    *)
(* and with no bound on what the reader does.                              *)
(*                                                                         *)
(* Neither invariant is inductive.  ViewKept needs what a queue that is    *)
(* not empty will still write (QueueInv).  ScreenAgrees needs what each    *)
(* stretch of a draw has established when the next one starts, and what a  *)
(* redraw that is queued makes up for (DrawInv).                           *)
(***************************************************************************)
EXTENDS PanelDraw, FiniteSetTheorems, TLAPS

Fields == {"profiles", "positions", "selected"}

Views == [profiles : SUBSET Profiles, positions : Nat, selected : Nodes]

\* What may wait in the queue: the value is the field's, and only a set of
\* profiles is followed by a draw, only a selection by an inspection.
Pending ==
  [file : Files, field : {"profiles"}, value : SUBSET Profiles, then : {"draw"},
   read : Views \cup {None}]
    \cup
  [file : Files, field : {"positions"}, value : Nat, then : {"nothing"},
   read : Views \cup {None}]
    \cup
  [file : Files, field : {"selected"}, value : Nodes, then : {"inspect"},
   read : Views \cup {None}]

Inspections == [at : {"schema", "more"}, file : Files, id : Nodes, left : Int]

Screens == [set : SUBSET Profiles, content : Int, badges : SUBSET Profiles,
            pressed : SUBSET Profiles, pane : Nodes]

DrawTypes ==
  /\ file \in Files
  /\ stored \in [Files -> Views] /\ asked \in [Files -> Views]
  /\ writes \in Seq(Pending)
  /\ drawing \in Draws \cup {None}
  /\ queued \in BOOLEAN /\ declared \in BOOLEAN /\ unseen \in BOOLEAN /\ missed \in BOOLEAN
  /\ drawn \in [set : SUBSET Profiles, content : Int]
  /\ content \in [Files -> Int]
  /\ inspecting \in [Inspectors \cup {Drawn} -> Inspections \cup {None}]
  /\ screen \in Screens
  /\ failed \in [draw : BOOLEAN, pane : BOOLEAN]

Of(w, f, field) == w.file = f /\ w.field = field

\* Only the first write has begun, and what it read is what is stored.  A field
\* is stored as it was last asked for, or the last write of it that waits has
\* that value.
QueueInv ==
  /\ \A i \in 1..Len(writes) :
       writes[i].read # None => i = 1 /\ writes[1].read = stored[writes[1].file]
  /\ \A f \in Files, field \in Fields :
       \/ /\ asked[f][field] = stored[f][field]
          /\ \A i \in 1..Len(writes) : ~Of(writes[i], f, field)
       \/ \E i \in 1..Len(writes) :
            /\ Of(writes[i], f, field) /\ writes[i].value = asked[f][field]
            /\ \A j \in 1..Len(writes) : j > i => ~Of(writes[j], f, field)

\* The draw that runs, when nothing asked for another one.
Current(at) == drawing # None /\ drawing.at = at /\ ~queued

\* What a draw is for: the file on screen and its stored set.
PurposeInv ==
  /\ drawing # None /\ ~queued => drawing.file = file /\ drawing.set = stored[file].profiles
  /\ drawing # None /\ drawing.at # "topology" => drawn.set = drawing.set

\* A draw that ends with an inspection is waiting for it, and nothing else is.
PaneInv ==
  /\ inspecting[Drawn] # None => drawing # None /\ drawing.at = "pane"
  /\ drawing # None /\ drawing.at = "pane" =>
       inspecting[Drawn] \in Inspections /\ inspecting[Drawn].file = drawing.file

\* Which draw the picture is of.
PictureInv ==
  /\ screen.badges = screen.set
  /\ drawing # None /\ drawing.at = "pane" => screen.set = drawing.set
  /\ drawing = None /\ ~failed.draw => screen.set = drawn.set /\ screen.set = stored[file].profiles

\* Of which content.
ContentInv ==
  ~unseen /\ ~missed =>
    /\ Current("diagnose") => drawn.content = content[file]
    /\ Current("pane") \/ (drawing = None /\ ~failed.draw) => screen.content = content[file]

\* What the buttons show: the graph's set, or the one the last waiting write of
\* it will store.
Pressed ==
  /\ declared
  /\ \/ screen.pressed = drawn.set
     \/ /\ screen.pressed = asked[file].profiles
        /\ \E i \in 1..Len(writes) : Of(writes[i], file, "profiles")

\* Once a draw's inspection has answered for them.
ButtonsInv ==
  (drawing = None \/ (Current("pane") /\ inspecting[Drawn].at = "more"))
    /\ ~failed.draw /\ ~failed.pane => Pressed

RedrawInv == PurposeInv /\ PaneInv /\ PictureInv /\ ContentInv /\ ButtonsInv

DrawInv == DrawTypes /\ QueueInv /\ RedrawInv
-----------------------------------------------------------------------------
(* Types.                                                                  *)

LEMMA EmptyIsView == EmptyView \in Views
BY DrawAssumption DEF EmptyView, Views

LEMMA InitTypes == Init => DrawTypes
<1> SUFFICES ASSUME Init PROVE DrawTypes
  OBVIOUS
<1>1. Asking(file, {}) \in Draws
  BY DEF Init, Asking, Draws
<1>2. stored \in [Files -> Views] /\ asked \in [Files -> Views]
  BY EmptyIsView DEF Init
<1>3. writes \in Seq(Pending)
  BY DEF Init
<1>4. inspecting \in [Inspectors \cup {Drawn} -> Inspections \cup {None}]
  BY DEF Init
<1>5. screen \in Screens
  BY DrawAssumption DEF Init, Screens
<1>6. /\ drawn \in [set : SUBSET Profiles, content : Int] /\ content \in [Files -> Int]
      /\ failed \in [draw : BOOLEAN, pane : BOOLEAN]
  BY DEF Init
<1>7. drawing \in Draws \cup {None} /\ file \in Files
  BY <1>1 DEF Init
<1>8. queued \in BOOLEAN /\ declared \in BOOLEAN /\ unseen \in BOOLEAN /\ missed \in BOOLEAN
  BY DEF Init
<1> QED BY <1>2, <1>3, <1>4, <1>5, <1>6, <1>7, <1>8 DEF DrawTypes

\* The draw and what is remembered about the next one.
DrawingTypes == drawing \in Draws \cup {None} /\ queued \in BOOLEAN /\ missed \in BOOLEAN

LEMMA StartTypes ==
  ASSUME DrawTypes, stored' \in [Files -> Views], NEW f \in Files, StartDraw(f)
  PROVE  DrawingTypes'
<1>1. Asking(f, stored'[f].profiles) \in Draws
  BY DEF Asking, Draws, Views
<1> QED BY <1>1 DEF StartDraw, DrawTypes, DrawingTypes

LEMMA EndTypes == ASSUME DrawTypes, EndDraw PROVE DrawingTypes'
<1>1. Asking(file, stored[file].profiles) \in Draws
  BY DEF DrawTypes, Asking, Draws, Views
<1> QED BY <1>1 DEF EndDraw, DrawTypes, DrawingTypes

LEMMA AwaitTypes ==
  ASSUME DrawTypes, drawing # None, NEW at \in {"diagnose", "pane"}, Await(at)
  PROVE  DrawingTypes' /\ drawing' \in Draws /\ drawing' = [drawing EXCEPT !.at = at]
BY DEF Await, DrawTypes, DrawingTypes, Draws

LEMMA InspectionTypes ==
  ASSUME DrawTypes, NEW id \in Nodes PROVE Inspection(id) \in Inspections
BY DrawAssumption DEF Inspection, Inspections, DrawTypes

\* A write settles.
LEMMA WriteTypes ==
  ASSUME NEW w \in Pending, w.read # None
  PROVE  /\ w.file \in Files /\ w.read \in Views
         /\ [w.read EXCEPT ![w.field] = w.value] \in Views
         /\ w.then = "draw" => w.field = "profiles" /\ w.value \in SUBSET Profiles
         /\ w.then = "inspect" => w.value \in Nodes
BY DEF Pending, Views

LEMMA FirstRemoved ==
  ASSUME NEW S, NEW s \in Seq(S), s # <<>>
  PROVE  /\ RemoveAt(s, 1) = Tail(s) /\ Tail(s) \in Seq(S) /\ Len(Tail(s)) = Len(s) - 1
         /\ \A i \in 1..Len(Tail(s)) : Tail(s)[i] = s[i + 1]
<1>1. SubSeq(s, 1, 1 - 1) = <<>> /\ SubSeq(s, 1 + 1, Len(s)) = Tail(s)
  OBVIOUS
<1>2. /\ Tail(s) \in Seq(S) /\ Len(Tail(s)) = Len(s) - 1
      /\ \A i \in 1..Len(Tail(s)) : Tail(s)[i] = s[i + 1]
  OBVIOUS
<1>3. <<>> \o Tail(s) = Tail(s)
  BY <1>2
<1>4. RemoveAt(s, 1) = Tail(s)
  BY <1>1, <1>3 DEF RemoveAt
<1> QED BY <1>2, <1>4

LEMMA RangeAsSet ==
  ASSUME NEW S, NEW s \in Seq(S)
  PROVE  Range(s) = {s[i] : i \in 1..Len(s)}
<1>1. DOMAIN s = 1..Len(s)
  OBVIOUS
<1> QED BY <1>1 DEF Range

LEMMA FieldsOfView ==
  ASSUME NEW v \in Views
  PROVE  DOMAIN v = Fields /\ v["profiles"] \in SUBSET Profiles /\ v["positions"] \in Nat
         /\ v["selected"] \in Nodes
BY DEF Views, Fields

LEMMA ViewOfFields ==
  ASSUME NEW v, DOMAIN v = Fields, v = [f \in Fields |-> v[f]],
         v["profiles"] \in SUBSET Profiles, v["positions"] \in Nat, v["selected"] \in Nodes
  PROVE  v \in Views
BY DEF Views, Fields

\* What a handler asks the store to do: every field asked for is appended to the
\* queue, and the view asked for is changed in those fields alone.
LEMMA QueuedMeans ==
  ASSUME DrawTypes, NEW ws \in Seq(Pending), Queued(ws),
         \A k \in 1..Len(ws) : ws[k].file = file,
         \A k, l \in 1..Len(ws) : ws[k].field = ws[l].field => k = l
  PROVE  /\ writes' = writes \o ws /\ writes' \in Seq(Pending) /\ stored' = stored
         /\ asked' \in [Files -> Views]
         /\ \A k \in 1..Len(ws) : asked'[file][ws[k].field] = ws[k].value
         /\ \A f \in Files, field \in Fields :
              (\A k \in 1..Len(ws) : ~Of(ws[k], f, field)) => asked'[f][field] = asked[f][field]
<1> DEFINE asks(field) == \E w \in Range(ws) : w.field = field
           value(field) == (CHOOSE w \in Range(ws) : w.field = field).value
           view == [f \in Fields |-> IF asks(f) THEN value(f) ELSE asked[file][f]]
<1>1. file \in Files /\ asked[file] \in Views /\ asked \in [Files -> Views]
  BY DEF DrawTypes
<1>2. asked' = [asked EXCEPT ![file] = view]
  BY <1>1, FieldsOfView DEF Queued
<1>3. Range(ws) = {ws[k] : k \in 1..Len(ws)}
  BY RangeAsSet
<1>4. \A k \in 1..Len(ws) : asks(ws[k].field) /\ value(ws[k].field) = ws[k].value
  <2> SUFFICES ASSUME NEW k \in 1..Len(ws)
               PROVE  asks(ws[k].field) /\ value(ws[k].field) = ws[k].value
    OBVIOUS
  <2>1. ws[k] \in Range(ws) /\ \A w \in Range(ws) : w.field = ws[k].field => w = ws[k]
    BY <1>3
  <2> QED BY <2>1
<1>5. \A field : asks(field) => \E k \in 1..Len(ws) : ws[k].field = field
  BY <1>3
<1>6. \A k \in 1..Len(ws) : ws[k] \in Pending
  OBVIOUS
<1>7. view \in Views
  <2>1. \A field \in Fields : asks(field) =>
          /\ field = "profiles" => value(field) \in SUBSET Profiles
          /\ field = "positions" => value(field) \in Nat
          /\ field = "selected" => value(field) \in Nodes
    <3> SUFFICES ASSUME NEW field \in Fields, asks(field)
                 PROVE  /\ field = "profiles" => value(field) \in SUBSET Profiles
                        /\ field = "positions" => value(field) \in Nat
                        /\ field = "selected" => value(field) \in Nodes
      OBVIOUS
    <3>1. PICK k \in 1..Len(ws) : ws[k].field = field
      BY <1>5
    <3>2. value(field) = ws[k].value /\ ws[k] \in Pending
      BY <1>4, <1>6, <3>1
    <3> HIDE DEF value
    <3> QED BY <3>1, <3>2 DEF Pending
  <2>2. /\ view["profiles"] \in SUBSET Profiles /\ view["positions"] \in Nat
        /\ view["selected"] \in Nodes
    BY <1>1, <2>1, FieldsOfView DEF Fields
  <2>3. DOMAIN view = Fields /\ view = [f \in Fields |-> view[f]]
    OBVIOUS
  <2> HIDE DEF view
  <2> QED BY <2>2, <2>3, ViewOfFields
<1>8. \A k \in 1..Len(ws) : ws[k].field \in Fields
  BY <1>6 DEF Pending, Fields
<1>9. asked' \in [Files -> Views] /\ asked'[file] = view /\ \A f \in Files : f # file => asked'[f] = asked[f]
  BY <1>1, <1>2, <1>7
<1>10. \A f \in Files, field \in Fields :
         (\A k \in 1..Len(ws) : ~Of(ws[k], f, field)) => asked'[f][field] = asked[f][field]
  <2> SUFFICES ASSUME NEW f \in Files, NEW field \in Fields,
                      \A k \in 1..Len(ws) : ~Of(ws[k], f, field)
               PROVE  asked'[f][field] = asked[f][field]
    OBVIOUS
  <2>1. CASE f = file
    <3>1. ~asks(field)
      BY <1>5, <2>1 DEF Of
    <3>2. view[field] = asked[file][field]
      BY <3>1
    <3> HIDE DEF view
    <3> QED BY <1>9, <2>1, <3>2
  <2>2. CASE f # file
    BY <1>9, <2>2
  <2> QED BY <2>1, <2>2
<1>11. writes' = writes \o ws /\ stored' = stored /\ writes \in Seq(Pending)
  BY DEF Queued, DrawTypes
<1>12. \A k \in 1..Len(ws) : asked'[file][ws[k].field] = ws[k].value
  BY <1>4, <1>8, <1>9
<1> HIDE DEF view, value, asks
<1>13. writes' \in Seq(Pending)
  BY <1>11
<1> QED BY <1>9, <1>10, <1>11, <1>12, <1>13

\* The three ways the reader asks for a field.
LEMMA Asks ==
  ASSUME DrawTypes,
         \/ \E p \in Profiles : Toggle(p)
         \/ Drag
         \/ \E id \in Nodes : Select(id)
  PROVE  \E ws \in Seq(Pending) :
           /\ Queued(ws) /\ Len(ws) \in {1, 2}
           /\ \A k \in 1..Len(ws) : ws[k].file = file /\ ws[k].read = None
           /\ \A k, l \in 1..Len(ws) : ws[k].field = ws[l].field => k = l
           /\ \/ screen' = screen /\ \A k \in 1..Len(ws) : ws[k].field # "profiles"
              \/ /\ screen' = [screen EXCEPT !.pressed = ws[2].value]
                 /\ Len(ws) = 2 /\ ws[2].field = "profiles"
<1>1. file \in Files /\ asked[file] \in Views /\ screen \in Screens
  BY DEF DrawTypes
<1>2. ASSUME NEW p \in Profiles, NEW set, Toggle(p),
             set = IF p \in screen.pressed THEN screen.pressed \ {p} ELSE screen.pressed \cup {p}
      PROVE  LET ws == <<Write("positions", asked[file].positions, "nothing"),
                         Write("profiles", set, "draw")>>
             IN  /\ ws \in Seq(Pending) /\ Queued(ws) /\ Len(ws) = 2
                 /\ ws[1].field = "positions" /\ ws[2].field = "profiles"
                 /\ ws[1].file = file /\ ws[2].file = file
                 /\ ws[1].read = None /\ ws[2].read = None
                 /\ screen' = [screen EXCEPT !.pressed = ws[2].value]
  <2>1. set \in SUBSET Profiles
    BY <1>1, <1>2 DEF Screens
  <2>2. /\ Write("positions", asked[file].positions, "nothing") \in Pending
        /\ Write("profiles", set, "draw") \in Pending
    BY <1>1, <2>1 DEF Write, Pending, Views
  <2> QED BY <1>2, <2>2 DEF Toggle, Write
<1>3. ASSUME NEW w \in Pending, Queued(<<w>>), w.file = file, w.read = None, w.field # "profiles",
             screen' = screen
      PROVE  \E ws \in Seq(Pending) :
               /\ Queued(ws) /\ Len(ws) = 1 /\ ws[1] = w
               /\ \A k \in 1..Len(ws) : ws[k] = w /\ k = 1
  <2>1. <<w>> \in Seq(Pending)
    OBVIOUS
  <2>2. Len(<<w>>) = 1 /\ <<w>>[1] = w /\ \A k \in 1..Len(<<w>>) : <<w>>[k] = w /\ k = 1
    OBVIOUS
  <2> QED BY <1>3, <2>1, <2>2
<1>4. CASE \E p \in Profiles : Toggle(p)
  <2>1. PICK p \in Profiles : Toggle(p)
    BY <1>4
  <2>2. PICK ws \in Seq(Pending) :
          /\ Queued(ws) /\ Len(ws) = 2
          /\ ws[1].field = "positions" /\ ws[2].field = "profiles"
          /\ ws[1].file = file /\ ws[2].file = file
          /\ ws[1].read = None /\ ws[2].read = None
          /\ screen' = [screen EXCEPT !.pressed = ws[2].value]
    BY <1>2, <2>1
  <2>3. \A k \in 1..2 : k = 1 \/ k = 2
    OBVIOUS
  <2> QED BY <2>2, <2>3
<1>5. CASE Drag
  <2>1. Write("positions", asked[file].positions + 1, "nothing") \in Pending
    BY <1>1 DEF Write, Pending, Views
  <2> DEFINE w == Write("positions", asked[file].positions + 1, "nothing")
  <2>2. /\ w \in Pending /\ Queued(<<w>>) /\ screen' = screen
        /\ w.file = file /\ w.read = None /\ w.field # "profiles"
    BY <1>5, <2>1 DEF Drag, Write
  <2> HIDE DEF w
  <2>3. PICK ws \in Seq(Pending) : /\ Queued(ws) /\ Len(ws) = 1
                                   /\ \A k \in 1..Len(ws) : ws[k] = w /\ k = 1
    BY <1>3, <2>2
  <2> QED BY <2>2, <2>3
<1>6. CASE \E id \in Nodes : Select(id)
  <2>1. PICK id \in Nodes : Select(id)
    BY <1>6
  <2> DEFINE w == Write("selected", id, "inspect")
  <2>2. /\ w \in Pending /\ Queued(<<w>>) /\ screen' = screen
        /\ w.file = file /\ w.read = None /\ w.field # "profiles"
    BY <1>1, <2>1 DEF Select, Write, Pending
  <2> HIDE DEF w
  <2>3. PICK ws \in Seq(Pending) : /\ Queued(ws) /\ Len(ws) = 1
                                   /\ \A k \in 1..Len(ws) : ws[k] = w /\ k = 1
    BY <1>3, <2>2
  <2> QED BY <2>2, <2>3
<1> QED BY <1>4, <1>5, <1>6

\* A write that settles is the first one, and changes its field and no other.
LEMMA Settles ==
  ASSUME DrawTypes, QueueInv, NEW i \in DOMAIN writes, EndWrite(i)
  PROVE  /\ i = 1 /\ writes # <<>> /\ writes[1] \in Pending /\ writes[1].read = stored[writes[1].file]
         /\ writes[1].read # None
         /\ stored' = [stored EXCEPT ![writes[1].file] = [@ EXCEPT ![writes[1].field] = writes[1].value]]
         /\ stored' \in [Files -> Views]
         /\ writes' = Tail(writes)
<1>1. i \in 1..Len(writes) /\ writes[i] \in Pending /\ writes[i].read # None /\ writes \in Seq(Pending)
  BY DEF EndWrite, DrawTypes
<1>2. i = 1 /\ writes[1].read = stored[writes[1].file] /\ writes # <<>>
  BY <1>1 DEF QueueInv
<1>3. /\ writes[1].file \in Files /\ stored \in [Files -> Views]
      /\ [writes[1].read EXCEPT ![writes[1].field] = writes[1].value] \in Views
  BY <1>1, <1>2, WriteTypes DEF DrawTypes
<1>4. writes' = Tail(writes)
  BY <1>1, <1>2, FirstRemoved DEF EndWrite
<1> QED BY <1>1, <1>2, <1>3, <1>4 DEF EndWrite

\* The queue and the store keep their types.
LEMMA StoreTypes ==
  ASSUME DrawTypes, QueueInv, [Next]_vars
  PROVE  stored' \in [Files -> Views] /\ asked' \in [Files -> Views] /\ writes' \in Seq(Pending)
<1>0. stored \in [Files -> Views] /\ asked \in [Files -> Views] /\ writes \in Seq(Pending)
  BY DEF DrawTypes
<1>1. CASE (\E p \in Profiles : Toggle(p)) \/ Drag \/ \E id \in Nodes : Select(id)
  BY <1>0, <1>1, Asks, QueuedMeans
<1>2. ASSUME NEW i \in DOMAIN writes, BeginWrite(i)
      PROVE  stored' = stored /\ asked' = asked /\ writes' \in Seq(Pending)
  <2>1. i \in 1..Len(writes) /\ writes[i] \in Pending
    BY <1>0
  <2>2. stored[writes[i].file] \in Views
    BY <1>0, <2>1 DEF Pending
  <2>3. [writes[i] EXCEPT !.read = stored[writes[i].file]] \in Pending
    BY <2>1, <2>2 DEF Pending
  <2>4. writes' = [writes EXCEPT ![i] = [writes[i] EXCEPT !.read = stored[writes[i].file]]]
    BY <1>2 DEF BeginWrite
  <2> QED BY <1>0, <1>2, <2>1, <2>3, <2>4 DEF BeginWrite
<1>3. ASSUME NEW i \in DOMAIN writes, EndWrite(i)
      PROVE  stored' \in [Files -> Views] /\ asked' = asked /\ writes' \in Seq(Pending)
  <2>1. /\ writes # <<>> /\ writes' = Tail(writes) /\ stored' \in [Files -> Views]
    BY <1>3, Settles
  <2> QED BY <1>0, <1>3, <2>1 DEF EndWrite
<1>4. CASE WriteFails
  <2>1. writes # <<>> /\ writes' = Tail(writes) /\ stored' = stored
    BY <1>4 DEF WriteFails, panel
  <2>2. writes[1] \in Pending
    BY <1>0, <2>1
  <2> DEFINE f == writes[1].file
             d == writes[1].field
             v == IF \E w \in Range(Tail(writes)) : w.file = f /\ w.field = d
                  THEN asked[f][d] ELSE stored[f][d]
  <2>3. f \in Files /\ d \in Fields /\ asked[f] \in Views /\ stored[f] \in Views
    BY <1>0, <2>2 DEF Pending, Fields
  <2>4. v = asked[f][d] \/ v = stored[f][d]
    OBVIOUS
  <2>5. asked' = [asked EXCEPT ![f] = [asked[f] EXCEPT ![d] = v]]
    BY <1>4 DEF WriteFails
  <2> HIDE DEF f, d, v
  <2>6. [asked[f] EXCEPT ![d] = v] \in Views
    BY <2>3, <2>4 DEF Views, Fields
  <2> QED BY <1>0, <2>1, <2>3, <2>5, <2>6
<1>5. CASE UNCHANGED store
  BY <1>0, <1>5 DEF store
<1> QED
  <2>1. CASE \/ Topology \/ Diagnose \/ DrawFails
             \/ \E i \in Inspectors \cup {Drawn} : Inspect(i) \/ InspectFails(i)
             \/ (\E f \in Files : SetFile(f)) \/ Change \/ SourceChanged \/ WindowCloses
             \/ UNCHANGED vars
    BY <1>5, <2>1 DEF Topology, Diagnose, DrawFails, Inspect, InspectFails, SetFile, Change,
                      SourceChanged, WindowCloses, vars, store
  <2> QED BY <1>0, <1>1, <1>2, <1>3, <1>4, <2>1 DEF Next

LEMMA PanelTypes ==
  ASSUME DrawTypes, QueueInv, Next
  PROVE  /\ file' \in Files /\ DrawingTypes'
         /\ drawn' \in [set : SUBSET Profiles, content : Int] /\ declared' \in BOOLEAN
         /\ inspecting' \in [Inspectors \cup {Drawn} -> Inspections \cup {None}]
<1>0. /\ file \in Files /\ DrawingTypes /\ content[file] \in Int /\ declared \in BOOLEAN
      /\ drawn \in [set : SUBSET Profiles, content : Int]
      /\ inspecting \in [Inspectors \cup {Drawn} -> Inspections \cup {None}]
      /\ drawing # None => drawing \in Draws
      /\ stored' \in [Files -> Views]
  BY StoreTypes DEF DrawTypes, DrawingTypes
<1> DEFINE Same == UNCHANGED <<drawing, queued, missed>>
<1>1. /\ EndDraw => DrawingTypes'
      /\ Same => DrawingTypes'
      /\ \A f \in Files : StartDraw(f) => DrawingTypes'
  BY <1>0, EndTypes, StartTypes DEF DrawingTypes
<1>2. CASE Topology
  <2>1. DrawingTypes'
    BY <1>1, <1>2, AwaitTypes DEF Topology
  <2>2. drawn' \in [set : SUBSET Profiles, content : Int]
    BY <1>0, <1>2 DEF Topology, Draws
  <2> QED BY <1>0, <1>2, <2>1, <2>2 DEF Topology
<1>3. CASE Diagnose
  <2>1. DrawingTypes'
    BY <1>1, <1>3, AwaitTypes DEF Diagnose
  <2>2. stored[file].selected \in Nodes
    BY <1>0 DEF DrawTypes, Views
  <2>3. Inspection(stored[file].selected) \in Inspections
    BY <2>2, InspectionTypes
  <2>4. inspecting' = inspecting \/ inspecting' = [inspecting EXCEPT ![Drawn] = Inspection(stored[file].selected)]
    BY <1>3 DEF Diagnose
  <2> QED BY <1>0, <1>3, <2>1, <2>3, <2>4 DEF Diagnose
<1>4. CASE DrawFails
  BY <1>0, <1>1, <1>4 DEF DrawFails
<1>5. ASSUME NEW i \in Inspectors \cup {Drawn}, Ended(i)
      PROVE  DrawingTypes' /\ inspecting' \in [Inspectors \cup {Drawn} -> Inspections \cup {None}]
  BY <1>0, <1>1, <1>5 DEF Ended
<1>6. ASSUME NEW i \in Inspectors \cup {Drawn}, Goes(i), inspecting[i] # None
      PROVE  DrawingTypes' /\ inspecting' \in [Inspectors \cup {Drawn} -> Inspections \cup {None}]
  <2>1. inspecting[i] \in Inspections
    BY <1>0, <1>6
  <2> DEFINE left == IF inspecting[i].at = "schema" THEN inspecting[i].left ELSE inspecting[i].left - 1
             next == [inspecting[i] EXCEPT !.at = "more", !.left = left]
  <2>2. next \in Inspections
    <3>1. left \in Int
      BY <2>1 DEF Inspections
    <3> HIDE DEF left
    <3> QED BY <2>1, <3>1 DEF Inspections
  <2>3. inspecting' = [inspecting EXCEPT ![i] = next]
    BY <1>0, <1>6 DEF Goes
  <2>4. DrawingTypes'
    BY <1>1, <1>6 DEF Goes
  <2> HIDE DEF next
  <2> QED BY <1>0, <2>2, <2>3, <2>4
<1>7. ASSUME NEW i \in Inspectors \cup {Drawn}, Inspect(i) PROVE
        /\ DrawingTypes' /\ inspecting' \in [Inspectors \cup {Drawn} -> Inspections \cup {None}]
        /\ file' = file /\ drawn' = drawn /\ declared' \in BOOLEAN
  <2>1. Ended(i) \/ (Goes(i) /\ inspecting[i] # None)
    BY <1>7 DEF Inspect
  <2> QED BY <1>0, <1>5, <1>6, <1>7, <2>1 DEF Inspect
<1>8. ASSUME NEW i \in Inspectors \cup {Drawn}, InspectFails(i) PROVE
        /\ DrawingTypes' /\ inspecting' \in [Inspectors \cup {Drawn} -> Inspections \cup {None}]
        /\ file' = file /\ drawn' = drawn /\ declared' = declared
  BY <1>5, <1>8 DEF InspectFails
<1>9. ASSUME NEW i \in DOMAIN writes, EndWrite(i) PROVE
        /\ DrawingTypes' /\ inspecting' \in [Inspectors \cup {Drawn} -> Inspections \cup {None}]
        /\ file' = file /\ drawn' = drawn /\ declared' = declared
  <2>1. i = 1 /\ writes[1] \in Pending /\ writes[1].read # None
    BY <1>9, Settles
  <2>2. DrawingTypes'
    BY <1>0, <1>1, <1>9 DEF EndWrite
  <2>3. CASE writes[1].then = "inspect"
    <3>1. writes[1].value \in Nodes
      BY <2>1, <2>3, WriteTypes
    <3>2. Inspection(writes[1].value) \in Inspections
      BY <3>1, InspectionTypes
    <3>3. \E n \in Inspectors : inspecting' = [inspecting EXCEPT ![n] = Inspection(writes[1].value)]
      BY <1>9, <2>1, <2>3 DEF EndWrite
    <3> QED BY <1>0, <1>9, <2>2, <3>2, <3>3 DEF EndWrite
  <2>4. CASE writes[1].then # "inspect"
    BY <1>0, <1>9, <2>1, <2>2, <2>4 DEF EndWrite
  <2> QED BY <2>3, <2>4
<1>10. CASE \E f \in Files : SetFile(f)
  BY <1>0, <1>1, <1>10 DEF SetFile
<1>11. CASE SourceChanged
  <2>1. StartDraw(file) \/ (UNCHANGED <<drawing, queued>> /\ missed' = TRUE)
    BY <1>11 DEF SourceChanged
  <2>2. DrawingTypes'
    BY <1>0, <1>1, <2>1 DEF DrawingTypes
  <2> QED BY <1>0, <1>11, <2>2 DEF SourceChanged
<1>12. CASE \/ WriteFails \/ (\E i \in DOMAIN writes : BeginWrite(i))
            \/ (\E p \in Profiles : Toggle(p)) \/ Drag \/ (\E id \in Nodes : Select(id))
            \/ Change \/ WindowCloses
  BY <1>0, <1>1, <1>12 DEF WriteFails, BeginWrite, Toggle, Drag, Select, Change, WindowCloses, panel
<1> QED BY <1>2, <1>3, <1>4, <1>7, <1>8, <1>9, <1>10, <1>11, <1>12, <1>0 DEF Next

LEMMA ScreenTypes ==
  ASSUME DrawTypes, QueueInv, Next
  PROVE  /\ screen' \in Screens /\ unseen' \in BOOLEAN
         /\ content' \in [Files -> Int] /\ failed' \in [draw : BOOLEAN, pane : BOOLEAN]
<1>0. /\ screen \in Screens /\ unseen \in BOOLEAN /\ content \in [Files -> Int]
      /\ failed \in [draw : BOOLEAN, pane : BOOLEAN] /\ file \in Files
      /\ drawn.set \in SUBSET Profiles /\ drawn.content \in Int
      /\ drawing # None => drawing.set \in SUBSET Profiles
      /\ \A i \in Inspectors \cup {Drawn} : inspecting[i] # None => inspecting[i].id \in Nodes
  BY DEF DrawTypes, Draws, Inspections
<1>1. Resynced \in Screens
  BY <1>0 DEF Resynced, Screens
<1>2. CASE Diagnose
  BY <1>0, <1>2 DEF Diagnose, DiagnosedSet, Screens
<1>3. CASE DrawFails
  BY <1>0, <1>1, <1>3 DEF DrawFails
<1>4. ASSUME NEW i \in Inspectors \cup {Drawn}, Inspect(i)
      PROVE  /\ screen' \in Screens /\ failed' \in [draw : BOOLEAN, pane : BOOLEAN]
             /\ UNCHANGED <<unseen, content>>
  <2>1. /\ screen' = screen \/ screen' = [screen EXCEPT !.pressed = drawn.set]
           \/ screen' = [screen EXCEPT !.pane = inspecting[i].id]
           \/ screen' = [[screen EXCEPT !.pressed = drawn.set] EXCEPT !.pane = inspecting[i].id]
        /\ inspecting[i] # None
        /\ failed' = failed \/ failed' = [failed EXCEPT !.pane = FALSE]
        /\ UNCHANGED <<unseen, content>>
    BY <1>4 DEF Inspect
  <2> QED BY <1>0, <2>1 DEF Screens
<1>5. ASSUME NEW i \in Inspectors \cup {Drawn}, InspectFails(i)
      PROVE  /\ screen' \in Screens /\ failed' \in [draw : BOOLEAN, pane : BOOLEAN]
             /\ UNCHANGED <<unseen, content>>
  BY <1>0, <1>5 DEF InspectFails, Screens
<1>6. CASE WriteFails
  BY <1>0, <1>1, <1>6 DEF WriteFails
<1>7. CASE (\E p \in Profiles : Toggle(p)) \/ Drag \/ \E id \in Nodes : Select(id)
  <2>1. UNCHANGED <<unseen, content, failed>>
    BY <1>7 DEF Toggle, Drag, Select
  <2>2. PICK ws \in Seq(Pending) :
          \/ screen' = screen
          \/ /\ screen' = [screen EXCEPT !.pressed = ws[2].value]
             /\ Len(ws) = 2 /\ ws[2].field = "profiles"
    BY <1>7, Asks
  <2>3. CASE screen' = screen
    BY <1>0, <2>1, <2>3
  <2>4. CASE screen' = [screen EXCEPT !.pressed = ws[2].value] /\ Len(ws) = 2 /\ ws[2].field = "profiles"
    <3>1. ws[2] \in Pending
      <4>1. Len(ws) = 2 /\ ws \in Seq(Pending)
        BY <2>2, <2>4
      <4>2. \A k \in 1..Len(ws) : ws[k] \in Pending
        BY <4>1
      <4> QED BY <4>1, <4>2
    <3>2. ws[2].value \in SUBSET Profiles
      BY <2>4, <3>1 DEF Pending
    <3> QED BY <1>0, <2>1, <2>4, <3>2 DEF Screens
  <2> QED BY <2>2, <2>3, <2>4
<1>8. CASE Change
  BY <1>0, <1>8 DEF Change
<1>9. CASE \/ Topology \/ (\E i \in DOMAIN writes : BeginWrite(i) \/ EndWrite(i))
           \/ (\E f \in Files : SetFile(f)) \/ SourceChanged \/ WindowCloses
  BY <1>0, <1>9 DEF Topology, BeginWrite, EndWrite, SetFile, SourceChanged, WindowCloses
<1> QED BY <1>0, <1>2, <1>3, <1>4, <1>5, <1>6, <1>7, <1>8, <1>9 DEF Next

LEMMA TypesStep == DrawTypes /\ QueueInv /\ [Next]_vars => DrawTypes'
<1>1. DrawTypes /\ UNCHANGED vars => DrawTypes'
  BY DEF DrawTypes, vars, panel, store
<1>2. DrawTypes /\ QueueInv /\ Next => DrawTypes'
  BY StoreTypes, PanelTypes, ScreenTypes DEF DrawTypes, DrawingTypes
<1> QED BY <1>1, <1>2
-----------------------------------------------------------------------------
(* The stored view.                                                        *)

\* A field is stored as asked, or the last write of it that waits makes it so.
Owed(f, field) ==
  \/ /\ asked[f][field] = stored[f][field]
     /\ \A i \in 1..Len(writes) : ~Of(writes[i], f, field)
  \/ \E i \in 1..Len(writes) :
       /\ Of(writes[i], f, field) /\ writes[i].value = asked[f][field]
       /\ \A j \in 1..Len(writes) : j > i => ~Of(writes[j], f, field)

LEMMA QueueInvOwed ==
  QueueInv <=> /\ \A i \in 1..Len(writes) : writes[i].read # None =>
                    i = 1 /\ writes[1].read = stored[writes[1].file]
               /\ \A f \in Files, field \in Fields : Owed(f, field)
BY DEF QueueInv, Owed

LEMMA Appended ==
  ASSUME NEW S, NEW s \in Seq(S), NEW t \in Seq(S)
  PROVE  /\ s \o t \in Seq(S) /\ Len(s \o t) = Len(s) + Len(t)
         /\ \A i \in 1..Len(s) : (s \o t)[i] = s[i]
         /\ \A k \in 1..Len(t) : Len(s) + k \in 1..Len(s \o t) /\ (s \o t)[Len(s) + k] = t[k]
         /\ \A i \in 1..Len(s \o t) : i \in 1..Len(s) \/ \E k \in 1..Len(t) : i = Len(s) + k
<1>1. s \o t \in Seq(S) /\ Len(s \o t) = Len(s) + Len(t) /\ Len(s) \in Nat /\ Len(t) \in Nat
  OBVIOUS
<1>2. \A i \in 1..Len(s \o t) : i \in 1..Len(s) \/ \E k \in 1..Len(t) : i = Len(s) + k
  <2> SUFFICES ASSUME NEW i \in 1..Len(s) + Len(t), i \notin 1..Len(s)
               PROVE  \E k \in 1..Len(t) : i = Len(s) + k
    BY <1>1
  <2>1. i - Len(s) \in 1..Len(t) /\ i = Len(s) + (i - Len(s))
    BY <1>1
  <2> QED BY <2>1
<1>3. \A i \in 1..Len(s) : (s \o t)[i] = s[i]
  OBVIOUS
<1>4. \A k \in 1..Len(t) : (s \o t)[Len(s) + k] = t[k]
  OBVIOUS
<1>5. \A k \in 1..Len(t) : Len(s) + k \in 1..Len(s) + Len(t)
  BY <1>1
<1> QED BY <1>1, <1>2, <1>3, <1>4, <1>5

LEMMA QueueAsks ==
  ASSUME DrawTypes, QueueInv,
         \/ \E p \in Profiles : Toggle(p)
         \/ Drag
         \/ \E id \in Nodes : Select(id)
  PROVE  QueueInv'
<1>1. PICK ws \in Seq(Pending) :
        /\ Queued(ws)
        /\ \A k \in 1..Len(ws) : ws[k].file = file /\ ws[k].read = None
        /\ \A k, l \in 1..Len(ws) : ws[k].field = ws[l].field => k = l
  BY Asks
<1>2. /\ writes' = writes \o ws /\ stored' = stored
      /\ \A k \in 1..Len(ws) : asked'[file][ws[k].field] = ws[k].value
      /\ \A f \in Files, field \in Fields :
           (\A k \in 1..Len(ws) : ~Of(ws[k], f, field)) => asked'[f][field] = asked[f][field]
  BY <1>1, QueuedMeans
<1>3. /\ writes \in Seq(Pending) /\ ws \in Seq(Pending) /\ Len(writes) \in Nat /\ Len(ws) \in Nat
  BY <1>1 DEF DrawTypes
<1>4. /\ Len(writes') = Len(writes) + Len(ws)
      /\ \A i \in 1..Len(writes) : writes'[i] = writes[i] /\ i \in 1..Len(writes')
      /\ \A k \in 1..Len(ws) : Len(writes) + k \in 1..Len(writes') /\ writes'[Len(writes) + k] = ws[k]
      /\ \A i \in 1..Len(writes') : i \in 1..Len(writes) \/ \E k \in 1..Len(ws) : i = Len(writes) + k
  <2>1. \A i \in 1..Len(writes) : i \in 1..Len(writes) + Len(ws)
    BY <1>3
  <2> QED BY <1>2, <1>3, <2>1, Appended
<1>5. \A i \in 1..Len(writes') : writes'[i].read # None =>
        i = 1 /\ writes'[1].read = stored'[writes'[1].file]
  <2> SUFFICES ASSUME NEW i \in 1..Len(writes'), writes'[i].read # None
               PROVE  i = 1 /\ writes'[1].read = stored'[writes'[1].file]
    OBVIOUS
  <2>1. i \in 1..Len(writes)
    <3> SUFFICES ASSUME NEW k \in 1..Len(ws), i = Len(writes) + k PROVE FALSE
      BY <1>4
    <3>1. writes'[i] = ws[k] /\ ws[k].read = None
      BY <1>1, <1>4
    <3> QED BY <3>1
  <2>2. writes'[i] = writes[i]
    BY <1>4, <2>1
  <2> QED BY <1>2, <2>1, <2>2 DEF QueueInv
<1>6. ASSUME NEW f \in Files, NEW field \in Fields PROVE Owed(f, field)'
  <2>1. CASE \E k \in 1..Len(ws) : Of(ws[k], f, field)
    <3>1. PICK k \in 1..Len(ws) : Of(ws[k], f, field)
      BY <2>1
    <3>2. writes'[Len(writes) + k].value = asked'[f][field] /\ Of(writes'[Len(writes) + k], f, field)
      BY <1>1, <1>2, <1>4, <3>1 DEF Of
    <3>3. \A j \in 1..Len(writes') : j > Len(writes) + k => ~Of(writes'[j], f, field)
      <4> SUFFICES ASSUME NEW j \in 1..Len(writes'), j > Len(writes) + k,
                          Of(writes'[j], f, field)
                   PROVE  FALSE
        OBVIOUS
      <4>1. PICK l \in 1..Len(ws) : j = Len(writes) + l
        BY <1>3, <1>4
      <4>2. Of(ws[l], f, field)
        BY <1>4, <4>1
      <4>3. l # k
        BY <1>3, <4>1
      <4> QED BY <1>1, <3>1, <4>2, <4>3 DEF Of
    <3> QED BY <1>4, <3>2, <3>3 DEF Owed
  <2>2. CASE \A k \in 1..Len(ws) : ~Of(ws[k], f, field)
    <3>1. asked'[f][field] = asked[f][field] /\ stored' = stored
      BY <1>2, <2>2
    <3>2. CASE \A i \in 1..Len(writes) : ~Of(writes[i], f, field)
      <4>1. asked[f][field] = stored[f][field]
        BY <3>2, QueueInvOwed DEF Owed
      <4>2. \A i \in 1..Len(writes') : ~Of(writes'[i], f, field)
        BY <1>4, <2>2, <3>2
      <4> QED BY <3>1, <4>1, <4>2 DEF Owed
    <3>3. CASE \E i \in 1..Len(writes) : Of(writes[i], f, field)
      <4>1. PICK i \in 1..Len(writes) :
              /\ Of(writes[i], f, field) /\ writes[i].value = asked[f][field]
              /\ \A j \in 1..Len(writes) : j > i => ~Of(writes[j], f, field)
        BY <3>3, QueueInvOwed DEF Owed
      <4>2. \A j \in 1..Len(writes') : j > i => ~Of(writes'[j], f, field)
        BY <1>4, <2>2, <4>1
      <4> QED BY <1>4, <3>1, <4>1, <4>2 DEF Owed
    <3> QED BY <3>2, <3>3
  <2> QED BY <2>1, <2>2
<1> QED BY <1>5, <1>6 DEF QueueInv, Owed

LEMMA QueueBegins ==
  ASSUME DrawTypes, QueueInv, NEW i \in DOMAIN writes, BeginWrite(i) PROVE QueueInv'
<1>1. /\ writes \in Seq(Pending) /\ i = 1 /\ i \in 1..Len(writes)
      /\ stored' = stored /\ asked' = asked
      /\ writes' = [writes EXCEPT ![1] = [writes[1] EXCEPT !.read = stored[writes[1].file]]]
  BY DEF BeginWrite, Turn, DrawTypes
<1>2. writes[1] \in Pending
  BY <1>1
<1>3. /\ writes'[1].read = stored[writes[1].file]
      /\ writes'[1].file = writes[1].file /\ writes'[1].field = writes[1].field
      /\ writes'[1].value = writes[1].value
  BY <1>1, <1>2 DEF Pending
<1>4. Len(writes') = Len(writes) /\ \A j \in 1..Len(writes) : j # 1 => writes'[j] = writes[j]
  BY <1>1
<1>5. \A j \in 1..Len(writes) : writes'[j].value = writes[j].value
        /\ \A f, field : Of(writes'[j], f, field) <=> Of(writes[j], f, field)
  BY <1>3, <1>4 DEF Of
<1>6. \A j \in 1..Len(writes') : writes'[j].read # None =>
        j = 1 /\ writes'[1].read = stored'[writes'[1].file]
  BY <1>1, <1>3, <1>4 DEF QueueInv
<1>7. \A f \in Files, field \in Fields : Owed(f, field)'
  BY <1>1, <1>4, <1>5, QueueInvOwed DEF Owed
<1> QED BY <1>6, <1>7 DEF QueueInv, Owed

\* The first write leaves the queue, done or refused.
LEMMA QueueTail ==
  ASSUME DrawTypes, QueueInv, writes # <<>>, writes' = Tail(writes),
         \A f \in Files, field \in Fields : ~Of(writes[1], f, field) =>
           asked'[f][field] = asked[f][field] /\ stored'[f][field] = stored[f][field],
         \A f \in Files, field \in Fields : Of(writes[1], f, field) =>
           \/ /\ asked'[f][field] = asked[f][field]
              /\ stored'[f][field] = writes[1].value
           \/ /\ asked'[f][field] = asked[f][field]
              /\ \E i \in 1..Len(writes) : i > 1 /\ Of(writes[i], f, field)
           \/ /\ asked'[f][field] = stored'[f][field]
              /\ \A i \in 1..Len(writes) : i > 1 => ~Of(writes[i], f, field)
  PROVE  QueueInv'
<1>1. /\ writes \in Seq(Pending) /\ Len(writes) \in Nat /\ Len(writes) # 0
      /\ Len(writes') = Len(writes) - 1
      /\ \A i \in 1..Len(writes') : writes'[i] = writes[i + 1] /\ i + 1 \in 1..Len(writes)
  BY DEF DrawTypes
<1>2. \A i \in 1..Len(writes) : i > 1 => i - 1 \in 1..Len(writes') /\ writes'[i - 1] = writes[i]
  BY <1>1
<1>3. \A i \in 1..Len(writes') : writes'[i].read = None
  BY <1>1 DEF QueueInv
<1>4. ASSUME NEW f \in Files, NEW field \in Fields PROVE Owed(f, field)'
  <2>1. CASE \E i \in 1..Len(writes) : i > 1 /\ Of(writes[i], f, field)
    <3>1. PICK i \in 1..Len(writes) :
            /\ Of(writes[i], f, field) /\ writes[i].value = asked[f][field]
            /\ \A j \in 1..Len(writes) : j > i => ~Of(writes[j], f, field)
      BY <2>1, QueueInvOwed DEF Owed
    <3>2. i > 1
      BY <1>1, <2>1, <3>1
    <3>3. i - 1 \in 1..Len(writes') /\ writes'[i - 1] = writes[i]
      BY <1>2, <3>2
    <3>4. \A j \in 1..Len(writes') : j > i - 1 => ~Of(writes'[j], f, field)
      BY <1>1, <3>1
    <3>5. asked'[f][field] = asked[f][field]
      <4>1. CASE Of(writes[1], f, field)
        BY <2>1, <4>1, <3>1
      <4>2. CASE ~Of(writes[1], f, field)
        BY <4>2
      <4> QED BY <4>1, <4>2
    <3> QED BY <3>1, <3>3, <3>4, <3>5 DEF Owed
  <2>2. CASE \A i \in 1..Len(writes) : i > 1 => ~Of(writes[i], f, field)
    <3>1. \A i \in 1..Len(writes') : ~Of(writes'[i], f, field)
      <4> SUFFICES ASSUME NEW i \in 1..Len(writes') PROVE ~Of(writes'[i], f, field)
        OBVIOUS
      <4>1. i + 1 \in 1..Len(writes) /\ i + 1 > 1 /\ writes'[i] = writes[i + 1]
        BY <1>1
      <4> QED BY <2>2, <4>1
    <3>2. asked'[f][field] = stored'[f][field]
      <4>1. CASE Of(writes[1], f, field)
        <5>1. 1 \in 1..Len(writes)
          BY <1>1
        <5>2. writes[1].value = asked[f][field]
          BY <1>1, <2>2, <4>1, <5>1, QueueInvOwed DEF Owed
        <5> QED BY <2>2, <4>1, <5>2
      <4>2. CASE ~Of(writes[1], f, field)
        <5>1. \A i \in 1..Len(writes) : ~Of(writes[i], f, field)
          BY <2>2, <4>2
        <5>2. asked[f][field] = stored[f][field]
          BY <5>1, QueueInvOwed DEF Owed
        <5> QED BY <4>2, <5>2
      <4> QED BY <4>1, <4>2
    <3> QED BY <3>1, <3>2 DEF Owed
  <2> QED BY <2>1, <2>2
<1> QED BY <1>3, <1>4 DEF QueueInv, Owed

LEMMA QueueStep == DrawTypes /\ QueueInv /\ [Next]_vars => QueueInv'
<1> SUFFICES ASSUME DrawTypes, QueueInv, [Next]_vars PROVE QueueInv'
  OBVIOUS
<1>0. stored \in [Files -> Views] /\ asked \in [Files -> Views] /\ writes \in Seq(Pending)
  BY DEF DrawTypes
<1>1. ASSUME NEW i \in DOMAIN writes, EndWrite(i) PROVE QueueInv'
  <2>1. /\ writes # <<>> /\ writes[1] \in Pending /\ writes' = Tail(writes)
        /\ stored' = [stored EXCEPT ![writes[1].file] = [@ EXCEPT ![writes[1].field] = writes[1].value]]
        /\ asked' = asked
    BY <1>1, Settles DEF EndWrite
  <2>2. writes[1].file \in Files /\ writes[1].field \in Fields
    BY <2>1 DEF Pending, Fields
  <2>3. ASSUME NEW f \in Files, NEW field \in Fields
        PROVE  stored'[f][field] = IF Of(writes[1], f, field) THEN writes[1].value
                                                            ELSE stored[f][field]
    <3>1. stored[f] \in Views /\ DOMAIN stored[f] = Fields
      BY <1>0, FieldsOfView
    <3> QED BY <1>0, <2>1, <2>2, <3>1 DEF Of
  <2> QED BY <2>1, <2>3, QueueTail
<1>2. CASE WriteFails
  <2>1. writes # <<>> /\ writes' = Tail(writes) /\ stored' = stored
    BY <1>2 DEF WriteFails, panel
  <2> DEFINE d == writes[1].field
             g == writes[1].file
             more == \E w \in Range(Tail(writes)) : w.file = g /\ w.field = d
  <2>2. /\ writes[1] \in Pending
        /\ Tail(writes) \in Seq(Pending) /\ Len(Tail(writes)) = Len(writes) - 1
        /\ \A i \in 1..Len(Tail(writes)) : Tail(writes)[i] = writes[i + 1]
    BY <1>0, <2>1
  <2>3. g \in Files /\ d \in Fields
    BY <2>2 DEF Pending, Fields
  <2>4. more <=> \E i \in 1..Len(writes) : i > 1 /\ Of(writes[i], g, d)
    <3>1. Range(Tail(writes)) = {Tail(writes)[i] : i \in 1..Len(Tail(writes))}
      BY <2>2, RangeAsSet
    <3>2. Len(writes) \in Nat
      BY <1>0
    <3>3. ASSUME NEW i \in 1..Len(writes), i > 1, Of(writes[i], g, d) PROVE more
      <4>1. i - 1 \in 1..Len(Tail(writes)) /\ Tail(writes)[i - 1] = writes[i]
        BY <2>2, <3>2, <3>3
      <4> QED BY <3>1, <3>3, <4>1 DEF Of
    <3>4. ASSUME NEW w \in Range(Tail(writes)), w.file = g, w.field = d
          PROVE  \E i \in 1..Len(writes) : i > 1 /\ Of(writes[i], g, d)
      <4>1. PICK i \in 1..Len(Tail(writes)) : w = Tail(writes)[i]
        BY <3>1
      <4>2. i + 1 \in 1..Len(writes) /\ i + 1 > 1 /\ w = writes[i + 1]
        BY <2>2, <3>2, <4>1
      <4> QED BY <3>4, <4>2 DEF Of
    <3> QED BY <3>3, <3>4
  <2>5. asked' = [asked EXCEPT ![g] = [asked[g] EXCEPT ![d] = IF more THEN asked[g][d] ELSE stored[g][d]]]
    BY <1>2 DEF WriteFails
  <2> HIDE DEF more
  <2>6. ASSUME NEW f \in Files, NEW field \in Fields
        PROVE  asked'[f][field] = IF Of(writes[1], f, field) /\ ~more THEN stored[f][field]
                                                                    ELSE asked[f][field]
    <3>1. asked[f] \in Views /\ DOMAIN asked[f] = Fields
      BY <1>0, FieldsOfView
    <3> QED BY <1>0, <2>3, <2>5, <3>1 DEF Of
  <2>7. \A f \in Files, field \in Fields : Of(writes[1], f, field) => f = g /\ field = d
    BY DEF Of
  <2> HIDE DEF g, d
  <2> QED BY <2>1, <2>4, <2>6, <2>7, QueueTail
<1>3. CASE UNCHANGED store
  BY <1>3 DEF store, QueueInv
<1>4. CASE \/ Topology \/ Diagnose \/ DrawFails
           \/ \E i \in Inspectors \cup {Drawn} : Inspect(i) \/ InspectFails(i)
           \/ (\E f \in Files : SetFile(f)) \/ Change \/ SourceChanged \/ WindowCloses
           \/ UNCHANGED vars
  BY <1>3, <1>4 DEF Topology, Diagnose, DrawFails, Inspect, InspectFails, SetFile, Change,
                    SourceChanged, WindowCloses, vars, store
<1> QED BY <1>1, <1>2, <1>4, QueueAsks, QueueBegins DEF Next

LEMMA QueueInit == Init => QueueInv
BY DEF Init, QueueInv, Owed

LEMMA SettledAsAsked == DrawTypes /\ QueueInv => ViewKept
<1> SUFFICES ASSUME DrawTypes, QueueInv, writes = <<>> PROVE stored = asked
  BY DEF ViewKept
<1>1. \A f \in Files, field \in Fields : stored[f][field] = asked[f][field]
  BY DEF QueueInv
<1>2. stored \in [Files -> Views] /\ asked \in [Files -> Views]
  BY DEF DrawTypes
<1>3. \A f \in Files : stored[f] = asked[f]
  BY <1>1, <1>2 DEF Views, Fields
<1> QED BY <1>2, <1>3

\* The store and the queue keep their types and what is owed, whatever the
\* reader presses and whichever writes are refused.
THEOREM StoreTyped == Spec => [](DrawTypes /\ QueueInv)
<1>1. Init => DrawTypes /\ QueueInv
  BY InitTypes, QueueInit
<1>2. DrawTypes /\ QueueInv /\ [Next]_vars => (DrawTypes /\ QueueInv)'
  BY TypesStep, QueueStep
<1> QED BY <1>1, <1>2, PTL DEF Spec

\* No choice the reader made is lost to the read-modify-write of another field
\* (ViewStateStore.update): once the queue is empty each file's stored view is
\* the one last asked for.
THEOREM ChoicesKept == Spec => []ViewKept
BY StoreTyped, SettledAsAsked, PTL
-----------------------------------------------------------------------------
(* The picture.                                                            *)

LEMMA RedrawInit == Init => RedrawInv
<1> SUFFICES ASSUME Init PROVE RedrawInv
  OBVIOUS
<1>1. drawing = [at |-> "topology", file |-> file, set |-> {}] /\ file \in Files
  BY DEF Init, Asking
<1>2. drawing \in Draws /\ drawing # None /\ drawing.at = "topology"
  BY <1>1, DrawAssumption DEF Draws
<1>3. stored[file].profiles = {}
  BY <1>1 DEF Init, EmptyView
<1>4. drawing.file = file /\ drawing.set = {}
  BY <1>1
<1>5. inspecting[Drawn] = None /\ screen.badges = screen.set
  BY DEF Init
<1> QED BY <1>2, <1>3, <1>4, <1>5
        DEF RedrawInv, PurposeInv, PaneInv, PictureInv, ContentInv, ButtonsInv, Current

\* A draw that has just begun owes nothing yet.
LEMMA Restarted ==
  ASSUME drawing' = Asking(file', stored'[file'].profiles), drawing' \in Draws,
         inspecting'[Drawn] = None, screen'.badges = screen'.set
  PROVE  RedrawInv'
<1>1. /\ drawing'.at = "topology" /\ drawing'.file = file'
      /\ drawing'.set = stored'[file'].profiles
  BY DEF Asking
<1>2. drawing' # None
  BY DrawAssumption
<1> QED BY <1>1, <1>2
        DEF RedrawInv, PurposeInv, PaneInv, PictureInv, ContentInv, ButtonsInv, Current

\* Nor does the one that runs, when another one is to follow it.
LEMMA Queueing ==
  ASSUME RedrawInv, drawing # None, queued' = TRUE, drawing' = drawing, drawn' = drawn,
         inspecting'[Drawn] = inspecting[Drawn],
         screen'.set = screen.set, screen'.badges = screen.badges
  PROVE  RedrawInv'
BY DEF RedrawInv, PurposeInv, PaneInv, PictureInv, ContentInv, ButtonsInv, Current

LEMMA Started ==
  ASSUME DrawTypes, RedrawInv, stored' \in [Files -> Views], file' \in Files, StartDraw(file'),
         drawn' = drawn, inspecting'[Drawn] = inspecting[Drawn], screen' = screen
  PROVE  RedrawInv'
<1>1. CASE drawing # None
  BY <1>1, Queueing DEF StartDraw
<1>2. CASE drawing = None
  <2>1. drawing' = Asking(file', stored'[file'].profiles)
    BY <1>2 DEF StartDraw
  <2>2. drawing' \in Draws
    BY <2>1 DEF Asking, Draws, Views
  <2>3. inspecting[Drawn] = None /\ screen.badges = screen.set
    BY <1>2 DEF RedrawInv, PaneInv, PictureInv
  <2> QED BY <2>1, <2>2, <2>3, Restarted
<1> QED BY <1>1, <1>2

\* The end of a draw: the next one begins, or the picture is the one that was
\* asked for.
LEMMA DrawEnds ==
  ASSUME DrawTypes, RedrawInv, EndDraw, drawing # None, drawing.at = "pane" \/ queued \/ failed'.draw,
         inspecting'[Drawn] = None, screen'.set = screen.set, screen'.badges = screen.badges,
         screen'.content = screen.content,
         UNCHANGED <<file, stored, drawn, unseen, content>>,
         ~queued /\ ~failed'.draw /\ ~failed'.pane => Pressed'
  PROVE  RedrawInv'
<1>1. screen'.badges = screen'.set
  BY DEF RedrawInv, PictureInv
<1>2. CASE queued
  <2>1. drawing' = Asking(file', stored'[file'].profiles)
    BY <1>2 DEF EndDraw
  <2>2. drawing' \in Draws
    BY <2>1 DEF DrawTypes, Asking, Draws, Views
  <2> QED BY <1>1, <2>1, <2>2, Restarted
<1>3. CASE ~queued
  <2>1. drawing' = None /\ missed' = missed
    BY <1>3 DEF EndDraw
  <2>2. drawing.at = "pane" \/ failed'.draw
    BY <1>3
  <2>3. drawing.at = "pane" => /\ screen.set = drawing.set /\ drawn.set = drawing.set
                               /\ drawing.set = stored[file].profiles
    BY <1>3 DEF RedrawInv, PictureInv, PurposeInv
  <2>4. ~unseen /\ ~missed /\ drawing.at = "pane" => screen.content = content[file]
    BY <1>3 DEF RedrawInv, ContentInv, Current
  <2>5. PurposeInv' /\ PaneInv'
    BY <2>1 DEF PurposeInv, PaneInv
  <2>6. PictureInv'
    BY <1>1, <2>1, <2>2, <2>3 DEF PictureInv
  <2>7. ContentInv'
    BY <2>1, <2>2, <2>4 DEF ContentInv, Current
  <2>8. ButtonsInv'
    BY <1>3, <2>1 DEF ButtonsInv, Current
  <2> QED BY <2>5, <2>6, <2>7, <2>8 DEF RedrawInv
<1> QED BY <1>2, <1>3

LEMMA DrawStep ==
  ASSUME DrawTypes, QueueInv, RedrawInv, Topology \/ Diagnose \/ DrawFails PROVE RedrawInv'
<1>0. /\ drawing \in Draws /\ drawing # None /\ drawing.at # "pane" /\ inspecting[Drawn] = None
      /\ screen.badges = screen.set /\ screen \in Screens
      /\ drawing.file # file => queued
      /\ inspecting \in [Inspectors \cup {Drawn} -> Inspections \cup {None}]
      /\ failed \in [draw : BOOLEAN, pane : BOOLEAN]
      /\ stored[file].selected \in Nodes
  BY DEF Topology, Diagnose, DrawFails, DrawTypes, RedrawInv, PaneInv, PictureInv, PurposeInv, Views
<1>1. CASE (Topology \/ Diagnose) /\ drawing.file # file
  <2>1. /\ EndDraw /\ queued
        /\ UNCHANGED <<file, stored, inspecting, screen>>
    BY <1>0, <1>1 DEF Topology, Diagnose, store
  <2>2. drawing' = Asking(file', stored'[file'].profiles) /\ drawing' \in Draws
    BY <2>1 DEF EndDraw, DrawTypes, Asking, Draws, Views
  <2> QED BY <1>0, <2>1, <2>2, Restarted
<1>2. CASE Topology /\ drawing.file = file
  <2>1. /\ drawn' = [set |-> drawing.set, content |-> content[file]]
        /\ drawing' = [drawing EXCEPT !.at = "diagnose"]
        /\ UNCHANGED <<file, stored, inspecting, screen, content, unseen, queued, missed>>
    BY <1>2 DEF Topology, Await, store
  <2>2. /\ drawing'.at = "diagnose" /\ drawing'.file = drawing.file
        /\ drawing'.set = drawing.set /\ drawing' \in Draws
    BY <1>0, <2>1 DEF Draws
  <2>3. drawing' # None
    BY <2>2, DrawAssumption
  <2>4. drawn'.set = drawing'.set /\ drawn'.content = content'[file']
    BY <2>1, <2>2
  <2> QED BY <1>0, <2>1, <2>2, <2>3, <2>4
          DEF RedrawInv, PurposeInv, PaneInv, PictureInv, ContentInv, ButtonsInv, Current
<1>3. CASE Diagnose /\ drawing.file = file
  <2>1. /\ screen' = [screen EXCEPT !.set = drawn.set, !.content = drawn.content,
                                    !.badges = drawing.set]
        /\ inspecting' = [inspecting EXCEPT ![Drawn] = Inspection(stored[file].selected)]
        /\ drawing' = [drawing EXCEPT !.at = "pane"]
        /\ drawing.at = "diagnose"
        /\ UNCHANGED <<file, stored, drawn, content, unseen, queued, missed>>
    BY <1>3 DEF Diagnose, DiagnosedSet, Await, store
  <2>2. /\ drawing'.at = "pane" /\ drawing'.file = drawing.file
        /\ drawing'.set = drawing.set /\ drawing' \in Draws
    BY <1>0, <2>1 DEF Draws
  <2>3. drawing' # None
    BY <2>2, DrawAssumption
  <2>4. drawn.set = drawing.set
    BY <1>0, <2>1 DEF RedrawInv, PurposeInv
  <2>5. screen'.set = drawn.set /\ screen'.badges = drawn.set /\ screen'.content = drawn.content
    BY <1>0, <2>1, <2>4 DEF Screens
  <2>6. /\ inspecting'[Drawn] = Inspection(stored[file].selected)
        /\ inspecting'[Drawn] \in Inspections
    BY <1>0, <2>1, InspectionTypes
  <2>7. inspecting'[Drawn].file = drawing'.file /\ inspecting'[Drawn].at = "schema"
    BY <1>3, <2>2, <2>6 DEF Inspection
  <2>8. Current("diagnose") \/ queued
    BY <1>0, <2>1 DEF Current
  <2>9. PurposeInv' /\ PaneInv'
    BY <1>0, <2>1, <2>2, <2>3, <2>4, <2>6, <2>7 DEF RedrawInv, PurposeInv, PaneInv
  <2>10. PictureInv' /\ ButtonsInv'
    BY <2>2, <2>3, <2>4, <2>5, <2>7 DEF PictureInv, ButtonsInv
  <2>11. ContentInv'
    BY <2>1, <2>2, <2>3, <2>5, <2>8 DEF RedrawInv, ContentInv, Current
  <2> QED BY <2>9, <2>10, <2>11 DEF RedrawInv
<1>4. CASE DrawFails
  <2>1. /\ EndDraw /\ UNCHANGED <<file, stored, drawn, unseen, content, inspecting>>
        /\ queued \/ failed'.draw
    BY <1>0, <1>4 DEF DrawFails, store
  <2>2. screen'.set = screen.set /\ screen'.badges = screen.badges /\ screen'.content = screen.content
    BY <1>0, <1>4 DEF DrawFails, Resynced, Screens
  <2> QED BY <1>0, <2>1, <2>2, DrawEnds
<1> QED BY <1>1, <1>2, <1>3, <1>4

\* Steps that leave the draw, the graph and the picture as they are.
LEMMA DrawAlone ==
  ASSUME RedrawInv, UNCHANGED <<file, drawing, queued, drawn>>,
         \A f \in Files : stored'[f].profiles = stored[f].profiles, file \in Files,
         inspecting'[Drawn] = inspecting[Drawn],
         screen'.set = screen.set, screen'.badges = screen.badges,
         screen'.content = screen.content, failed'.draw = failed.draw,
         \/ UNCHANGED <<unseen, missed, content>>
         \/ unseen' = TRUE
         \/ missed' = TRUE,
         ButtonsInv'
  PROVE  RedrawInv'
<1>1. PurposeInv' /\ PaneInv' /\ PictureInv'
  BY DEF RedrawInv, PurposeInv, PaneInv, PictureInv
<1>2. ContentInv'
  BY DEF RedrawInv, ContentInv, Current
<1> QED BY <1>1, <1>2 DEF RedrawInv

LEMMA InspectStep ==
  ASSUME DrawTypes, RedrawInv, NEW i \in Inspectors \cup {Drawn}, Inspect(i) \/ InspectFails(i)
  PROVE  RedrawInv'
<1> DEFINE on == inspecting[i]
<1>0. /\ on # None /\ screen \in Screens
      /\ failed \in [draw : BOOLEAN, pane : BOOLEAN] /\ file \in Files
      /\ inspecting \in [Inspectors \cup {Drawn} -> Inspections \cup {None}]
      /\ UNCHANGED <<file, drawn, stored, asked, writes, content, unseen>>
  BY DEF Inspect, InspectFails, DrawTypes, store
<1>1. /\ screen'.set = screen.set /\ screen'.badges = screen.badges
      /\ screen'.content = screen.content
      /\ screen'.pressed = screen.pressed \/ (screen'.pressed = drawn.set /\ declared' /\ on.file = file)
      /\ failed'.draw = failed.draw
      /\ declared => declared'
  <2>1. CASE Inspect(i)
    <3>1. /\ \/ screen' = screen
             \/ screen' = [screen EXCEPT !.pressed = drawn.set] /\ declared' /\ on.file = file
             \/ screen' = [screen EXCEPT !.pane = on.id]
             \/ /\ screen' = [[screen EXCEPT !.pressed = drawn.set] EXCEPT !.pane = on.id]
                /\ declared' /\ on.file = file
          /\ failed' = failed \/ failed' = [failed EXCEPT !.pane = FALSE]
          /\ declared' = TRUE \/ declared' = declared
      BY <2>1 DEF Inspect
    <3>2. failed'.draw = failed.draw /\ (declared => declared')
      BY <1>0, <3>1
    <3>3. CASE screen' = screen
      BY <3>2, <3>3
    <3>4. CASE screen' = [screen EXCEPT !.pane = on.id]
      BY <1>0, <3>2, <3>4 DEF Screens
    <3>5. CASE /\ \/ screen' = [screen EXCEPT !.pressed = drawn.set]
                  \/ screen' = [[screen EXCEPT !.pressed = drawn.set] EXCEPT !.pane = on.id]
               /\ declared' /\ on.file = file
      BY <1>0, <3>2, <3>5 DEF Screens
    <3> QED BY <3>1, <3>3, <3>4, <3>5
  <2>2. CASE InspectFails(i)
    BY <1>0, <2>2 DEF InspectFails, Screens
  <2> QED BY <2>1, <2>2
\* An answer about the file on screen settles the buttons, and a refusal says so.
<1>2. on.file = file => \/ failed'.pane
                        \/ on.at = "schema" /\ screen'.pressed = drawn.set /\ declared'
                        \/ /\ on.at # "schema" /\ failed'.pane = failed.pane /\ declared'
                           /\ screen'.pressed = screen.pressed
  <2>1. CASE Inspect(i) /\ on.file = file
    <3>1. /\ declared' = TRUE
          /\ \/ /\ on.at = "schema"
                /\ \/ screen' = [screen EXCEPT !.pressed = drawn.set]
                   \/ screen' = [[screen EXCEPT !.pressed = drawn.set] EXCEPT !.pane = on.id]
             \/ /\ on.at # "schema" /\ failed' = failed
                /\ screen' = screen \/ screen' = [screen EXCEPT !.pane = on.id]
      BY <2>1 DEF Inspect
    <3> QED BY <1>0, <3>1 DEF Screens
  <2>2. CASE InspectFails(i) /\ on.file = file
    BY <1>0, <2>2 DEF InspectFails
  <2> QED BY <2>1, <2>2
<1>3. on.file # file => screen' = screen /\ failed' = failed /\ declared' = declared /\ Ended(i)
  BY DEF Inspect, InspectFails
<1>4. Ended(i) \/ (Goes(i) /\ on.file = file /\ Inspect(i))
  BY DEF Inspect, InspectFails
<1>5. CASE i # Drawn
  <2>1. UNCHANGED <<drawing, queued, missed>> /\ inspecting'[Drawn] = inspecting[Drawn]
    BY <1>0, <1>4, <1>5 DEF Ended, Goes
  <2>2. ButtonsInv'
    <3>1. CASE on.file = file
      BY <1>0, <1>1, <1>2, <2>1, <3>1 DEF RedrawInv, ButtonsInv, Pressed, Current
    <3>2. CASE on.file # file
      BY <1>0, <1>3, <2>1, <3>2 DEF RedrawInv, ButtonsInv, Pressed, Current
    <3> QED BY <3>1, <3>2
  <2> QED BY <1>0, <1>1, <2>1, <2>2, DrawAlone
<1>6. CASE i = Drawn
  <2>1. /\ drawing # None /\ drawing.at = "pane" /\ on \in Inspections /\ on.file = drawing.file
        /\ on.file # file => queued
    BY <1>0, <1>6 DEF RedrawInv, PaneInv, PurposeInv
  <2>2. ~queued /\ ~failed'.draw /\ ~failed'.pane => Pressed'
    <3> SUFFICES ASSUME ~queued, ~failed'.draw, ~failed'.pane PROVE Pressed'
      OBVIOUS
    <3>1. on.file = file
      BY <2>1
    <3>2. CASE on.at = "schema"
      BY <1>0, <1>2, <3>1, <3>2 DEF Pressed
    <3>3. CASE on.at # "schema"
      <4>1. /\ ~failed.pane /\ declared' /\ screen'.pressed = screen.pressed /\ ~failed.draw
        BY <1>1, <1>2, <3>1, <3>3
      <4>2. on.at = "more"
        BY <2>1, <3>3 DEF Inspections
      <4>3. Pressed
        BY <1>6, <2>1, <4>1, <4>2 DEF RedrawInv, ButtonsInv, Current
      <4> QED BY <1>0, <4>1, <4>3 DEF Pressed
    <3> QED BY <3>2, <3>3
  <2>3. CASE Ended(i)
    <3>1. EndDraw /\ inspecting'[Drawn] = None
      BY <1>0, <1>6, <2>3 DEF Ended
    <3> QED BY <1>0, <1>1, <2>1, <2>2, <3>1, DrawEnds
  <2>4. CASE Goes(i) /\ on.file = file
    <3>1. /\ UNCHANGED <<drawing, queued, missed>>
          /\ inspecting'[Drawn] \in Inspections /\ inspecting'[Drawn].file = on.file
      <4>1. /\ UNCHANGED <<drawing, queued, missed>>
            /\ inspecting' = [inspecting EXCEPT ![i].at = "more", ![i].left =
                               IF on.at = "schema" THEN @ ELSE @ - 1]
        BY <2>4 DEF Goes
      <4> DEFINE left == IF on.at = "schema" THEN on.left ELSE on.left - 1
                 next == [on EXCEPT !.at = "more", !.left = left]
      <4>2. left \in Int
        BY <2>1 DEF Inspections
      <4>3. inspecting'[Drawn] = next
        BY <1>0, <1>6, <4>1
      <4> HIDE DEF left
      <4>4. next \in Inspections /\ next.file = on.file
        BY <2>1, <4>2 DEF Inspections
      <4> QED BY <4>1, <4>3, <4>4
    <3>2. PurposeInv' /\ PictureInv'
      BY <1>0, <1>1, <2>1, <3>1 DEF RedrawInv, PurposeInv, PictureInv
    <3>3. PaneInv'
      BY <2>1, <3>1 DEF PaneInv
    <3>4. ContentInv'
      BY <1>0, <1>1, <2>1, <3>1 DEF RedrawInv, ContentInv, Current
    <3>5. ButtonsInv'
      BY <1>0, <2>1, <2>2, <3>1 DEF ButtonsInv, Current
    <3> QED BY <3>2, <3>3, <3>4, <3>5 DEF RedrawInv
  <2> QED BY <1>4, <2>3, <2>4
<1> QED BY <1>5, <1>6

\* A write that settles starts a draw if it changed a set of profiles, and else
\* changed none.
LEMMA ProfilesSettle ==
  ASSUME DrawTypes, QueueInv, NEW i \in DOMAIN writes, EndWrite(i)
  PROVE  \/ StartDraw(file)
         \/ /\ UNCHANGED <<drawing, queued, missed>>
            /\ \A f \in Files : stored'[f].profiles = stored[f].profiles
<1>1. /\ i = 1 /\ writes[1] \in Pending /\ writes[1].read # None
      /\ writes[1].read = stored[writes[1].file]
      /\ stored' = [stored EXCEPT ![writes[1].file] = [@ EXCEPT ![writes[1].field] = writes[1].value]]
  BY Settles
<1>2. /\ writes[1].file \in Files /\ stored \in [Files -> Views]
      /\ stored[writes[1].file] \in Views
  BY <1>1 DEF DrawTypes, Pending
<1>3. CASE writes[1].then = "draw" /\ writes[1].read.profiles # writes[1].value
  BY <1>1, <1>3 DEF EndWrite
<1>4. CASE ~(writes[1].then = "draw" /\ writes[1].read.profiles # writes[1].value)
  <2>1. UNCHANGED <<drawing, queued, missed>>
    BY <1>1, <1>4 DEF EndWrite
  <2>2. writes[1].field = "profiles" => writes[1].value = stored[writes[1].file].profiles
    BY <1>1, <1>4 DEF Pending
  <2>3. \A f \in Files : stored'[f].profiles = stored[f].profiles
    BY <1>1, <1>2, <2>2 DEF Views
  <2> QED BY <2>1, <2>3
<1> QED BY <1>3, <1>4

LEMMA SettleStep ==
  ASSUME DrawTypes, QueueInv, RedrawInv, NEW i \in DOMAIN writes, EndWrite(i)
  PROVE  RedrawInv'
<1>1. /\ stored' \in [Files -> Views] /\ asked' = asked
      /\ UNCHANGED <<file, drawn, declared, content, unseen, screen, failed>>
      /\ file \in Files
      /\ writes # <<>> /\ writes' = Tail(writes) /\ writes \in Seq(Pending)
  BY Settles DEF EndWrite, DrawTypes
<1>2. inspecting'[Drawn] = inspecting[Drawn]
  <2>1. \/ inspecting' = inspecting
        \/ \E n \in Inspectors : inspecting' = [inspecting EXCEPT ![n] = Inspection(writes[i].value)]
    BY DEF EndWrite
  <2>2. inspecting \in [Inspectors \cup {Drawn} -> Inspections \cup {None}]
    BY DEF DrawTypes
  <2> QED BY <2>1, <2>2, DrawAssumption
<1>3. CASE StartDraw(file)
  BY <1>1, <1>2, <1>3, Started
<1>4. CASE /\ UNCHANGED <<drawing, queued, missed>>
           /\ \A f \in Files : stored'[f].profiles = stored[f].profiles
  <2>1. ButtonsInv'
    <3> SUFFICES ASSUME drawing = None \/ (Current("pane") /\ inspecting[Drawn].at = "more"),
                        ~failed.draw, ~failed.pane
                 PROVE  Pressed'
      BY <1>1, <1>2, <1>4 DEF ButtonsInv, Current
    <3>1. Pressed
      BY DEF RedrawInv, ButtonsInv
    <3>2. drawn.set = stored[file].profiles
      BY DEF RedrawInv, PurposeInv, PictureInv, Current
    <3>3. CASE screen.pressed = drawn.set
      BY <1>1, <3>1, <3>3 DEF Pressed
    <3>4. CASE screen.pressed = asked[file].profiles
      <4>1. QueueInv'
        BY QueueStep DEF Next
      <4>2. Owed(file, "profiles")'
        BY <1>1, <4>1 DEF QueueInv, Owed, Fields
      <4>3. \/ asked'[file]["profiles"] = stored'[file]["profiles"]
            \/ \E j \in 1..Len(writes') : Of(writes'[j], file, "profiles")
        BY <1>1, <4>2 DEF Owed
      <4>4. CASE asked'[file]["profiles"] = stored'[file]["profiles"]
        <5>1. asked[file].profiles = drawn.set
          BY <1>1, <1>4, <3>2, <4>4
        <5> QED BY <1>1, <3>1, <3>4, <5>1 DEF Pressed
      <4>5. CASE \E j \in 1..Len(writes') : Of(writes'[j], file, "profiles")
        BY <1>1, <3>1, <3>4, <4>5 DEF Pressed
      <4> QED BY <4>3, <4>4, <4>5
    <3> QED BY <3>1, <3>3, <3>4 DEF Pressed
  <2> QED BY <1>1, <1>2, <1>4, <2>1, DrawAlone
<1> QED BY <1>3, <1>4, ProfilesSettle

LEMMA ReaderStep ==
  ASSUME DrawTypes, RedrawInv,
         \/ \E p \in Profiles : Toggle(p)
         \/ Drag
         \/ \E id \in Nodes : Select(id)
  PROVE  RedrawInv'
<1>0. /\ UNCHANGED <<file, drawing, queued, drawn, declared, inspecting, content, unseen, missed, failed>>
      /\ file \in Files /\ screen \in Screens /\ asked \in [Files -> Views] /\ writes \in Seq(Pending)
  BY DEF Toggle, Drag, Select, panel, DrawTypes
<1>1. PICK ws \in Seq(Pending) :
        /\ Queued(ws)
        /\ \A k \in 1..Len(ws) : ws[k].file = file /\ ws[k].read = None
        /\ \A k, l \in 1..Len(ws) : ws[k].field = ws[l].field => k = l
        /\ \/ screen' = screen /\ \A k \in 1..Len(ws) : ws[k].field # "profiles"
           \/ /\ screen' = [screen EXCEPT !.pressed = ws[2].value]
              /\ Len(ws) = 2 /\ ws[2].field = "profiles"
  BY Asks
<1>2. /\ writes' = writes \o ws /\ stored' = stored
      /\ \A k \in 1..Len(ws) : asked'[file][ws[k].field] = ws[k].value
      /\ (\A k \in 1..Len(ws) : ~Of(ws[k], file, "profiles")) =>
           asked'[file]["profiles"] = asked[file]["profiles"]
  BY <1>0, <1>1, QueuedMeans DEF Fields
<1>3. /\ Len(writes') = Len(writes) + Len(ws) /\ Len(writes) \in Nat /\ Len(ws) \in Nat
      /\ \A i \in 1..Len(writes) : writes'[i] = writes[i]
      /\ \A k \in 1..Len(ws) : Len(writes) + k \in 1..Len(writes') /\ writes'[Len(writes) + k] = ws[k]
  BY <1>0, <1>1, <1>2, Appended
<1>4. CASE screen' = screen /\ \A k \in 1..Len(ws) : ws[k].field # "profiles"
  <2>1. asked'[file].profiles = asked[file].profiles
    BY <1>2, <1>4 DEF Of
  <2>2. \A i \in 1..Len(writes) : i \in 1..Len(writes') /\ writes'[i] = writes[i]
    BY <1>3
  <2>3. Pressed => Pressed'
    BY <1>0, <1>4, <2>1, <2>2 DEF Pressed
  <2>4. ButtonsInv'
    BY <1>0, <2>3 DEF RedrawInv, ButtonsInv, Current
  <2> QED BY <1>0, <1>2, <1>4, <2>4, DrawAlone
<1>5. CASE /\ screen' = [screen EXCEPT !.pressed = ws[2].value]
           /\ Len(ws) = 2 /\ ws[2].field = "profiles"
  <2>0. 2 \in 1..Len(ws)
    BY <1>5
  <2>1. asked'[file].profiles = ws[2].value /\ ws[2].file = file
    BY <1>1, <1>2, <1>5, <2>0
  <2>2. /\ screen'.pressed = ws[2].value /\ screen'.set = screen.set
        /\ screen'.badges = screen.badges /\ screen'.content = screen.content
    BY <1>0, <1>5 DEF Screens
  <2>3. Len(writes) + 2 \in 1..Len(writes') /\ Of(writes'[Len(writes) + 2], file, "profiles")
    BY <1>3, <1>5, <2>0, <2>1 DEF Of
  <2>4. Pressed => Pressed'
    BY <1>0, <2>1, <2>2, <2>3 DEF Pressed
  <2>5. ButtonsInv'
    BY <1>0, <2>4 DEF RedrawInv, ButtonsInv, Current
  <2> QED BY <1>0, <1>2, <2>2, <2>5, DrawAlone
<1> QED BY <1>1, <1>4, <1>5

LEMMA RedrawStep == DrawTypes /\ QueueInv /\ RedrawInv /\ [Next]_vars => RedrawInv'
<1> SUFFICES ASSUME DrawTypes, QueueInv, RedrawInv, [Next]_vars PROVE RedrawInv'
  OBVIOUS
<1>0. file \in Files /\ screen \in Screens /\ writes \in Seq(Pending)
  BY DEF DrawTypes
<1>1. ASSUME NEW i \in DOMAIN writes, BeginWrite(i) PROVE RedrawInv'
  <2>1. /\ UNCHANGED <<stored, asked, panel, screen, content, unseen, missed, failed>>
        /\ writes' = [writes EXCEPT ![i].read = stored[writes[i].file]]
    BY <1>1 DEF BeginWrite
  <2>2. Len(writes') = Len(writes) /\ i \in 1..Len(writes) /\ writes[i] \in Pending
    BY <1>0, <2>1
  <2>3. \A j \in 1..Len(writes) : Of(writes'[j], file, "profiles") <=> Of(writes[j], file, "profiles")
    <3>1. writes'[i] = [writes[i] EXCEPT !.read = stored[writes[i].file]]
      BY <1>0, <2>1, <2>2
    <3>2. writes'[i].file = writes[i].file /\ writes'[i].field = writes[i].field
      BY <2>2, <3>1 DEF Pending
    <3>3. \A j \in 1..Len(writes) : j # i => writes'[j] = writes[j]
      BY <1>0, <2>1
    <3> QED BY <3>2, <3>3 DEF Of
  <2>4. ButtonsInv'
    BY <2>1, <2>2, <2>3 DEF RedrawInv, ButtonsInv, Pressed, Current, panel
  <2> QED BY <1>0, <2>1, <2>4, DrawAlone DEF panel
<1>2. CASE WriteFails
  <2>1. /\ UNCHANGED <<panel, stored, content, unseen, missed, failed>> /\ screen' = Resynced
    BY <1>2 DEF WriteFails
  <2>2. /\ screen'.set = screen.set /\ screen'.badges = screen.badges
        /\ screen'.content = screen.content
        /\ declared => screen'.pressed = drawn.set
    BY <1>0, <2>1 DEF Resynced, Screens
  <2>3. ButtonsInv'
    BY <2>1, <2>2 DEF RedrawInv, ButtonsInv, Pressed, Current, panel
  <2> QED BY <1>0, <2>1, <2>2, <2>3, DrawAlone DEF panel
<1>3. CASE \E f \in Files : SetFile(f)
  <2>1. PICK f \in Files : SetFile(f)
    BY <1>3
  <2>2. /\ file' = f /\ StartDraw(f) /\ stored' = stored
        /\ UNCHANGED <<drawn, inspecting, screen>>
    BY <2>1 DEF SetFile
  <2> QED BY <2>2, Started DEF DrawTypes
<1>4. CASE SourceChanged
  <2>1. CASE StartDraw(file)
    BY <1>0, <1>4, <2>1, Started DEF SourceChanged, DrawTypes
  <2>2. CASE missed' = TRUE /\ UNCHANGED <<drawing, queued>>
    <3>1. UNCHANGED <<file, stored, asked, writes, drawn, declared, inspecting, screen, failed>>
      BY <1>4 DEF SourceChanged
    <3>2. ButtonsInv'
      BY <2>2, <3>1 DEF RedrawInv, ButtonsInv, Pressed, Current
    <3> QED BY <1>0, <2>2, <3>1, <3>2, DrawAlone
  <2> QED BY <1>4, <2>1, <2>2 DEF SourceChanged
<1>5. CASE Change \/ WindowCloses \/ UNCHANGED vars
  <2>1. /\ UNCHANGED <<file, stored, asked, writes, drawing, queued, drawn, declared, inspecting,
                       screen, failed>>
        /\ unseen' = TRUE \/ UNCHANGED <<unseen, missed, content>>
    BY <1>5 DEF Change, WindowCloses, vars, panel, store
  <2>2. ButtonsInv'
    BY <2>1 DEF RedrawInv, ButtonsInv, Pressed, Current
  <2> QED BY <1>0, <2>1, <2>2, DrawAlone
<1> QED BY <1>1, <1>2, <1>3, <1>4, <1>5, DrawStep, InspectStep, SettleStep, ReaderStep DEF Next

LEMMA PictureAgrees == DrawInv => ScreenAgrees
BY DEF DrawInv, RedrawInv, PictureInv, ContentInv, ButtonsInv, Pressed, ScreenAgrees, Quiet

LEMMA DrawInvInit == Init => DrawInv
BY InitTypes, QueueInit, RedrawInit DEF DrawInv

LEMMA DrawInvStep == DrawInv /\ [Next]_vars => DrawInv'
BY TypesStep, QueueStep, RedrawStep DEF DrawInv

\* For any files, profiles and nodes, and however draws, inspections, presses,
\* switches, saves and failures fall together: the findings on the nodes are of
\* the set the graph is of, and at rest the graph is of the file and the set that
\* are stored, and the buttons with it (draw, inspect, resyncProfiles).
THEOREM PictureAgreesAlways == Spec => []ScreenAgrees
BY DrawInvInit, DrawInvStep, PictureAgrees, PTL DEF Spec
=============================================================================
