------------------------------ MODULE Staging ------------------------------
(***************************************************************************)
(* Staged edits in the pane (extension/host/panel.ts and staging.ts): what *)
(* the reader asked for and has not saved, the strip that shows it, and    *)
(* the file it is about.                                                   *)
(*                                                                         *)
(* The extension host is one thread.  A handler runs from one `await` to   *)
(* the next without interruption, and everything else may run while it     *)
(* waits: an action is one such stretch.  The core answers a request in    *)
(* one step, because nothing overlaps a write there (Serve) and a write is *)
(* one rename.  What a request computes is EditRun's Run.                  *)
(***************************************************************************)
EXTENDS EditRun, FiniteSets

CONSTANTS Handlers,     \* onMessage calls that may be waiting together
          Keys,         \* config paths of the lines the file starts with
          NewKeys,      \* keys of entries that may be added
          Patient,      \* TRUE: the reader acts only when nothing is in flight
          Draw,         \* the redraw, an actor of its own
          Moves,        \* TRUE: `extract` moves are staged too
          LostReads,    \* TRUE: a preview may go unanswered as well as a write
          MaxPresses, MaxEdits, MaxTimeouts   \* bounds

Actors == Handlers \cup {Draw}

ASSUME StagingAssumption ==
  /\ Draw \notin Handlers /\ Keys \cap NewKeys = {} /\ IsFiniteSet(Keys)
  /\ {Patient, Moves, LostReads} \subseteq BOOLEAN
  /\ {MaxPresses, MaxEdits, MaxTimeouts} \subseteq Nat

VARIABLES
  disk,      \* the compose file
  staged,    \* Staging.byFile of it: a sequence of [key, op], in staging order
  move,      \* StackPanel.extract: [key, op, diff], or None
  strip,     \* what the pending strip says: "cleared", "stale" or "shown", and a diff
  pc,        \* [Actors -> "idle" or what it waits for]
  job,       \* [Actors -> the request it waits for, or None]
  late,      \* a write the panel stopped waiting for and the core will still run
  queued,    \* a redraw was asked for while one was running
  fresh,     \* the last redraw began less than REDRAW_DEDUPE_MS ago
  unseen,    \* the watcher has not yet told of the last change of the file
  owed,      \* history: what the reader was shown as staged, less what they
             \* took back, was written, or was said to be discarded
  presses, edits, timeouts   \* how much of each bound is used

bounds == <<presses, edits, timeouts>>
vars   == <<disk, staged, move, strip, pc, job, late, queued, fresh, unseen, owed, bounds>>

Waits == {"preview", "refresh", "apply", "extract", "applyMove"}

Op(kind, k, t) == [kind |-> kind, key |-> k, text |-> t, expect |-> None]

\* Staging keys: a value by its path, a removed entry by its own, an added one by
\* the list and the text, so that two texts are two entries.
StagingKey(op) ==
  CASE op.kind = "replace_scalar"        -> <<"", op.key, None>>
    [] op.kind = "delete_key"            -> <<op.kind, op.key, None>>
    [] op.kind = "insert_sequence_entry" -> <<op.kind, op.key, op.text>>
Entry(op) == [key |-> StagingKey(op), op |-> op]
Ops(entries) == [i \in DOMAIN entries |-> entries[i].op]
Bare(e) == [e EXCEPT !.op.expect = None]
Bares(entries) == {Bare(e) : e \in ToSet(entries)}

EditOps == {Op("replace_scalar", k, t) : k \in Keys, t \in Texts}
      \cup {Op("delete_key", k, None) : k \in Keys}
      \cup {Op("insert_sequence_entry", k, t) : k \in NewKeys, t \in Texts}

\* Staging.set: an entry replaces the one of its key in place, or goes last.
Set(entries, e) ==
  LET i == SelectInSeq(entries, LAMBDA x : x.key = e.key)
  IN  IF i = 0 THEN Append(entries, e) ELSE [entries EXCEPT ![i] = e]
SetAll(entries, more) == FoldLeft(Set, entries, more)

\* Staging.remove: the entry of a key goes.
Without(entries, k) == RemoveFirstMatch(entries, LAMBDA e : e.key = k)

Cleared     == [state |-> "cleared", diff |-> {}]
Stale       == [state |-> "stale", diff |-> {}]
Shown(diff) == [state |-> "shown", diff |-> diff]

Failed == [end |-> "failed", doc |-> <<>>, ranges |-> <<>>]

Init ==
  /\ disk \in [1..Cardinality(Keys) -> [key : Keys, text : Texts]]
  /\ \A i, j \in DOMAIN disk : i # j => disk[i].key # disk[j].key
  /\ staged = <<>> /\ move = None /\ strip = Cleared
  /\ pc = [a \in Actors |-> "idle"] /\ job = [a \in Actors |-> None]
  /\ late = None /\ queued = FALSE /\ fresh = FALSE /\ unseen = FALSE
  /\ owed = {} /\ presses = 0 /\ edits = 0 /\ timeouts = 0
-----------------------------------------------------------------------------
(* Ends of a stretch.                                                      *)

\* session.request: the actor waits for the answer.
Ask(a, wait, entries, redraw) ==
  /\ pc' = [pc EXCEPT ![a] = wait]
  /\ job' = [job EXCEPT ![a] = [entries |-> entries, redraw |-> redraw, reply |-> None,
                                shown |-> strip.diff, wasDisk |-> disk]]
  /\ UNCHANGED <<queued, fresh>>

\* The handler returns, after `refill` when it redraws.  draw() while one is
\* drawing only queues another, which starts when that one ends.
Settle(a, redraw) ==
  LET wanted == redraw \/ (a = Draw /\ queued)
      busy   == a # Draw /\ pc[Draw] # "idle"
  IN  /\ pc' = [pc EXCEPT ![a] = "idle",
                          ![Draw] = IF wanted /\ ~busy THEN "resolve"
                                    ELSE IF a = Draw THEN "idle" ELSE pc[Draw]]
      /\ job' = [job EXCEPT ![a] = None]
      /\ queued' = IF a = Draw THEN FALSE ELSE queued \/ (redraw /\ busy)
      /\ fresh' = (fresh \/ (wanted /\ ~busy))

RefreshEdits(a, entries, mv, redraw) ==   \* mutant: returns early over a move
  IF mv # None \/ entries = <<>>
    THEN UNCHANGED strip /\ Settle(a, redraw)
  ELSE Ask(a, "refresh", entries, redraw) /\ UNCHANGED strip

\* refreshPending, to its one await: a staged move is the whole of the set and
\* carries its own diff; an empty set clears the strip; the rest is previewed.
RefreshPending(a, entries, mv, redraw) ==
  IF mv # None
    THEN strip' = Shown(mv.diff) /\ Settle(a, redraw)
  ELSE IF entries = <<>>
    THEN strip' = Cleared /\ Settle(a, redraw)
  ELSE Ask(a, "refresh", entries, redraw) /\ UNCHANGED strip

DiscardQuietly(stale) ==   \* mutant: no reason is posted
  /\ staged' = <<>> /\ move' = None /\ strip' = Cleared
  /\ owed' = IF stale THEN owed ELSE {}

\* discardStages: both forms of stage go, and a stale discard is said.
Discard(stale) ==
  /\ staged' = <<>> /\ move' = None
  /\ strip' = IF stale THEN Stale
              ELSE IF staged # <<>> \/ move # None THEN Cleared ELSE strip
  /\ owed' = {}

\* reportEditFailure: a stale answer discards everything, any other is told as
\* a refusal and changes nothing.
ReportFailure(reply) ==
  \/ reply.end = "stale" /\ Discard(TRUE)
  \/ reply.end \in {"refused", "failed"} /\ UNCHANGED <<staged, move, strip, owed>>
-----------------------------------------------------------------------------
(* The reader.                                                             *)

AtRest == \A a \in Actors : pc[a] = "idle"

Press(h) ==
  /\ pc[h] = "idle" /\ (Patient => AtRest)
  /\ presses < MaxPresses /\ presses' = presses + 1
  /\ UNCHANGED <<disk, late, unseen, edits, timeouts>>

\* stageAll, to its preview: refused while a move is staged; otherwise the whole
\* set as it would be is previewed, every older entry with its recorded range.
MayStage == move = None
Stage(h, op) ==
  /\ Press(h)
  /\ MayStage
  /\ Ask(h, "preview", Set(staged, Entry(op)), FALSE)
  /\ UNCHANGED <<staged, move, strip, owed>>

\* What was previewed is staged, at the ranges it was previewed at.
Record(entries, reply) ==
  [i \in DOMAIN entries |-> [entries[i] EXCEPT !.op.expect = reply.ranges[i]]]

Preview(h) ==
  LET reply == job[h].reply
      all   == SetAll(staged, Record(job[h].entries, reply))
  IN  /\ pc[h] = "preview" /\ reply # None
      /\ \/ /\ reply.end = "ok"
            /\ staged' = all
            /\ owed' = {e \in owed : \A x \in ToSet(all) : x.key # e.key} \cup Bares(all)
            /\ RefreshPending(h, all, move, FALSE)
            /\ UNCHANGED move
         \/ /\ ReportFailure(reply)
            /\ Settle(h, FALSE)
      /\ UNCHANGED <<disk, late, unseen, bounds>>

\* The answer of refreshPending's preview, for a handler or for the redraw.
Refresh(a) ==
  LET reply == job[a].reply
  IN  /\ pc[a] = "refresh" /\ reply # None
      /\ \/ /\ reply.end = "ok"
            /\ strip' = Shown(Diff(job[a].wasDisk, reply.doc))
            /\ UNCHANGED <<staged, move, owed>>
         \/ ReportFailure(reply)
      /\ Settle(a, job[a].redraw)
      /\ UNCHANGED <<disk, late, unseen, bounds>>

\* 'unstage': drop one, show the rest, redraw.
Unstage(h, k) ==
  LET rest == Without(staged, k)
  IN  /\ Press(h)
      /\ rest # staged
      /\ staged' = rest
      /\ owed' = {e \in owed : e.key # k}
      /\ RefreshPending(h, rest, move, TRUE)
      /\ UNCHANGED move

\* 'discard': the button is there while the strip shows something.
DiscardAll(h) ==
  /\ Press(h)
  /\ strip.state = "shown"
  /\ Discard(FALSE)
  /\ Settle(h, TRUE)

\* stageExtract: refused while anything is staged; the move is previewed.
MayMove == staged = <<>>
StageMove(h, op) ==
  /\ Moves /\ Press(h)
  /\ MayMove
  /\ Ask(h, "extract", <<Entry(op)>>, FALSE)
  /\ UNCHANGED <<staged, move, strip, owed>>

Extract(h) ==
  LET reply == job[h].reply
      held  == [Record(job[h].entries, reply)[1] EXCEPT !.key = <<"move", @[2], None>>]
      mv    == [entry |-> held, diff |-> Diff(job[h].wasDisk, reply.doc)]
  IN  /\ pc[h] = "extract" /\ reply # None
      /\ \/ /\ reply.end = "ok"
            /\ move' = mv
            /\ RefreshPending(h, staged, mv, FALSE)
            /\ UNCHANGED <<staged, owed>>
         \/ /\ ReportFailure(reply)
            /\ Settle(h, FALSE)
      /\ UNCHANGED <<disk, late, unseen, bounds>>

\* save, to its await: the move if there is one, else everything staged.
Save(h) ==
  /\ Press(h)
  /\ strip.state = "shown"
  /\ \/ move # None /\ Ask(h, "applyMove", <<move.entry>>, TRUE)
     \/ move = None /\ staged # <<>> /\ Ask(h, "apply", staged, TRUE)
  /\ UNCHANGED <<staged, move, strip, owed>>

\* Written: the stage is spent.  Stale: discarded, and said.  Else kept.
Spend == staged' = <<>>
Applied(h) ==
  LET reply == job[h].reply
  IN  /\ pc[h] = "apply" /\ reply # None
      /\ \/ /\ reply.end = "ok"
            /\ Spend /\ strip' = Cleared
            /\ Settle(h, TRUE)
            /\ UNCHANGED <<move, owed>>
         \/ /\ reply.end = "stale"
            /\ Discard(TRUE)
            /\ Settle(h, TRUE)
         \/ /\ reply.end \in {"refused", "failed"}
            /\ Settle(h, FALSE)
            /\ UNCHANGED <<staged, move, strip, owed>>
      /\ UNCHANGED <<disk, late, unseen, bounds>>

MoveApplied(h) ==
  LET reply == job[h].reply
  IN  /\ pc[h] = "applyMove" /\ reply # None
      /\ \/ /\ reply.end = "ok"
            /\ move' = None /\ strip' = Cleared
            /\ Settle(h, TRUE)
            /\ UNCHANGED <<staged, owed>>
         \/ /\ reply.end = "stale"
            /\ Discard(TRUE)
            /\ Settle(h, TRUE)
         \/ /\ reply.end \in {"refused", "failed"}
            /\ Settle(h, FALSE)
            /\ UNCHANGED <<staged, move, strip, owed>>
      /\ UNCHANGED <<disk, late, unseen, bounds>>
-----------------------------------------------------------------------------
(* The core.                                                               *)

Writes(a) == pc[a] \in {"apply", "applyMove"}
Pending(a) == pc[a] \in Waits /\ job[a].reply = None

\* A preview, and the document it was computed from.
CoreReads(a) ==
  /\ Pending(a) /\ ~Writes(a)
  /\ job' = [job EXCEPT ![a].reply = Run(disk, Ops(job[a].entries)), ![a].wasDisk = disk]
  /\ UNCHANGED <<disk, staged, move, strip, pc, late, queued, fresh, unseen, owed, bounds>>

\* What a write leaves on disk, and the reader's stages it satisfied.
Written(entries) ==
  LET result == Run(disk, Ops(entries))
  IN  IF result.end = "ok"
        THEN disk' = result.doc /\ unseen' = TRUE /\ owed' = owed \ Bares(entries)
        ELSE UNCHANGED <<disk, unseen, owed>>

CoreWrites(a) ==
  /\ Pending(a) /\ Writes(a)
  /\ job' = [job EXCEPT ![a].reply = Run(disk, Ops(job[a].entries))]
  /\ Written(job[a].entries)
  /\ UNCHANGED <<staged, move, strip, pc, late, queued, fresh, bounds>>

\* The client's own deadline, or the core going away: the handler gets an error,
\* and a write that was sent may still be run.
Timeout(a) ==
  /\ pc[a] \in Waits /\ (LostReads \/ Writes(a))
  /\ job[a].reply # Failed
  /\ late = None
  /\ timeouts < MaxTimeouts /\ timeouts' = timeouts + 1
  /\ job' = [job EXCEPT ![a].reply = Failed]
  /\ late' = IF Writes(a) /\ Pending(a) THEN job[a] ELSE None
  /\ UNCHANGED <<disk, staged, move, strip, pc, queued, fresh, unseen, owed, presses, edits>>

CoreWritesLate ==
  /\ late # None
  /\ Written(late.entries)
  /\ late' = None
  /\ UNCHANGED <<staged, move, strip, pc, job, queued, fresh, bounds>>
-----------------------------------------------------------------------------
(* The file changing, and the redraw.                                      *)

\* Somebody else saves the file: one line reads differently.
ExternalEdit ==
  /\ edits < MaxEdits /\ edits' = edits + 1
  /\ \E i \in DOMAIN disk, t \in Texts :
       /\ disk[i].text # t
       /\ disk' = [disk EXCEPT ![i].text = t]
  /\ unseen' = TRUE
  /\ UNCHANGED <<staged, move, strip, pc, job, late, queued, fresh, owed, presses, timeouts>>

\* onSourceChanged: ignored if a redraw has only just begun, whoever made the
\* change; otherwise everything staged is discarded and the file redrawn.
ChangeSeen ==
  /\ unseen /\ unseen' = FALSE
  /\ IF fresh
       THEN UNCHANGED <<staged, move, strip, owed, pc, job, queued, fresh>>
     ELSE
       /\ IF staged # <<>> \/ move # None
            THEN Discard(TRUE)
            ELSE UNCHANGED <<staged, move, strip, owed>>
       /\ pc' = [pc EXCEPT ![Draw] = IF pc[Draw] = "idle" THEN "resolve" ELSE pc[Draw]]
       /\ queued' = (queued \/ pc[Draw] # "idle")
       /\ fresh' = (pc[Draw] = "idle")
       /\ UNCHANGED job
  /\ UNCHANGED <<disk, late, bounds>>

WindowCloses ==
  /\ fresh /\ fresh' = FALSE
  /\ UNCHANGED <<disk, staged, move, strip, pc, job, late, queued, unseen, owed, bounds>>

\* draw: the resolve failed or the stack is empty, or it ends by showing the
\* strip again.
Drawn ==
  /\ pc[Draw] = "resolve"
  /\ \/ Settle(Draw, FALSE) /\ UNCHANGED strip
     \/ RefreshPending(Draw, staged, move, FALSE)
  /\ UNCHANGED <<disk, staged, move, late, unseen, owed, bounds>>

ReaderStep(h) ==
  \/ \E op \in EditOps : Stage(h, op)
  \/ \E e \in ToSet(staged) : Unstage(h, e.key)
  \/ DiscardAll(h) \/ Save(h)
  \/ \E k \in Keys, t \in Texts : StageMove(h, Op("replace_scalar", k, t))

HandlerStep(h) == Preview(h) \/ Extract(h) \/ Applied(h) \/ MoveApplied(h)

Next ==
  \/ \E h \in Handlers : ReaderStep(h) \/ HandlerStep(h)
  \/ \E a \in Actors : Refresh(a) \/ CoreReads(a) \/ CoreWrites(a) \/ Timeout(a)
  \/ CoreWritesLate \/ ExternalEdit \/ ChangeSeen \/ WindowCloses \/ Drawn

Spec == Init /\ [][Next]_vars
-----------------------------------------------------------------------------
Lines   == [key : Keys \cup NewKeys, text : Texts]
Expects == [start : Nat, end : Nat, text : Texts \cup {None}]
HeldOps == [kind : Kinds, key : Keys \cup NewKeys, text : Texts \cup {None},
            expect : Expects \cup {None}]
Marks   == {"", "delete_key", "insert_sequence_entry", "move"}
Entries == [key : Marks \X (Keys \cup NewKeys) \X (Texts \cup {None}), op : HeldOps]
Diffs   == SUBSET ((Keys \cup NewKeys) \X Seq(Lines) \X Seq(Lines))
Replies == [end : {"ok", "stale", "refused", "failed"}, doc : Seq(Lines), ranges : Seq(Expects)]
Jobs    == [entries : Seq(Entries), redraw : BOOLEAN, reply : Replies \cup {None},
            shown : Diffs, wasDisk : Seq(Lines)]

\* No answer is None.
ASSUME AnswerAssumption ==
  None \notin [end : {"ok", "stale", "refused", "failed"}, doc : Seq(Lines), ranges : Seq(Expects \cup {None})]

TypeOK ==
  /\ disk \in Seq(Lines)
  /\ staged \in Seq(Entries)
  /\ move \in [entry : Entries, diff : Diffs] \cup {None}
  /\ strip \in [state : {"cleared", "stale", "shown"}, diff : Diffs]
  /\ pc \in [Actors -> Waits \cup {"idle", "resolve"}]
  /\ job \in [Actors -> Jobs \cup {None}]
  /\ late \in Jobs \cup {None}
  /\ {queued, fresh, unseen} \subseteq BOOLEAN
  /\ owed \subseteq Entries
  /\ presses \in 0..MaxPresses /\ edits \in 0..MaxEdits /\ timeouts \in 0..MaxTimeouts

\* A file has a staged move or staged edits, never both: each holds byte ranges
\* the other would shift (stageExtract, and the head of stageAll).
Exclusive == ~(move # None /\ staged # <<>>)

\* What lands is what the reader pressed Save on, and lands once: whatever has
\* happened to the file since, a write changes the lines the strip showed, from
\* what it showed to what it showed, or nothing at all (refreshPending: "the
\* whole claim is that the diff the reader approves is the diff that lands").
StripIsWhatLands ==
  [][disk' # disk /\ edits' = edits
     => \/ late # None /\ late' = None /\ Diff(disk, disk') = late.shown
        \/ \E a \in Actors : Writes(a) /\ Pending(a) /\ Diff(disk, disk') = job[a].shown]_vars

\* What an operation leaves of the line it is about.
After(op) == IF op.kind = "replace_scalar" THEN <<Line(op.key, op.text)>> ELSE <<>>

\* The change of one line that a request may make: from the text one of its
\* entries was previewed on to what one of them asks; or a line more.
Allowed(entries, d) ==
  LET mine == {e.op : e \in {x \in ToSet(entries) : x.op.key = d[1]}}
  IN  IF d[1] \in NewKeys
        THEN mine # {} /\ Len(d[3]) > Len(d[2])
        ELSE /\ \E op \in mine : op.expect # None /\ d[2] = <<Line(d[1], op.expect.text)>>
             /\ \E op \in mine : d[3] = After(op)
AsRecorded(entries) == \A d \in Diff(disk, disk') : Allowed(entries, d)

\* However hastily the reader acts, and whatever is lost or late: a line is
\* rewritten or taken out only from the text it had when that was previewed,
\* and only to what was asked; a text nobody was shown is never written over
\* (edit.run: an operation whose range moved is stale).
LandsAsRecorded ==
  [][disk' # disk /\ edits' = edits
     => \/ late # None /\ late' = None /\ AsRecorded(late.entries)
        \/ \E a \in Actors : Writes(a) /\ Pending(a) /\ AsRecorded(job[a].entries)]_vars

\* Nothing the reader was shown as staged is gone unless it was written, taken
\* back, or said to be discarded (discardStages: "Silence here would be work the
\* reader thinks they still have").
KeptUntilTold == owed \subseteq Bares(staged)

\* As long as every request was answered: when nothing is in flight, whatever is
\* staged and would change the file is on the strip, with a Save beside it, so no
\* work waits unseen (refreshPending, after every change of the set and every
\* redraw).
StagesAreShown ==
  LET held    == IF move # None THEN {move.entry} ELSE ToSet(staged)
      Alters(op) == op.kind = "replace_scalar" => op.text # op.expect.text
      altered == {e.op.key : e \in {x \in held : Alters(x.op)}}
  IN  AtRest /\ timeouts = 0 /\ altered # {}
        => strip.state = "shown" /\ {d[1] : d \in strip.diff} = altered

\* An edit that could not be staged leaves the stages as they were, in a file
\* nobody else is touching (stageAll: "the set the reader had before this
\* attempt is exactly the set they still have").
AttemptKeepsSet ==
  [][\A h \in Handlers :
       /\ pc[h] = "preview" /\ pc'[h] = "idle" /\ job[h].reply.end # "ok"
       /\ edits = 0 /\ timeouts = 0
       => staged' = staged]_vars

\* The sentence that says a stage was discarded stays until the reader does
\* something (the manual: "the stage is discarded and the pane says so").
StaleStaysSaid == [][strip = Stale /\ strip' = Cleared => presses' # presses]_vars
=============================================================================
