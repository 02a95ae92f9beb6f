---------------------------- MODULE TwoFileWrite ----------------------------
(***************************************************************************)
(* `composure extract`: moving a literal of a compose file into a variable *)
(* of the `.env` beside it.  Two files change and no rename spans both.    *)
(*                                                                         *)
(* One action per file-system call of runExtract and writeBoth             *)
(* (internal/edit/extract.go), so that a crash, a failing call, another    *)
(* request or somebody else's save can fall between any two of them.  A    *)
(* document is what stands in it: a site of the compose file holds a       *)
(* literal, a name n, standing for `${n}`, or a pair <<n, l>>, standing    *)
(* for `${n:-l}`; the `.env` is what ParseDotEnv reads out of it.          *)
(***************************************************************************)
EXTENDS Naturals, FiniteSets

CONSTANTS Movers,      \* extract requests that may be in flight together
          Sites,       \* scalar positions of one compose file
          Names,       \* variable names
          Literals,    \* literal values, as they are written
          Fallbacks,   \* the references that carry a default, pairs <<n, l>>
          Reads,       \* [Literals -> what Compose reads one as]: `$$` is `$`
          Host,        \* [Names -> the host's own variables, Unset if none]
          Unwritable,  \* those no `.env` line reads back as (renderEnvValue)
          Unset,       \* what a name the `.env` does not define reads as
          None,        \* no expectation, no result, nothing computed yet
          Serialised,  \* TRUE: every request goes through one server's fs lock
          EditsRace,   \* TRUE: others may save while a request is running
          Dangling,    \* TRUE: people may leave `${n}` with n undefined
          MaxCrashes, MaxFaults, MaxEdits   \* bounds

ASSUME ConstantsAssumption ==
  /\ Literals \cap Names = {}
  /\ Unset \notin Literals \cup Names
  /\ None \notin Literals \cup Names \cup {Unset}
  /\ Unwritable \subseteq Literals
  /\ Fallbacks \subseteq Names \X Literals
  /\ Fallbacks \cap (Literals \cup Names) = {}
  /\ DOMAIN Reads = Literals /\ DOMAIN Host = Names
  /\ {Serialised, EditsRace, Dangling} \subseteq BOOLEAN
  /\ {MaxCrashes, MaxFaults, MaxEdits} \subseteq Nat

VARIABLES
  compose,   \* what stands at each site of the compose file on disk
  dotenv,    \* [there, vars], the `.env` on disk
  temps,     \* temporaries of live requests still on disk: <<mover, "env" or "compose">>
  pc,        \* [Movers -> the next call of the request, "idle" between requests]
  req,       \* [Movers -> the request being run]
  lit,       \* [Movers -> the literal read by literalAt]
  seen,      \* [Movers -> the compose document Preview spliced the name into]
  plan,      \* [Movers -> what assignEnv decided about the `.env`]
  before,    \* [Movers -> envBefore, read again by writeBoth]
  shown,     \* [Movers -> the preview the reader holds, or None]
  result,    \* [Movers -> how the last request ended, or None]
  entry,     \* history: [Movers -> both files as the request found them]
  faults, crashes, edits   \* how much of each bound is used

files  == <<compose, dotenv>>
locals == <<req, lit, seen, plan, before, entry>>
bounds == <<faults, crashes, edits>>
vars   == <<files, temps, pc, locals, shown, result, bounds>>

Scalars   == Literals \cup Names \cup Fallbacks
Documents == [Sites -> Scalars]
EnvFiles  == {e \in [there : BOOLEAN, vars : [Names -> Literals \cup {Unset}]] :
                ~e.there => e.vars = [n \in Names |-> Unset]}

\* The two halves of the staleness contract: Expect, the compose text and the
\* document it was located in; ExpectEnv, what the name was.
Expectations == [doc : Documents, was : Literals \cup {Unset}]

Requests == [site : Sites, name : Names, write : BOOLEAN,
             expect : Expectations \cup {None}]
Plans    == [unchanged : BOOLEAN, created : BOOLEAN,
             vars : [Names -> Literals \cup {Unset}]]

Refusals == {"interpolated", "stale", "nochange", "conflict", "value"}
Results  == Refusals \cup {"previewed", "failed", "rolledback", "inert", "done"}

Steps == {"lock", "readCompose", "preview", "readEnv", "readBefore", "stageEnv",
          "stageCompose", "renameEnv", "renameCompose", "rollback"}

\* The layers a variable is looked up in: a host variable outranks the `.env`,
\* whose value is inserted as it stands.
HostSets(n)    == Host[n] # Unset
Lookup(n, env) == IF HostSets(n) THEN Host[n] ELSE env.vars[n]

\* What a site means to Compose.
Meaning(s, doc, env) ==
  CASE doc[s] \in Names     -> Lookup(doc[s], env)
    [] doc[s] \in Fallbacks -> IF Lookup(doc[s][1], env) # Unset
                                 THEN Lookup(doc[s][1], env) ELSE Reads[doc[s][2]]
    [] OTHER                -> Reads[doc[s]]
Value(s) == Meaning(s, compose, dotenv)

DefinedRefs(doc, env) == \A s \in Sites : doc[s] \in Names => Lookup(doc[s], env) # Unset

Init ==
  /\ compose \in Documents
  /\ dotenv \in EnvFiles
  /\ Dangling \/ DefinedRefs(compose, dotenv)
  /\ temps = {}
  /\ pc = [m \in Movers |-> "idle"]
  /\ req \in [Movers -> {None}] /\ lit = req /\ seen = req /\ plan = req
  /\ before = req /\ entry = req /\ shown = req /\ result = req
  /\ faults = 0 /\ crashes = 0 /\ edits = 0
-----------------------------------------------------------------------------
Goto(m, from, to) == pc[m] = from /\ pc' = [pc EXCEPT ![m] = to]

\* The call returns: its frame is gone, its answer is the client's.
Finish(m, from, how) ==
  /\ Goto(m, from, "idle")
  /\ result' = [result EXCEPT ![m] = how]
  /\ req' = [req EXCEPT ![m] = None] /\ lit' = [lit EXCEPT ![m] = None]
  /\ seen' = [seen EXCEPT ![m] = None] /\ plan' = [plan EXCEPT ![m] = None]
  /\ before' = [before EXCEPT ![m] = None] /\ entry' = [entry EXCEPT ![m] = None]

Running(m) == pc[m] \notin {"idle", "lock"}

\* A file-system call that does not return nil.
Fault == faults < MaxFaults /\ faults' = faults + 1

\* The request arrives.  A preview and a command-line move carry no
\* expectation; the move the reader approved carries what its preview showed.
Submit(m, r) ==
  /\ Goto(m, "idle", "lock")
  /\ req' = [req EXCEPT ![m] = r]
  /\ result' = [result EXCEPT ![m] = None]
  /\ UNCHANGED <<files, temps, lit, seen, plan, before, entry, shown, bounds>>

SubmitPreview(m) == \E s \in Sites, n \in Names :
  Submit(m, [site |-> s, name |-> n, write |-> FALSE, expect |-> None])

SubmitBare(m) == \E s \in Sites, n \in Names :
  Submit(m, [site |-> s, name |-> n, write |-> TRUE, expect |-> None])

SubmitApproved(m) == shown[m] # None /\ Submit(m, shown[m])

\* planeRead takes the lock shared, planeWrite exclusive.
SharedForAll(m) == TRUE   \* mutant: extract-apply classified planeRead
MayLock(m) == Serialised => \A o \in Movers \ {m} :
                              Running(o) => ~req[o].write /\ ~req[m].write

Lock(m) ==
  /\ Goto(m, "lock", "readCompose")
  /\ MayLock(m)
  /\ entry' = [entry EXCEPT ![m] = files]
  /\ UNCHANGED <<files, temps, req, lit, seen, plan, before, shown, result, bounds>>
-----------------------------------------------------------------------------
\* literalAt refuses a scalar that carries a reference; `$$` is none (interpolated).
MovableAnyway(m) == TRUE   \* mutant: literalAt does not ask interpolated
Movable(m) == compose[req[m].site] \in Literals

\* os.ReadFile and literalAt: the value to move, as it is written.
ReadCompose(m) ==
  /\ pc[m] = "readCompose"
  /\ \/ /\ Movable(m)
        /\ Goto(m, "readCompose", "preview")
        /\ lit' = [lit EXCEPT ![m] = compose[req[m].site]]
        /\ UNCHANGED <<result, req, seen, plan, before, entry>>
     \/ ~Movable(m) /\ Finish(m, "readCompose", "interpolated")
  /\ UNCHANGED <<files, temps, shown, bounds>>

\* Expect is a byte range and its text: the text must be the same, and a change
\* elsewhere in the document may or may not have moved the range.
NoExpect(m) == TRUE   \* mutant: the request's Expect is not compared
ExpectMet(m) == req[m].expect # None
                  => req[m].expect.doc[req[m].site] = compose[req[m].site]
ExpectMayFail(m) == req[m].expect # None /\ req[m].expect.doc # compose

\* Preview of the one replace_scalar, which reads the compose file AGAIN.
PreviewCompose(m) ==
  /\ pc[m] = "preview"
  /\ \/ /\ ExpectMet(m)
        /\ compose[req[m].site] # req[m].name
        /\ Goto(m, "preview", "readEnv")
        /\ seen' = [seen EXCEPT ![m] = compose]
        /\ UNCHANGED <<result, req, lit, plan, before, entry>>
     \/ ExpectMayFail(m) /\ Finish(m, "preview", "stale")
     \/ /\ ExpectMet(m)
        /\ compose[req[m].site] = req[m].name
        /\ Finish(m, "preview", "nochange")
  /\ UNCHANGED <<files, temps, shown, bounds>>

\* What the `.env` says the name is, at this instant.
Now(m) == dotenv.vars[req[m].name]

\* checkEnvExpect: unmoved since the preview, or this move's own residue.
EnvExpectExact(m) ==   \* mutant: without the third passing state
  req[m].expect # None => Now(m) = req[m].expect.was
EnvExpectMet(m) == req[m].expect # None
                     => \/ Now(m) = req[m].expect.was
                        \/ (req[m].expect.was = Unset /\ Now(m) = lit[m])

\* The answer of assignEnv that is not a refusal: keep the file, or add a line
\* that reads back as the literal.
AssignEnv(m) == [unchanged |-> Now(m) = lit[m],
                 created   |-> ~dotenv.there,
                 vars      |-> [dotenv.vars EXCEPT ![req[m].name] = lit[m]]]

AssignAnyway(m) == TRUE   \* mutant: no conflict, no readback
CanAssign(m) == \/ Now(m) = lit[m]
                \/ (Now(m) = Unset /\ lit[m] \notin Unwritable)

\* The `.env` half, everything that can refuse, and the end of a preview.
ReadEnv(m) ==
  /\ pc[m] = "readEnv"
  /\ \/ ~EnvExpectMet(m) /\ Finish(m, "readEnv", "stale") /\ UNCHANGED shown
     \/ /\ EnvExpectMet(m)
        /\ Now(m) \notin {Unset, lit[m]}
        /\ Finish(m, "readEnv", "conflict")
        /\ UNCHANGED shown
     \/ /\ EnvExpectMet(m)
        /\ Now(m) = Unset /\ lit[m] \in Unwritable
        /\ Finish(m, "readEnv", "value")
        /\ UNCHANGED shown
     \/ /\ EnvExpectMet(m) /\ CanAssign(m) /\ ~req[m].write
        /\ Finish(m, "readEnv", "previewed")
        /\ shown' = [shown EXCEPT ![m] =
             [req[m] EXCEPT !.write = TRUE, !.expect = [doc |-> seen[m], was |-> Now(m)]]]
     \/ /\ EnvExpectMet(m) /\ CanAssign(m) /\ req[m].write
        /\ Goto(m, "readEnv", IF Now(m) = lit[m] THEN "stageCompose" ELSE "readBefore")
        /\ plan' = [plan EXCEPT ![m] = AssignEnv(m)]
        /\ UNCHANGED <<shown, result, req, lit, seen, before, entry>>
  /\ UNCHANGED <<files, temps, bounds>>
-----------------------------------------------------------------------------
\* writeBoth's own read of the `.env`, kept for the rollback.
ReadBefore(m) ==
  /\ Goto(m, "readBefore", "stageEnv")
  /\ before' = [before EXCEPT ![m] = dotenv.vars]
  /\ UNCHANGED <<files, temps, req, lit, seen, plan, entry, shown, result, bounds>>

\* One of the four os.ReadFile calls fails, the `.env` simply missing excepted.
ReadFails(m) ==
  /\ pc[m] \in {"readCompose", "preview", "readEnv", "readBefore"}
  /\ Fault
  /\ Finish(m, pc[m], "failed")
  /\ UNCHANGED <<files, temps, shown, crashes, edits>>

\* stageFile: create, write, sync, chmod; it removes its own temp on failure.
StageEnv(m) ==
  /\ \/ /\ Goto(m, "stageEnv", "stageCompose")
        /\ temps' = temps \cup {<<m, "env">>}
        /\ UNCHANGED <<result, faults, locals>>
     \/ Fault /\ Finish(m, "stageEnv", "failed") /\ UNCHANGED temps
  /\ UNCHANGED <<files, shown, crashes, edits>>

\* For both writes: writeFile's temp when the `.env` is unchanged.
AfterStaging(m) == "renameCompose"   \* mutant: the compose file first
NextRename(m) == IF plan[m].unchanged THEN "renameCompose" ELSE "renameEnv"

StagedBefore(m) == {}   \* mutant: the other temp is forgotten
Staged(m) == {<<m, "env">>}

StageCompose(m) ==
  /\ pc[m] = "stageCompose"
  /\ \/ /\ Goto(m, "stageCompose", NextRename(m))
        /\ temps' = temps \cup {<<m, "compose">>}
        /\ UNCHANGED <<result, faults, locals>>
     \/ /\ Fault
        /\ Finish(m, "stageCompose", "failed")
        /\ temps' = temps \ Staged(m)
  /\ UNCHANGED <<files, shown, crashes, edits>>

RenameEnv(m) ==
  /\ \/ /\ Goto(m, "renameEnv", "renameCompose")
        /\ dotenv' = [there |-> TRUE, vars |-> plan[m].vars]
        /\ temps' = temps \ {<<m, "env">>}
        /\ UNCHANGED <<result, faults, locals>>
     \/ /\ Fault
        /\ Finish(m, "renameEnv", "failed")
        /\ temps' = temps \ {<<m, "env">>, <<m, "compose">>}
        /\ UNCHANGED dotenv
  /\ UNCHANGED <<compose, shown, crashes, edits>>

RenameCompose(m) ==
  /\ pc[m] = "renameCompose"
  /\ temps' = temps \ {<<m, "compose">>}
  /\ \/ /\ Finish(m, "renameCompose", "done")
        /\ compose' = [seen[m] EXCEPT ![req[m].site] = req[m].name]
        /\ UNCHANGED faults
     \/ /\ Fault
        /\ plan[m].unchanged
        /\ Finish(m, "renameCompose", "failed")
        /\ UNCHANGED compose
     \/ /\ Fault
        /\ ~plan[m].unchanged
        /\ Goto(m, "renameCompose", "rollback")
        /\ UNCHANGED <<compose, result, locals>>
  /\ UNCHANGED <<dotenv, shown, crashes, edits>>

\* rollbackEnv: removed if this move created it, its own bytes otherwise.
RestoredBytes(m) == [there |-> TRUE, vars |-> before[m]]   \* mutant: never removed
RolledBack(m) == IF plan[m].created
                   THEN [there |-> FALSE, vars |-> [n \in Names |-> Unset]]
                   ELSE [there |-> TRUE, vars |-> before[m]]

Rollback(m) ==
  /\ \/ /\ Finish(m, "rollback", "rolledback")
        /\ dotenv' = RolledBack(m)
        /\ UNCHANGED faults
     \/ Fault /\ Finish(m, "rollback", "inert") /\ UNCHANGED dotenv
  /\ UNCHANGED <<compose, temps, shown, crashes, edits>>
-----------------------------------------------------------------------------
\* The process dies.  Its temporaries keep their random names and are never
\* looked at again; the preview is the editor's and survives.
Crash ==
  /\ crashes < MaxCrashes
  /\ crashes' = crashes + 1
  /\ pc' = [m \in Movers |-> "idle"]
  /\ req' = [m \in Movers |-> None]
  /\ lit' = req' /\ seen' = req' /\ plan' = req' /\ before' = req' /\ entry' = req'
  /\ temps' = {}
  /\ UNCHANGED <<files, shown, result, faults, edits>>

\* Somebody else saves one of the files.  Unless Dangling they leave every
\* reference defined, and unless EditsRace they do not save during a request.
Edit ==
  /\ edits < MaxEdits
  /\ edits' = edits + 1
  /\ EditsRace \/ \A m \in Movers : ~Running(m)
  /\ \/ /\ \E s \in Sites, c \in Scalars : compose' = [compose EXCEPT ![s] = c]
        /\ UNCHANGED dotenv
     \/ /\ \E n \in Names, v \in Literals \cup {Unset} :
             dotenv' = [there |-> TRUE, vars |-> [dotenv.vars EXCEPT ![n] = v]]
        /\ UNCHANGED compose
  /\ Dangling \/ DefinedRefs(compose', dotenv')
  /\ UNCHANGED <<temps, pc, locals, shown, result, faults, crashes>>

Step(m) == \/ Lock(m) \/ ReadCompose(m) \/ PreviewCompose(m) \/ ReadEnv(m)
           \/ ReadBefore(m) \/ ReadFails(m) \/ StageEnv(m) \/ StageCompose(m)
           \/ RenameEnv(m) \/ RenameCompose(m) \/ Rollback(m)

Next == \/ \E m \in Movers : SubmitPreview(m) \/ SubmitBare(m) \/ SubmitApproved(m) \/ Step(m)
        \/ Crash
        \/ Edit

Spec == Init /\ [][Next]_vars

\* A reader who previews one move and re-runs it, whatever interrupts it and
\* whoever else saves the files meanwhile.
ReaderNext(m) == \/ (shown[m] = None /\ SubmitPreview(m))
                 \/ SubmitApproved(m)
                 \/ Step(m)

Rerun == \/ \E m \in Movers : ReaderNext(m)
         \/ Crash
         \/ Edit

\* Calls return, and the reader re-runs a move that was not finished.
RerunSpec == /\ Init /\ [][Rerun]_vars
             /\ \A m \in Movers : WF_vars(Step(m)) /\ WF_vars(SubmitApproved(m))
-----------------------------------------------------------------------------
TypeOK ==
  /\ compose \in Documents
  /\ dotenv \in EnvFiles
  /\ temps \subseteq Movers \X {"env", "compose"}
  /\ pc \in [Movers -> Steps \cup {"idle"}]
  /\ req \in [Movers -> Requests \cup {None}]
  /\ lit \in [Movers -> Literals \cup {None}]
  /\ seen \in [Movers -> Documents \cup {None}]
  /\ plan \in [Movers -> Plans \cup {None}]
  /\ before \in [Movers -> [Names -> Literals \cup {Unset}] \cup {None}]
  /\ entry \in [Movers -> (Documents \X EnvFiles) \cup {None}]
  /\ shown \in [Movers -> Requests \cup {None}]
  /\ result \in [Movers -> Results \cup {None}]
  /\ faults \in 0..MaxFaults /\ crashes \in 0..MaxCrashes /\ edits \in 0..MaxEdits

\* The state the order of the two renames exists to forbid: a compose file that
\* reads `${n}` with nothing to define n, at any instant, crashes included
\* (extract.go, step 3: "which under `docker compose` is the EMPTY STRING").
NoBlankPassword == DefinedRefs(compose, dotenv)

\* What a literal means once it has been moved to a name: its raw text, or what
\* the host sets the name to.
Arrives(l, n) == IF HostSets(n) THEN Host[n] ELSE l

\* No step of a move, and no crash, changes what the REST of the stack means.
\* The site moved turns into its raw text, `$$` and all, or into what the host
\* sets the name to; no other site changes, an `${n}` that was already there
\* included, except one that carries a default, which leaves it or returns to it
\* (runExtract as a whole; assignEnv refuses a name that is something else).
RestKeepsMeaning ==
  [][edits' = edits =>
       \A s \in Sites :
         IF compose'[s] = compose[s]
           THEN \/ Value(s)' = Value(s)
                \/ compose[s] \in Fallbacks /\ Reads[compose[s][2]] \in {Value(s), Value(s)'}
           ELSE /\ compose[s] \in Literals /\ compose'[s] \in Names
                /\ Value(s)' = Arrives(compose[s], compose'[s])]_vars

\* What the code says of a move and does not keep: the line written reads back
\* as the value taken out, and "Anything else silently changes the stack's
\* behaviour while reporting success" (extract.go, step 1's second validation).
\* Only somebody else's save should change what a site means.
MeaningKept == [][edits' = edits => \A s \in Sites : Value(s)' = Value(s)]_vars

\* What the code says of the residue and does not keep: "a `.env` carrying a
\* variable nothing references: INERT" (extract.go, step 3).  A step that writes
\* the `.env` alone should change what no site means.
ResidueIsInert ==
  [][edits' = edits /\ compose' = compose => \A s \in Sites : Value(s)' = Value(s)]_vars

\* A move that refuses or fails leaves both files as it found them; when the
\* rollback fails too, the `.env` has gained this move's own line and no more
\* (the sentinels' "NEITHER file was touched", and writeBoth's error paths).
AllOrNothing ==
  [][\A m \in Movers :
       /\ Running(m) /\ pc'[m] = "idle" /\ crashes' = crashes
       /\ result'[m] # "done"
       => \/ files' = entry[m]
          \/ /\ result'[m] = "inert"
             /\ compose' = entry[m][1]
             /\ dotenv' = [there |-> TRUE,
                            vars |-> [entry[m][2].vars EXCEPT ![req[m].name] = lit[m]]]]_vars

\* A request that ended without a crash has no temporary left beside the files
\* (writeBoth and writeFile remove what they staged on every error path).
NoTempLeft == \A t \in temps : pc[t[1]] # "idle"

\* An approved move writes what its preview showed: the literal that was on
\* screen, and a name that was undefined then or already that literal (AD-19's
\* Expect on one half, checkEnvExpect on the other).
WritesWhatWasShown ==
  [][\A m \in Movers :
       pc[m] = "renameCompose" /\ compose' # compose /\ req[m].expect # None
       => LET moved == dotenv'.vars[req[m].name]
          IN  /\ moved = req[m].expect.doc[req[m].site]
              /\ req[m].expect.was \in {Unset, moved}]_vars

\* A move that passed its checks is finished by re-running it, once nobody else
\* saves any more (edits = MaxEdits, the last of their saves): neither the
\* crash it was interrupted by nor the line that crash left in the `.env` makes
\* the re-run stale, a conflict or a failure for ever (extract.go: "INERT, and
\* converging"; checkEnvExpect's third passing state).  When the document changed
\* elsewhere since the preview, where Expect's range points is not modelled.
Converges ==
  \A m \in Movers, s \in Sites, n \in Names :
    (edits = MaxEdits /\ pc[m] = "readBefore" /\ ~ExpectMayFail(m)
       /\ req[m].site = s /\ req[m].name = n)
      ~> (compose[s] = n)

\* The detailed write implements the contract of AtomicMove.
Contract == INSTANCE AtomicMove
              WITH compose <- compose, dotenv <- dotenv
AtomicMoveSpec == Contract!Spec
=============================================================================
