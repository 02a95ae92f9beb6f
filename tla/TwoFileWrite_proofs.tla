------------------------ MODULE TwoFileWrite_proofs ------------------------
(***************************************************************************)
(* Proofs about TwoFileWrite, for any sites, names, literals and movers    *)
(* and any number of crashes, faults and edits.                            *)
(***************************************************************************)
EXTENDS TwoFileWrite, TLAPS

EnvVars == [Names -> Literals \cup {Unset}]

TwoFileSteps == {"readBefore", "stageEnv", "renameEnv", "rollback"}
WriteSteps   == TwoFileSteps \cup {"stageCompose", "renameCompose"}

\* What a request has computed by the time it is at each step.
FrameOK(m) ==
  /\ pc[m] # "idle" => req[m] \in Requests
  /\ pc[m] \notin {"idle", "lock", "readCompose"} => lit[m] \in Literals
  /\ pc[m] \in WriteSteps \cup {"readEnv"} => seen[m] \in Documents
  /\ pc[m] \in WriteSteps => plan[m] \in Plans /\ req[m].write
  /\ pc[m] \in TwoFileSteps => ~plan[m].unchanged
  /\ pc[m] \in WriteSteps \ {"readBefore"} /\ ~plan[m].unchanged => before[m] \in EnvVars

FramesOK ==
  /\ pc \in [Movers -> Steps \cup {"idle"}]
  /\ req \in [Movers -> Requests \cup {None}]
  /\ lit \in [Movers -> Literals \cup {None}]
  /\ seen \in [Movers -> Documents \cup {None}]
  /\ plan \in [Movers -> Plans \cup {None}]
  /\ before \in [Movers -> EnvVars \cup {None}]
  /\ entry \in [Movers -> (Documents \X EnvFiles) \cup {None}]
  /\ \A m \in Movers : FrameOK(m)

DiskOK ==
  /\ compose \in Documents
  /\ dotenv \in EnvFiles
  /\ temps \subseteq Movers \X {"env", "compose"}
  /\ shown \in [Movers -> Requests \cup {None}]
  /\ result \in [Movers -> Results \cup {None}]
  /\ faults \in 0..MaxFaults /\ crashes \in 0..MaxCrashes /\ edits \in 0..MaxEdits

TypeInv == FramesOK /\ DiskOK

LEMMA TypeInvTypeOK == TypeInv => TypeOK
BY DEF TypeInv, FramesOK, DiskOK, TypeOK, EnvVars

LEMMA TypeInit == Init => TypeInv
BY ConstantsAssumption
   DEF Init, TypeInv, FramesOK, DiskOK, FrameOK, WriteSteps, TwoFileSteps, Steps

\* A request that returns leaves the frames of the others alone.
LEMMA FinishFrames ==
  ASSUME FramesOK, NEW m \in Movers, NEW from, NEW how, Finish(m, from, how)
  PROVE  FramesOK'
BY DEF FramesOK, Finish, Goto, FrameOK, WriteSteps, TwoFileSteps

LEMMA FinishResult ==
  ASSUME DiskOK, NEW m \in Movers, NEW from, NEW how \in Results, Finish(m, from, how)
  PROVE  result' \in [Movers -> Results \cup {None}]
BY DEF DiskOK, Finish

LEMMA FaultBound == ASSUME DiskOK, Fault PROVE faults' \in 0..MaxFaults
BY ConstantsAssumption DEF DiskOK, Fault

LEMMA TypeStep == TypeInv /\ [Next]_vars => TypeInv'
<1> SUFFICES ASSUME TypeInv, [Next]_vars PROVE TypeInv'
  OBVIOUS
<1>f. FramesOK /\ DiskOK
  BY DEF TypeInv
<1>s. UNCHANGED locals /\ UNCHANGED pc => FramesOK'
  BY <1>f DEF FramesOK, FrameOK, locals
<1> USE DEF TypeInv
<1>1. ASSUME NEW m \in Movers, NEW r \in Requests, Submit(m, r) PROVE TypeInv'
  <2>1. FramesOK'
    BY <1>1, <1>f DEF Submit, Goto, FramesOK, FrameOK, Steps, WriteSteps, TwoFileSteps
  <2>2. DiskOK'
    BY <1>1, <1>f DEF Submit, DiskOK, files, bounds
  <2> QED BY <2>1, <2>2
<1>2. ASSUME NEW m \in Movers, Lock(m) PROVE TypeInv'
  <2>1. entry' \in [Movers -> (Documents \X EnvFiles) \cup {None}]
    BY <1>2, <1>f DEF Lock, FramesOK, DiskOK, files
  <2>2. FramesOK'
    BY <1>2, <1>f, <2>1 DEF Lock, Goto, FramesOK, FrameOK, Steps, WriteSteps, TwoFileSteps
  <2>3. DiskOK'
    BY <1>2, <1>f DEF Lock, DiskOK, files, bounds
  <2> QED BY <2>2, <2>3
<1>3. ASSUME NEW m \in Movers, ReadCompose(m) PROVE TypeInv'
  <2>1. CASE Finish(m, "readCompose", "interpolated")
    BY <1>3, <1>f, <2>1, FinishFrames, FinishResult
       DEF ReadCompose, DiskOK, files, bounds, Results, Refusals
  <2>2. CASE /\ compose[req[m].site] \in Literals
             /\ Goto(m, "readCompose", "preview")
             /\ lit' = [lit EXCEPT ![m] = compose[req[m].site]]
             /\ UNCHANGED <<result, req, seen, plan, before, entry>>
    <3>1. FramesOK'
      BY <1>f, <2>2 DEF Goto, FramesOK, FrameOK, Steps, WriteSteps, TwoFileSteps
    <3>2. DiskOK'
      BY <1>3, <1>f, <2>2 DEF ReadCompose, DiskOK, files, bounds
    <3> QED BY <3>1, <3>2
  <2> QED BY <1>3, <2>1, <2>2 DEF ReadCompose, Movable
<1>4. ASSUME NEW m \in Movers, PreviewCompose(m) PROVE TypeInv'
  <2>1. CASE \E how \in Refusals : Finish(m, "preview", how)
    BY <1>4, <1>f, <2>1, FinishFrames, FinishResult
       DEF PreviewCompose, DiskOK, files, bounds, Results, Refusals
  <2>2. CASE /\ Goto(m, "preview", "readEnv")
             /\ seen' = [seen EXCEPT ![m] = compose]
             /\ UNCHANGED <<result, req, lit, plan, before, entry>>
    <3>1. FramesOK'
      BY <1>f, <2>2 DEF Goto, FramesOK, DiskOK, FrameOK, Steps, WriteSteps, TwoFileSteps
    <3>2. DiskOK'
      BY <1>4, <1>f, <2>2 DEF PreviewCompose, DiskOK, files, bounds
    <3> QED BY <3>1, <3>2
  <2> QED BY <1>4, <2>1, <2>2 DEF PreviewCompose, Refusals
<1>5. ASSUME NEW m \in Movers, ReadEnv(m) PROVE TypeInv'
  <2>0. /\ req[m] \in Requests /\ lit[m] \in Literals /\ seen[m] \in Documents
        /\ dotenv.there \in BOOLEAN /\ dotenv.vars \in EnvVars
        /\ Now(m) \in Literals \cup {Unset}
    BY <1>5, <1>f DEF ReadEnv, FramesOK, DiskOK, FrameOK, EnvFiles, EnvVars, Requests, Now
  <2>1. CASE \E how \in Refusals : Finish(m, "readEnv", how) /\ UNCHANGED shown
    BY <1>5, <1>f, <2>1, FinishFrames, FinishResult
       DEF ReadEnv, DiskOK, files, bounds, Results, Refusals
  <2>2. CASE /\ Finish(m, "readEnv", "previewed")
             /\ shown' = [shown EXCEPT ![m] =
                  [req[m] EXCEPT !.write = TRUE, !.expect = [doc |-> seen[m], was |-> Now(m)]]]
    <3>1. [req[m] EXCEPT !.write = TRUE, !.expect = [doc |-> seen[m], was |-> Now(m)]] \in Requests
      BY <2>0 DEF Requests, Expectations
    <3>2. shown' \in [Movers -> Requests \cup {None}]
      BY <1>f, <2>2, <3>1 DEF DiskOK
    <3> QED
      BY <1>5, <1>f, <2>2, <3>2, FinishFrames, FinishResult
         DEF ReadEnv, DiskOK, files, bounds, Results
  <2>3. CASE /\ req[m].write
             /\ Goto(m, "readEnv", IF Now(m) = lit[m] THEN "stageCompose" ELSE "readBefore")
             /\ plan' = [plan EXCEPT ![m] = AssignEnv(m)]
             /\ UNCHANGED <<shown, result, req, lit, seen, before, entry>>
    <3>1. AssignEnv(m) \in Plans /\ AssignEnv(m).unchanged = (Now(m) = lit[m])
      BY <2>0 DEF AssignEnv, Plans, EnvVars
    <3>2. FramesOK'
      BY <1>f, <2>0, <2>3, <3>1 DEF Goto, FramesOK, FrameOK, Steps, WriteSteps, TwoFileSteps
    <3>3. DiskOK'
      BY <1>5, <1>f, <2>3 DEF ReadEnv, DiskOK, files, bounds
    <3> QED BY <3>2, <3>3
  <2> QED BY <1>5, <2>1, <2>2, <2>3 DEF ReadEnv, Refusals
<1>6. ASSUME NEW m \in Movers, ReadBefore(m) PROVE TypeInv'
  <2>1. dotenv.vars \in EnvVars
    BY <1>f DEF DiskOK, EnvFiles, EnvVars
  <2>2. FramesOK'
    BY <1>6, <1>f, <2>1 DEF ReadBefore, Goto, FramesOK, FrameOK, Steps, WriteSteps, TwoFileSteps
  <2>3. DiskOK'
    BY <1>6, <1>f DEF ReadBefore, DiskOK, files, bounds
  <2> QED BY <2>2, <2>3
<1>16. ASSUME NEW m \in Movers, ReadFails(m) PROVE TypeInv'
  <2>1. Finish(m, pc[m], "failed") /\ Fault
    BY <1>16 DEF ReadFails
  <2>2. FramesOK'
    BY <1>f, <2>1, FinishFrames
  <2>3. DiskOK'
    BY <1>16, <1>f, <2>1, FinishResult, FaultBound DEF ReadFails, DiskOK, files, Results
  <2> QED BY <2>2, <2>3
<1>7. ASSUME NEW m \in Movers, StageEnv(m) PROVE TypeInv'
  <2>1. CASE Fault /\ Finish(m, "stageEnv", "failed") /\ UNCHANGED temps
    BY <1>7, <1>f, <2>1, FinishFrames, FinishResult, FaultBound
       DEF StageEnv, DiskOK, files, bounds, Results
  <2>2. CASE /\ Goto(m, "stageEnv", "stageCompose")
             /\ temps' = temps \cup {<<m, "env">>}
             /\ UNCHANGED <<result, faults, locals>>
    <3>1. FramesOK'
      BY <1>f, <2>2 DEF Goto, FramesOK, FrameOK, Steps, WriteSteps, TwoFileSteps, locals
    <3>2. DiskOK'
      BY <1>7, <1>f, <2>2 DEF StageEnv, DiskOK, files
    <3> QED BY <3>1, <3>2
  <2> QED BY <1>7, <2>1, <2>2 DEF StageEnv
<1>8. ASSUME NEW m \in Movers, StageCompose(m) PROVE TypeInv'
  <2>1. CASE Fault /\ Finish(m, "stageCompose", "failed") /\ temps' = temps \ Staged(m)
    BY <1>8, <1>f, <2>1, FinishFrames, FinishResult, FaultBound
       DEF StageCompose, DiskOK, files, bounds, Results
  <2>2. CASE /\ Goto(m, "stageCompose", NextRename(m))
             /\ temps' = temps \cup {<<m, "compose">>}
             /\ UNCHANGED <<result, faults, locals>>
    <3>1. FramesOK'
      BY <1>f, <2>2
         DEF Goto, NextRename, FramesOK, FrameOK, Steps, WriteSteps, TwoFileSteps, locals
    <3>2. DiskOK'
      BY <1>8, <1>f, <2>2 DEF StageCompose, DiskOK, files
    <3> QED BY <3>1, <3>2
  <2> QED BY <1>8, <2>1, <2>2 DEF StageCompose
<1>9. ASSUME NEW m \in Movers, RenameEnv(m) PROVE TypeInv'
  <2>1. CASE /\ Fault /\ Finish(m, "renameEnv", "failed")
             /\ temps' = temps \ {<<m, "env">>, <<m, "compose">>} /\ UNCHANGED dotenv
    BY <1>9, <1>f, <2>1, FinishFrames, FinishResult, FaultBound
       DEF RenameEnv, DiskOK, files, bounds, Results
  <2>2. CASE /\ Goto(m, "renameEnv", "renameCompose")
             /\ dotenv' = [there |-> TRUE, vars |-> plan[m].vars]
             /\ temps' = temps \ {<<m, "env">>}
             /\ UNCHANGED <<result, faults, locals>>
    <3>1. FramesOK'
      BY <1>f, <2>2 DEF Goto, FramesOK, FrameOK, Steps, WriteSteps, TwoFileSteps, locals
    <3>2. dotenv' \in EnvFiles
      BY <1>f, <2>2 DEF Goto, FramesOK, FrameOK, WriteSteps, TwoFileSteps, Plans, EnvFiles
    <3>3. DiskOK'
      BY <1>9, <1>f, <2>2, <3>2 DEF RenameEnv, DiskOK
    <3> QED BY <3>1, <3>3
  <2> QED BY <1>9, <2>1, <2>2 DEF RenameEnv
<1>10. ASSUME NEW m \in Movers, RenameCompose(m) PROVE TypeInv'
  <2>1. CASE Finish(m, "renameCompose", "done")
             /\ compose' = [seen[m] EXCEPT ![req[m].site] = req[m].name] /\ UNCHANGED faults
    <3>1. compose' \in Documents
      BY <1>10, <1>f, <2>1
         DEF RenameCompose, FramesOK, FrameOK, WriteSteps, TwoFileSteps, Documents, Scalars, Requests
    <3> QED BY <1>10, <1>f, <2>1, <3>1, FinishFrames, FinishResult
               DEF RenameCompose, DiskOK, Results
  <2>2. CASE Fault /\ Finish(m, "renameCompose", "failed") /\ UNCHANGED compose
    BY <1>10, <1>f, <2>2, FinishFrames, FinishResult, FaultBound
       DEF RenameCompose, DiskOK, Results
  <2>3. CASE /\ Fault /\ ~plan[m].unchanged /\ Goto(m, "renameCompose", "rollback")
             /\ UNCHANGED <<compose, result, locals>>
    <3>1. FramesOK'
      BY <1>f, <2>3 DEF Goto, FramesOK, FrameOK, Steps, WriteSteps, TwoFileSteps, locals
    <3>2. DiskOK'
      BY <1>10, <1>f, <2>3, FaultBound DEF RenameCompose, DiskOK
    <3> QED BY <3>1, <3>2
  <2> QED BY <1>10, <2>1, <2>2, <2>3 DEF RenameCompose
<1>11. ASSUME NEW m \in Movers, Rollback(m) PROVE TypeInv'
  <2>1. CASE Finish(m, "rollback", "rolledback") /\ dotenv' = RolledBack(m) /\ UNCHANGED faults
    <3>1. before[m] \in EnvVars
      BY <1>f, <2>1 DEF Finish, Goto, FramesOK, FrameOK, WriteSteps, TwoFileSteps
    <3>2. dotenv' \in EnvFiles
      BY <2>1, <3>1 DEF RolledBack, EnvFiles, EnvVars
    <3> QED BY <1>11, <1>f, <2>1, <3>2, FinishFrames, FinishResult
               DEF Rollback, DiskOK, Results
  <2>2. CASE Fault /\ Finish(m, "rollback", "inert") /\ UNCHANGED dotenv
    BY <1>11, <1>f, <2>2, FinishFrames, FinishResult, FaultBound
       DEF Rollback, DiskOK, Results
  <2> QED BY <1>11, <2>1, <2>2 DEF Rollback
<1>12. CASE Crash
  <2>1. FramesOK'
    BY <1>12, <1>f DEF Crash, FramesOK, FrameOK, WriteSteps, TwoFileSteps
  <2>2. DiskOK'
    BY <1>12, <1>f, ConstantsAssumption DEF Crash, DiskOK, files
  <2> QED BY <2>1, <2>2
<1>13. CASE Edit
  <2>1. compose' \in Documents
    BY <1>13, <1>f DEF Edit, DiskOK, Documents
  <2>2. dotenv' \in EnvFiles
    <3>1. \A n \in Names, v \in Literals \cup {Unset} :
             [there |-> TRUE, vars |-> [dotenv.vars EXCEPT ![n] = v]] \in EnvFiles
      BY <1>f DEF DiskOK, EnvFiles
    <3> QED BY <1>13, <1>f, <3>1 DEF Edit, DiskOK
  <2>3. DiskOK'
    BY <1>13, <1>f, <2>1, <2>2, ConstantsAssumption DEF Edit, DiskOK
  <2> QED BY <1>13, <1>s, <2>3 DEF Edit
<1>14. CASE UNCHANGED vars
  BY <1>14, <1>f, <1>s DEF vars, files, bounds, DiskOK
<1>15. \A m \in Movers : SubmitPreview(m) \/ SubmitBare(m) \/ SubmitApproved(m)
                           => \E r \in Requests : Submit(m, r)
  BY <1>f DEF SubmitPreview, SubmitBare, SubmitApproved, Requests, DiskOK
<1> QED
  BY <1>1, <1>2, <1>3, <1>4, <1>5, <1>6, <1>7, <1>8, <1>9, <1>10, <1>11, <1>12, <1>13,
     <1>14, <1>15, <1>16 DEF Next, Step

\* Every variable keeps its type, and every step finds in its frame what the
\* steps before it computed (runExtract, writeBoth).
THEOREM TypeCorrect == Spec => []TypeOK
<1>1. Init => TypeInv
  BY TypeInit
<1>2. TypeInv /\ [Next]_vars => TypeInv'
  BY TypeStep
<1>3. TypeInv => TypeOK
  BY TypeInvTypeOK
<1> QED BY <1>1, <1>2, <1>3, PTL DEF Spec
-----------------------------------------------------------------------------
(* With one server, nobody saving during a request and nobody leaving a      *)
(* reference undefined, the write is safe at every instant.                  *)

Alone == \A m, o \in Movers : m # o /\ Running(m) /\ Running(o) => ~req[m].write /\ ~req[o].write

\* Before and after the `.env` rename of a two-file write.
EnvPending(m) == pc[m] \in {"readBefore", "stageEnv", "renameEnv"}
                   \/ (pc[m] = "stageCompose" /\ ~plan[m].unchanged)
EnvWritten(m) == pc[m] = "rollback" \/ (pc[m] = "renameCompose" /\ ~plan[m].unchanged)

\* No site needs the `.env` to define the name.
Needless(n) == HostSets(n) \/ \A s \in Sites : compose[s] # n

\* What a running request computed is still what is on disk.
Fresh(m) ==
  /\ Running(m) /\ pc[m] # "readCompose" => lit[m] = compose[req[m].site]
  /\ pc[m] \in WriteSteps \cup {"readEnv"} => seen[m] = compose
  /\ EnvPending(m) => /\ dotenv.vars[req[m].name] = Unset
                      /\ plan[m].vars = [dotenv.vars EXCEPT ![req[m].name] = lit[m]]
                      /\ plan[m].created = ~dotenv.there
  /\ EnvPending(m) /\ pc[m] # "readBefore" => before[m] = dotenv.vars
  /\ EnvWritten(m) => /\ dotenv = [there |-> TRUE, vars |-> plan[m].vars]
                      /\ plan[m].vars = [before[m] EXCEPT ![req[m].name] = lit[m]]
                      /\ before[m][req[m].name] = Unset
                      /\ plan[m].created => before[m] = [n \in Names |-> Unset]
                      /\ Needless(req[m].name)
  /\ pc[m] \in {"stageCompose", "renameCompose"} /\ plan[m].unchanged
       => dotenv.vars[req[m].name] = lit[m]

SafeInv == TypeInv /\ Alone /\ (\A m \in Movers : Fresh(m)) /\ NoBlankPassword

OneServer == Serialised /\ ~EditsRace /\ ~Dangling

LEMMA FinishAlone ==
  ASSUME FramesOK, Alone, NEW m \in Movers, NEW from, NEW how, Finish(m, from, how)
  PROVE  Alone'
BY DEF FramesOK, Alone, Running, Finish, Goto

\* The frames of the requests a step does not belong to.
Others(m) == \A o \in Movers \ {m} :
               /\ pc'[o] = pc[o] /\ req'[o] = req[o] /\ lit'[o] = lit[o]
               /\ seen'[o] = seen[o] /\ plan'[o] = plan[o] /\ before'[o] = before[o]

LEMMA OthersFresh ==
  ASSUME NEW m \in Movers, Others(m), UNCHANGED files, \A o \in Movers : Fresh(o)
  PROVE  \A o \in Movers \ {m} : Fresh(o)'
<1> SUFFICES ASSUME NEW o \in Movers \ {m} PROVE Fresh(o)'
  OBVIOUS
<1>1. /\ pc'[o] = pc[o] /\ req'[o] = req[o] /\ lit'[o] = lit[o]
      /\ seen'[o] = seen[o] /\ plan'[o] = plan[o] /\ before'[o] = before[o]
      /\ compose' = compose /\ dotenv' = dotenv
  BY DEF Others, files
<1>2. (EnvPending(o)' <=> EnvPending(o)) /\ (EnvWritten(o)' <=> EnvWritten(o))
  BY <1>1 DEF EnvPending, EnvWritten
<1> QED
  BY <1>1, <1>2 DEF Fresh, Needless, Running, WriteSteps, TwoFileSteps

\* A request whose lock excludes every other leaves nothing to be stale.
LEMMA OthersIdleFresh ==
  ASSUME NEW m \in Movers, Others(m), \A o \in Movers \ {m} : ~Running(o)
  PROVE  \A o \in Movers \ {m} : Fresh(o)'
BY DEF Others, Fresh, Needless, EnvPending, EnvWritten, Running, WriteSteps, TwoFileSteps

LEMMA FinishOthers ==
  ASSUME FramesOK, NEW m \in Movers, NEW from, NEW how, Finish(m, from, how)
  PROVE  Others(m) /\ Fresh(m)'
<1>1. Others(m)
  BY DEF FramesOK, Finish, Goto, Others
<1>2. pc'[m] = "idle"
  BY DEF FramesOK, Finish, Goto
<1> QED
  BY <1>1, <1>2 DEF Fresh, Needless, EnvPending, EnvWritten, Running, WriteSteps, TwoFileSteps

LEMMA WriterAlone ==
  ASSUME TypeInv, Alone, NEW m \in Movers, pc[m] \in WriteSteps
  PROVE  \A o \in Movers \ {m} : ~Running(o)
BY DEF TypeInv, FramesOK, FrameOK, Alone, Running, WriteSteps, TwoFileSteps

LEMMA SafeInit == OneServer /\ Init => SafeInv
<1> SUFFICES ASSUME OneServer, Init PROVE SafeInv
  OBVIOUS
<1>1. TypeInv
  BY TypeInit
<1>2. \A m \in Movers : pc[m] = "idle"
  BY DEF Init
<1>3. Alone /\ \A m \in Movers : Fresh(m)
  BY <1>2 DEF Alone, Fresh, Needless, EnvPending, EnvWritten, Running, WriteSteps, TwoFileSteps
<1> QED BY <1>1, <1>3 DEF SafeInv, NoBlankPassword, Init, OneServer

\* A step that only moves m from one step to another of the same request.
LEMMA StepAlone ==
  ASSUME FramesOK, Alone, NEW m \in Movers, Running(m), req' = req,
         NEW to, pc' = [pc EXCEPT ![m] = to]
  PROVE  Alone'
BY DEF FramesOK, Alone, Running

\* The steps that leave both files alone.
LEMMA QuietStep ==
  ASSUME SafeInv, TypeInv', NEW m \in Movers, UNCHANGED files,
         Others(m), Fresh(m)', Alone'
  PROVE  SafeInv'
<1>1. \A o \in Movers \ {m} : Fresh(o)'
  BY OthersFresh DEF SafeInv
<1>2. NoBlankPassword'
  BY DEF SafeInv, NoBlankPassword, DefinedRefs, files
<1> QED BY <1>1, <1>2 DEF SafeInv

\* The steps that rename a file, or fail to: m is alone.
LEMMA LoudStep ==
  ASSUME SafeInv, TypeInv', NEW m \in Movers, pc[m] \in WriteSteps,
         Others(m), Fresh(m)', Alone', NoBlankPassword'
  PROVE  SafeInv'
<1>1. \A o \in Movers \ {m} : Fresh(o)'
  BY WriterAlone, OthersIdleFresh DEF SafeInv
<1> QED BY <1>1 DEF SafeInv

LEMMA FinishSafe ==
  ASSUME SafeInv, TypeInv', NEW m \in Movers, UNCHANGED files,
         NEW from, NEW how, Finish(m, from, how)
  PROVE  SafeInv'
<1>1. FramesOK /\ Alone
  BY DEF SafeInv, TypeInv
<1> QED BY <1>1, FinishAlone, FinishOthers, QuietStep

\* What SafeInv says of the request at hand, with the types it needs.
LEMMA SafeFrame ==
  ASSUME SafeInv, NEW m \in Movers
  PROVE  /\ FramesOK /\ Alone /\ FrameOK(m) /\ Fresh(m)
         /\ compose \in Documents /\ dotenv.vars \in EnvVars /\ dotenv.there \in BOOLEAN
         /\ ~dotenv.there => dotenv.vars = [n \in Names |-> Unset]
         /\ pc[m] # "idle" => req[m].site \in Sites /\ req[m].name \in Names
         /\ \A s \in Sites : compose[s] \in Names
               => HostSets(compose[s]) \/ dotenv.vars[compose[s]] # Unset
<1>1. FramesOK /\ Alone /\ FrameOK(m) /\ Fresh(m)
  BY DEF SafeInv, TypeInv, FramesOK
<1>2. dotenv \in EnvFiles /\ compose \in Documents
  BY DEF SafeInv, TypeInv, DiskOK
<1> QED BY <1>1, <1>2 DEF FrameOK, Requests, EnvFiles, EnvVars, SafeInv, NoBlankPassword, DefinedRefs,
                         Lookup, HostSets

LEMMA WrittenFrame ==
  ASSUME SafeInv, NEW m \in Movers, EnvWritten(m)
  PROVE  /\ dotenv.vars = [before[m] EXCEPT ![req[m].name] = lit[m]]
         /\ before[m][req[m].name] = Unset
         /\ plan[m].created => before[m] = [n \in Names |-> Unset]
         /\ Needless(req[m].name)
<1>1. Fresh(m)
  BY SafeFrame
<1>2. /\ dotenv = [there |-> TRUE, vars |-> plan[m].vars]
      /\ plan[m].vars = [before[m] EXCEPT ![req[m].name] = lit[m]]
      /\ before[m][req[m].name] = Unset
      /\ plan[m].created => before[m] = [n \in Names |-> Unset]
      /\ Needless(req[m].name)
  BY <1>1, Zenon DEF Fresh
<1>3. dotenv.vars = plan[m].vars
  BY <1>2
<1> QED BY <1>2, <1>3

\* Before the compose file is renamed, the `.env` defines the name as the literal.
LEMMA AssignedFrame ==
  ASSUME SafeInv, NEW m \in Movers, pc[m] = "renameCompose"
  PROVE  dotenv.vars[req[m].name] = lit[m]
<1>1. CASE plan[m].unchanged
  BY <1>1, SafeFrame DEF Fresh
<1>2. CASE ~plan[m].unchanged
  <2>1. EnvWritten(m) /\ before[m] \in EnvVars /\ req[m].name \in Names
    BY <1>2, SafeFrame DEF EnvWritten, FrameOK, WriteSteps, TwoFileSteps
  <2> QED BY <2>1, WrittenFrame DEF EnvVars
<1> QED BY <1>1, <1>2

LEMMA RenameEnvSafe ==
  ASSUME SafeInv, TypeInv', NEW m \in Movers, RenameEnv(m)
  PROVE  SafeInv'
<1>1. CASE Finish(m, "renameEnv", "failed") /\ UNCHANGED dotenv
  BY <1>1, FinishSafe DEF RenameEnv, files
<1>2. CASE /\ Goto(m, "renameEnv", "renameCompose")
           /\ dotenv' = [there |-> TRUE, vars |-> plan[m].vars]
           /\ UNCHANGED <<result, faults, locals>>
  <2> DEFINE n == req[m].name
  <2>1. /\ lit[m] = compose[req[m].site] /\ lit[m] \in Literals /\ n \in Names
        /\ ~plan[m].unchanged /\ dotenv.vars \in EnvVars /\ dotenv.vars[n] = Unset
        /\ plan[m].vars = [dotenv.vars EXCEPT ![n] = lit[m]]
        /\ plan[m].created = ~dotenv.there /\ before[m] = dotenv.vars /\ seen[m] = compose
        /\ Needless(n)
    <3>1. pc[m] = "renameEnv" /\ EnvPending(m) /\ Running(m)
      BY <1>2 DEF Goto, EnvPending, Running
    <3>2. /\ lit[m] \in Literals /\ n \in Names /\ ~plan[m].unchanged /\ dotenv.vars \in EnvVars
      BY <3>1, SafeFrame DEF FrameOK, WriteSteps, TwoFileSteps
    <3>3. /\ lit[m] = compose[req[m].site] /\ dotenv.vars[n] = Unset
          /\ plan[m].vars = [dotenv.vars EXCEPT ![n] = lit[m]]
          /\ plan[m].created = ~dotenv.there /\ before[m] = dotenv.vars /\ seen[m] = compose
      BY <3>1, SafeFrame DEF Fresh, WriteSteps, TwoFileSteps
    <3>4. Needless(n)
      BY <3>2, <3>3, SafeFrame DEF Needless
    <3> QED BY <3>2, <3>3, <3>4
  <2>2. NoBlankPassword'
    BY <1>2, <2>1, SafeFrame, ConstantsAssumption
       DEF RenameEnv, NoBlankPassword, DefinedRefs, Lookup, HostSets, EnvVars
  <2>3. Others(m) /\ Alone'
    BY <1>2, SafeFrame, StepAlone DEF Goto, FramesOK, Others, locals, Running
  <2>4. pc'[m] = "renameCompose" /\ UNCHANGED locals /\ compose' = compose
    BY <1>2, SafeFrame DEF Goto, FramesOK, RenameEnv
  <2>5. plan[m].created => before[m] = [k \in Names |-> Unset]
    BY <2>1, SafeFrame
  <2>6. Fresh(m)'
    BY <1>2, <2>1, <2>4, <2>5
       DEF Fresh, Needless, EnvPending, EnvWritten, Running, WriteSteps, TwoFileSteps, locals
  <2> QED BY <1>2, <2>2, <2>3, <2>6, LoudStep DEF Goto, WriteSteps, TwoFileSteps
<1> QED BY <1>1, <1>2 DEF RenameEnv

LEMMA RenameComposeSafe ==
  ASSUME SafeInv, TypeInv', NEW m \in Movers, RenameCompose(m)
  PROVE  SafeInv'
<1>1. CASE Finish(m, "renameCompose", "failed") /\ UNCHANGED compose
  BY <1>1, FinishSafe DEF RenameCompose, files
<1>2. CASE /\ ~plan[m].unchanged /\ Goto(m, "renameCompose", "rollback")
           /\ UNCHANGED <<compose, result, locals>>
  <2>1. Others(m) /\ Alone' /\ pc'[m] = "rollback"
    BY <1>2, SafeFrame, StepAlone DEF Goto, FramesOK, Others, locals, Running
  <2>2. Fresh(m)'
    BY <1>2, <2>1, SafeFrame
       DEF Goto, RenameCompose, Fresh, Needless, EnvPending, EnvWritten, Running, WriteSteps, TwoFileSteps, locals
  <2> QED BY <1>2, <2>1, <2>2, QuietStep DEF RenameCompose, files
<1>3. CASE /\ Finish(m, "renameCompose", "done")
           /\ compose' = [seen[m] EXCEPT ![req[m].site] = req[m].name]
  <2>1. /\ lit[m] \in Literals /\ req[m].name \in Names /\ req[m].site \in Sites
        /\ dotenv.vars[req[m].name] = lit[m] /\ seen[m] = compose /\ dotenv' = dotenv
    <3>1. pc[m] = "renameCompose"
      BY <1>3 DEF RenameCompose
    <3> QED BY <1>3, <3>1, SafeFrame, AssignedFrame
            DEF RenameCompose, FrameOK, Fresh, WriteSteps, TwoFileSteps
  <2>2. NoBlankPassword'
    BY <1>3, <2>1, SafeFrame, ConstantsAssumption
       DEF NoBlankPassword, DefinedRefs, Lookup, HostSets, Documents, Scalars
  <2>3. Others(m) /\ Fresh(m)' /\ Alone'
    BY <1>3, SafeFrame, FinishOthers, FinishAlone
  <2> QED BY <1>3, <2>2, <2>3, LoudStep DEF RenameCompose, WriteSteps
<1> QED BY <1>1, <1>2, <1>3 DEF RenameCompose

LEMMA RollbackSafe ==
  ASSUME SafeInv, TypeInv', NEW m \in Movers, Rollback(m)
  PROVE  SafeInv'
<1>1. CASE Finish(m, "rollback", "inert") /\ UNCHANGED dotenv
  BY <1>1, FinishSafe DEF Rollback, files
<1>2. CASE Finish(m, "rollback", "rolledback") /\ dotenv' = RolledBack(m)
  <2>1. /\ dotenv.vars = [before[m] EXCEPT ![req[m].name] = lit[m]]
        /\ plan[m].created => before[m] = [n \in Names |-> Unset]
        /\ Needless(req[m].name)
        /\ before[m] \in EnvVars /\ compose' = compose
        /\ req[m].name \in Names
    <3>1. pc[m] = "rollback" /\ EnvWritten(m) /\ Running(m)
      BY <1>2 DEF Finish, Goto, EnvWritten, Running
    <3>2. req[m].name \in Names /\ before[m] \in EnvVars
      BY <3>1, SafeFrame DEF FrameOK, WriteSteps, TwoFileSteps
    <3>3. /\ dotenv.vars = [before[m] EXCEPT ![req[m].name] = lit[m]]
          /\ plan[m].created => before[m] = [n \in Names |-> Unset]
          /\ Needless(req[m].name)
      BY <3>1, WrittenFrame
    <3> QED BY <1>2, <3>2, <3>3 DEF Rollback
  <2>2. dotenv'.vars = before[m]
    BY <1>2, <2>1 DEF RolledBack
  <2>3. NoBlankPassword'
    BY <2>1, <2>2, SafeFrame DEF NoBlankPassword, DefinedRefs, Needless, Lookup, HostSets, EnvVars
  <2>4. Others(m) /\ Fresh(m)' /\ Alone'
    BY <1>2, SafeFrame, FinishOthers, FinishAlone
  <2> QED BY <1>2, <2>3, <2>4, LoudStep DEF Finish, Goto, WriteSteps, TwoFileSteps
<1> QED BY <1>1, <1>2 DEF Rollback

LEMMA SafeStep == OneServer /\ SafeInv /\ [Next]_vars => SafeInv'
<1> SUFFICES ASSUME OneServer, SafeInv, [Next]_vars PROVE SafeInv'
  OBVIOUS
<1>t. TypeInv'
  BY TypeStep DEF SafeInv
<1>1. ASSUME NEW m \in Movers, NEW r \in Requests, Submit(m, r) PROVE SafeInv'
  <2>1. pc'[m] = "lock" /\ Others(m)
    BY <1>1, SafeFrame DEF Submit, Goto, FramesOK, Others
  <2>2. Fresh(m)'
    BY <2>1 DEF Fresh, Needless, EnvPending, EnvWritten, Running, WriteSteps, TwoFileSteps
  <2>3. Alone'
    BY <1>1, SafeFrame DEF Submit, Goto, FramesOK, Alone, Running
  <2> QED BY <1>1, <1>t, <2>1, <2>2, <2>3, QuietStep DEF Submit, files
<1>2. ASSUME NEW m \in Movers, Lock(m) PROVE SafeInv'
  <2>1. pc'[m] = "readCompose" /\ Others(m)
    BY <1>2, SafeFrame DEF Lock, Goto, FramesOK, Others
  <2>2. Fresh(m)'
    BY <2>1 DEF Fresh, Needless, EnvPending, EnvWritten, Running, WriteSteps, TwoFileSteps
  <2>3. Alone'
    BY <1>2, SafeFrame DEF OneServer, Lock, MayLock, Goto, FramesOK, Alone, Running
  <2> QED BY <1>2, <1>t, <2>1, <2>2, <2>3, QuietStep DEF Lock, files
<1>3. ASSUME NEW m \in Movers, ReadCompose(m) PROVE SafeInv'
  <2>1. CASE Finish(m, "readCompose", "interpolated")
    BY <1>3, <1>t, <2>1, FinishSafe DEF ReadCompose, files
  <2>2. CASE /\ Goto(m, "readCompose", "preview")
             /\ lit' = [lit EXCEPT ![m] = compose[req[m].site]]
             /\ UNCHANGED <<result, req, seen, plan, before, entry>>
    <3>1. pc'[m] = "preview" /\ Others(m) /\ lit'[m] = compose[req[m].site] /\ Alone'
      BY <2>2, SafeFrame, StepAlone DEF Goto, FramesOK, Others, Running
    <3>2. Fresh(m)'
      BY <1>3, <2>2, <3>1
         DEF ReadCompose, files, Fresh, Needless, EnvPending, EnvWritten, Running, WriteSteps, TwoFileSteps
    <3> QED BY <1>3, <1>t, <3>1, <3>2, QuietStep DEF ReadCompose, files
  <2> QED BY <1>3, <2>1, <2>2 DEF ReadCompose
<1>4. ASSUME NEW m \in Movers, PreviewCompose(m) PROVE SafeInv'
  <2>1. CASE \E how \in Refusals : Finish(m, "preview", how)
    BY <1>4, <1>t, <2>1, FinishSafe DEF PreviewCompose, files
  <2>2. CASE /\ Goto(m, "preview", "readEnv")
             /\ seen' = [seen EXCEPT ![m] = compose]
             /\ UNCHANGED <<result, req, lit, plan, before, entry>>
    <3>1. pc'[m] = "readEnv" /\ Others(m) /\ seen'[m] = compose /\ Alone'
      BY <2>2, SafeFrame, StepAlone DEF Goto, FramesOK, Others, Running
    <3>2. lit[m] = compose[req[m].site]
      BY <2>2, SafeFrame DEF Goto, Fresh, Running
    <3>3. Fresh(m)'
      BY <1>4, <2>2, <3>1, <3>2
         DEF PreviewCompose, files, Fresh, Needless, EnvPending, EnvWritten, Running, WriteSteps, TwoFileSteps
    <3> QED BY <1>4, <1>t, <3>1, <3>3, QuietStep DEF PreviewCompose, files
  <2> QED BY <1>4, <2>1, <2>2 DEF PreviewCompose, Refusals
<1>5. ASSUME NEW m \in Movers, ReadEnv(m) PROVE SafeInv'
  <2>1. CASE \E how \in Refusals \cup {"previewed"} : Finish(m, "readEnv", how)
    BY <1>5, <1>t, <2>1, FinishSafe DEF ReadEnv, files
  <2>2. CASE /\ CanAssign(m)
             /\ Goto(m, "readEnv", IF Now(m) = lit[m] THEN "stageCompose" ELSE "readBefore")
             /\ plan' = [plan EXCEPT ![m] = AssignEnv(m)]
             /\ UNCHANGED <<shown, result, req, lit, seen, before, entry>>
    <3>1. /\ pc'[m] = IF Now(m) = lit[m] THEN "stageCompose" ELSE "readBefore"
          /\ Others(m) /\ plan'[m] = AssignEnv(m) /\ Alone'
      BY <2>2, SafeFrame, StepAlone DEF Goto, FramesOK, Others, Running
    <3>2. lit[m] = compose[req[m].site] /\ seen[m] = compose
      BY <2>2, SafeFrame DEF Goto, Fresh, Running
    <3>3. /\ UNCHANGED <<compose, dotenv, req, lit, seen>>
          /\ plan'[m].unchanged = (Now(m) = lit[m])
          /\ plan'[m].created = ~dotenv.there
          /\ plan'[m].vars = [dotenv.vars EXCEPT ![req[m].name] = lit[m]]
          /\ Now(m) = dotenv.vars[req[m].name] /\ Now(m) \in {Unset, lit[m]}
      BY <1>5, <2>2, <3>1 DEF ReadEnv, AssignEnv, CanAssign, Now, files
    <3>a. lit'[m] = compose'[req'[m].site] /\ seen'[m] = compose'
      BY <3>2, <3>3
    <3>4. ASSUME Now(m) = lit[m] PROVE Fresh(m)'
      <4>1. /\ pc'[m] = "stageCompose" /\ plan'[m].unchanged
            /\ dotenv'.vars[req'[m].name] = lit'[m]
        BY <3>1, <3>3, <3>4
      <4>2. ~EnvPending(m)' /\ ~EnvWritten(m)'
        BY <4>1 DEF EnvPending, EnvWritten
      <4> QED BY <3>a, <4>1, <4>2 DEF Fresh
    <3>5. ASSUME Now(m) # lit[m] PROVE Fresh(m)'
      <4>1. /\ pc'[m] = "readBefore" /\ dotenv'.vars[req'[m].name] = Unset
            /\ plan'[m].vars = [dotenv'.vars EXCEPT ![req'[m].name] = lit'[m]]
            /\ plan'[m].created = ~dotenv'.there
        BY <3>1, <3>3, <3>5
      <4>2. ~EnvWritten(m)'
        BY <4>1 DEF EnvWritten
      <4> QED BY <3>a, <4>1, <4>2 DEF Fresh
    <3>6. Fresh(m)'
      BY <3>4, <3>5
    <3> QED BY <1>5, <1>t, <3>1, <3>6, QuietStep DEF ReadEnv, files
  <2> QED BY <1>5, <2>1, <2>2 DEF ReadEnv, Refusals
<1>6. ASSUME NEW m \in Movers, ReadBefore(m) PROVE SafeInv'
  <2>1. pc'[m] = "stageEnv" /\ Others(m) /\ before'[m] = dotenv.vars /\ Alone'
    BY <1>6, SafeFrame, StepAlone DEF ReadBefore, Goto, FramesOK, Others, Running
  <2>2. Fresh(m)'
    BY <1>6, <2>1, SafeFrame
       DEF ReadBefore, Goto, files, Fresh, Needless, EnvPending, EnvWritten, Running, WriteSteps, TwoFileSteps
  <2> QED BY <1>6, <1>t, <2>1, <2>2, QuietStep DEF ReadBefore, files
<1>15. ASSUME NEW m \in Movers, ReadFails(m) PROVE SafeInv'
  <2>1. Finish(m, pc[m], "failed") /\ UNCHANGED files
    BY <1>15 DEF ReadFails
  <2> QED BY <1>t, <2>1, FinishSafe
<1>7. ASSUME NEW m \in Movers, StageEnv(m) PROVE SafeInv'
  <2>1. CASE Finish(m, "stageEnv", "failed")
    BY <1>7, <1>t, <2>1, FinishSafe DEF StageEnv
  <2>2. CASE Goto(m, "stageEnv", "stageCompose") /\ UNCHANGED locals
    <3>1. pc'[m] = "stageCompose" /\ Others(m) /\ Alone' /\ ~plan[m].unchanged
      BY <2>2, SafeFrame, StepAlone
         DEF Goto, FramesOK, FrameOK, WriteSteps, TwoFileSteps, Others, locals, Running
    <3>2. Fresh(m)'
      BY <1>7, <2>2, <3>1, SafeFrame
         DEF StageEnv, Goto, files, locals, Fresh, Needless, EnvPending, EnvWritten, Running, WriteSteps, TwoFileSteps
    <3> QED BY <1>7, <1>t, <3>1, <3>2, QuietStep DEF StageEnv
  <2> QED BY <1>7, <2>1, <2>2 DEF StageEnv
<1>8. ASSUME NEW m \in Movers, StageCompose(m) PROVE SafeInv'
  <2>1. CASE Finish(m, "stageCompose", "failed")
    BY <1>8, <1>t, <2>1, FinishSafe DEF StageCompose
  <2>2. CASE Goto(m, "stageCompose", NextRename(m)) /\ UNCHANGED locals
    <3>1. /\ pc'[m] = IF plan[m].unchanged THEN "renameCompose" ELSE "renameEnv"
          /\ Others(m) /\ Alone'
      BY <2>2, SafeFrame, StepAlone DEF Goto, NextRename, FramesOK, Others, locals, Running
    <3>2. Fresh(m)'
      BY <1>8, <2>2, <3>1, SafeFrame
         DEF StageCompose, Goto, files, locals, Fresh, Needless, EnvPending, EnvWritten, Running, WriteSteps, TwoFileSteps
    <3> QED BY <1>8, <1>t, <3>1, <3>2, QuietStep DEF StageCompose
  <2> QED BY <1>8, <2>1, <2>2 DEF StageCompose
<1>9. ASSUME NEW m \in Movers, RenameEnv(m) \/ RenameCompose(m) \/ Rollback(m) PROVE SafeInv'
  BY <1>9, <1>t, RenameEnvSafe, RenameComposeSafe, RollbackSafe
<1>10. CASE (\A m \in Movers : ~Running(m)) /\ UNCHANGED <<pc, locals>> /\ NoBlankPassword'
  BY <1>10, <1>t DEF SafeInv, Alone, Fresh, Needless, EnvPending, EnvWritten, Running, WriteSteps,
                     TwoFileSteps, locals
<1>11. CASE Edit
  BY <1>10, <1>11 DEF Edit, OneServer, NoBlankPassword, DefinedRefs
<1>12. CASE Crash
  <2>1. (\A m \in Movers : pc'[m] = "idle") /\ NoBlankPassword'
    BY <1>12 DEF Crash, files, SafeInv, NoBlankPassword, DefinedRefs
  <2> QED BY <1>t, <2>1 DEF SafeInv, Alone, Fresh, Needless, EnvPending, EnvWritten, Running, WriteSteps,
                            TwoFileSteps
<1>13. CASE UNCHANGED vars
  <2>1. UNCHANGED files /\ Alone' /\ NoBlankPassword'
    BY <1>13 DEF vars, files, locals, SafeInv, Alone, Running, NoBlankPassword, DefinedRefs
  <2>2. ASSUME NEW m \in Movers PROVE Fresh(m)'
    <3>1. Others(m) /\ UNCHANGED <<pc, locals, files>>
      BY <1>13 DEF vars, Others, locals, files
    <3> QED BY <3>1, SafeFrame DEF locals, files, Fresh, Needless, EnvPending, EnvWritten, Running,
                                   WriteSteps, TwoFileSteps
  <2> QED BY <1>t, <2>1, <2>2 DEF SafeInv
<1>14. \A m \in Movers : SubmitPreview(m) \/ SubmitBare(m) \/ SubmitApproved(m)
                           => \E r \in Requests : Submit(m, r)
  BY DEF SubmitPreview, SubmitBare, SubmitApproved, Requests, SafeInv, TypeInv, DiskOK
<1> QED
  BY <1>1, <1>2, <1>3, <1>4, <1>5, <1>6, <1>7, <1>8, <1>9, <1>11, <1>12, <1>13, <1>14, <1>15
     DEF Next, Step

\* With one server and nobody saving during a request, no crash, failing call
\* or interleaving ever leaves `${n}` in the compose file with n undefined.
THEOREM NeverBlank == ASSUME OneServer PROVE Spec => []NoBlankPassword
<1>1. Init => SafeInv
  BY SafeInit
<1>2. SafeInv /\ [Next]_vars => SafeInv'
  BY SafeStep
<1>3. SafeInv => NoBlankPassword
  BY DEF SafeInv
<1> QED BY <1>1, <1>2, <1>3, PTL DEF Spec

\* Only three steps of a request change a file.
LEMMA VisibleSteps ==
  ASSUME NEW m \in Movers, Step(m)
  PROVE  \/ UNCHANGED files
         \/ RenameEnv(m) /\ dotenv' # dotenv
         \/ Rollback(m) /\ dotenv' # dotenv
         \/ RenameCompose(m) /\ compose' # compose
BY DEF Step, Lock, ReadCompose, PreviewCompose, ReadEnv, ReadBefore, ReadFails,
       StageEnv, StageCompose, RenameEnv, RenameCompose, Rollback, files

\* The two ways a step may leave the meaning of a site: see RestKeepsMeaning.
SiteKept(s) ==
  IF compose'[s] = compose[s]
    THEN \/ Value(s)' = Value(s)
         \/ compose[s] \in Fallbacks /\ Reads[compose[s][2]] \in {Value(s), Value(s)'}
    ELSE /\ compose[s] \in Literals /\ compose'[s] \in Names
         /\ Value(s)' = Arrives(compose[s], compose'[s])

\* A name nobody needs comes to be defined, or stops being.
LEMMA NeedlessKept ==
  ASSUME NEW n \in Names, Needless(n), UNCHANGED compose, compose \in Documents,
         \A k \in Names \ {n} : dotenv'.vars[k] = dotenv.vars[k],
         Unset \in {dotenv.vars[n], dotenv'.vars[n]}
  PROVE  \A s \in Sites : SiteKept(s)
<1> SUFFICES ASSUME NEW s \in Sites PROVE SiteKept(s)
  OBVIOUS
<1>1. \A k \in Names \ {n} : Lookup(k, dotenv') = Lookup(k, dotenv)
  BY DEF Lookup
<1>2. HostSets(n) => Lookup(n, dotenv') = Lookup(n, dotenv)
  BY DEF Lookup
<1>3. ~HostSets(n) => /\ Unset \in {Lookup(n, dotenv), Lookup(n, dotenv')}
                      /\ compose[s] # n
  BY DEF Lookup, Needless
<1>4. CASE compose[s] \in Names
  <2>1. Lookup(compose[s], dotenv') = Lookup(compose[s], dotenv)
    BY <1>1, <1>2, <1>3, <1>4
  <2> QED BY <1>4, <2>1 DEF SiteKept, Value, Meaning
<1>5. CASE compose[s] \in Fallbacks
  <2>1. compose[s] \notin Names /\ compose[s][1] \in Names
    BY <1>5, ConstantsAssumption
  <2>2. /\ Value(s) = IF Lookup(compose[s][1], dotenv) # Unset
                        THEN Lookup(compose[s][1], dotenv) ELSE Reads[compose[s][2]]
        /\ Value(s)' = IF Lookup(compose[s][1], dotenv') # Unset
                         THEN Lookup(compose[s][1], dotenv') ELSE Reads[compose[s][2]]
    BY <1>5, <2>1 DEF Value, Meaning
  <2>3. CASE Lookup(compose[s][1], dotenv') = Lookup(compose[s][1], dotenv)
    BY <2>2, <2>3 DEF SiteKept
  <2>4. CASE Lookup(compose[s][1], dotenv') # Lookup(compose[s][1], dotenv)
    <3>1. compose[s][1] = n /\ ~HostSets(n)
      BY <1>1, <1>2, <2>1, <2>4
    <3>2. Reads[compose[s][2]] \in {Value(s), Value(s)'}
      BY <1>3, <2>2, <3>1
    <3> QED BY <1>5, <3>2 DEF SiteKept
  <2> QED BY <2>3, <2>4
<1>6. CASE compose[s] \notin Names \cup Fallbacks
  BY <1>6 DEF SiteKept, Value, Meaning
<1> QED BY <1>4, <1>5, <1>6

LEMMA NameMeans ==
  ASSUME NEW s, NEW doc, NEW env, NEW n \in Names, doc[s] = n
  PROVE  Meaning(s, doc, env) = Lookup(n, env)
<1>1. n \notin Fallbacks
  BY ConstantsAssumption
<1> QED BY <1>1 DEF Meaning

\* Under the same conditions no step of a move, and no crash, changes what the
\* rest of the stack means, and the site moved turns into its raw text.
THEOREM MovesKeepTheRest == ASSUME OneServer PROVE Spec => RestKeepsMeaning
<1> DEFINE Kept == edits' = edits => \A s \in Sites : SiteKept(s)
<1>1. ASSUME SafeInv, [Next]_vars PROVE Kept
  <2> USE <1>1
  <2>1. CASE UNCHANGED files
    BY <2>1 DEF files, SiteKept, Value, Meaning, Lookup
  <2>2. ASSUME NEW m \in Movers, RenameEnv(m), dotenv' # dotenv PROVE Kept
    <3>1. pc[m] = "renameEnv" /\ EnvPending(m) /\ dotenv'.vars = plan[m].vars /\ compose' = compose
      BY <2>2 DEF RenameEnv, Goto, Finish, EnvPending
    <3>2. /\ dotenv.vars[req[m].name] = Unset
          /\ plan[m].vars = [dotenv.vars EXCEPT ![req[m].name] = lit[m]]
      BY <3>1, SafeFrame DEF Fresh
    <3>3. req[m].name \in Names /\ dotenv.vars \in EnvVars /\ compose \in Documents
      BY <3>1, SafeFrame
    <3>4. Needless(req[m].name)
      BY <3>2, <3>3, SafeFrame DEF Needless
    <3>5. \A k \in Names \ {req[m].name} : dotenv'.vars[k] = dotenv.vars[k]
      BY <3>1, <3>2, <3>3 DEF EnvVars
    <3> QED BY <3>1, <3>2, <3>3, <3>4, <3>5, NeedlessKept
  <2>3. ASSUME NEW m \in Movers, Rollback(m), dotenv' # dotenv PROVE Kept
    <3>1. pc[m] = "rollback" /\ EnvWritten(m) /\ compose' = compose /\ dotenv' = RolledBack(m)
      BY <2>3 DEF Rollback, Finish, Goto, EnvWritten
    <3>2. /\ dotenv.vars = [before[m] EXCEPT ![req[m].name] = lit[m]]
          /\ before[m][req[m].name] = Unset
          /\ plan[m].created => before[m] = [n \in Names |-> Unset]
          /\ Needless(req[m].name)
      BY <3>1, WrittenFrame
    <3>3. dotenv'.vars = before[m]
      BY <3>1, <3>2 DEF RolledBack
    <3>4. before[m] \in EnvVars /\ req[m].name \in Names /\ compose \in Documents
      BY <3>1, SafeFrame DEF FrameOK, WriteSteps, TwoFileSteps
    <3>5. \A k \in Names \ {req[m].name} : dotenv'.vars[k] = dotenv.vars[k]
      BY <3>2, <3>3, <3>4 DEF EnvVars
    <3> QED BY <3>1, <3>2, <3>3, <3>4, <3>5, NeedlessKept
  <2>4. ASSUME NEW m \in Movers, RenameCompose(m), compose' # compose PROVE Kept
    <3>1. pc[m] = "renameCompose" /\ dotenv' = dotenv
          /\ compose' = [seen[m] EXCEPT ![req[m].site] = req[m].name]
      BY <2>4 DEF RenameCompose
    <3>2. /\ seen[m] = compose /\ lit[m] = compose[req[m].site] /\ req[m].name \in Names
          /\ lit[m] \in Literals /\ req[m].site \in Sites /\ compose \in Documents
      BY <3>1, SafeFrame DEF Fresh, FrameOK, Running, WriteSteps, TwoFileSteps
    <3>3. dotenv.vars[req[m].name] = lit[m]
      BY <3>1, AssignedFrame
    <3>4. ASSUME NEW s \in Sites, s # req[m].site PROVE SiteKept(s)
      <4>1. compose'[s] = compose[s]
        BY <3>1, <3>2, <3>4 DEF Documents
      <4>2. Meaning(s, compose', dotenv') = Meaning(s, compose, dotenv)
        BY <3>1, <4>1 DEF Meaning
      <4> QED BY <4>1, <4>2 DEF SiteKept, Value
    <3>5. \A s \in Sites : s = req[m].site => SiteKept(s)
      <4>1. compose'[req[m].site] = req[m].name
        BY <3>1, <3>2 DEF Documents
      <4>2. compose[req[m].site] \in Literals /\ compose'[req[m].site] # compose[req[m].site]
        BY <3>2, <4>1, ConstantsAssumption
      <4>3. ASSUME NEW s \in Sites, s = req[m].site
            PROVE  Meaning(s, compose', dotenv') = Arrives(lit[m], req[m].name)
        <5>1. Meaning(s, compose', dotenv') = Lookup(req[m].name, dotenv')
          BY <3>2, <4>1, <4>3, NameMeans
        <5> QED BY <3>1, <3>3, <5>1 DEF Lookup, Arrives
      <4>4. ASSUME NEW s \in Sites, s = req[m].site PROVE SiteKept(s)
        BY <3>2, <4>1, <4>2, <4>3, <4>4 DEF SiteKept, Value
      <4> QED BY <4>4
    <3> QED BY <3>4, <3>5
  <2>5. CASE Edit
    <3>1. edits \in Nat /\ edits' = edits + 1
      BY <2>5, ConstantsAssumption DEF Edit, SafeInv, TypeInv, DiskOK
    <3> QED BY <3>1
  <2>6. ASSUME NEW m \in Movers, SubmitPreview(m) \/ SubmitBare(m) \/ SubmitApproved(m)
        PROVE UNCHANGED files
    BY <2>6 DEF SubmitPreview, SubmitBare, SubmitApproved, Submit
  <2>7. ASSUME NEW m \in Movers, Step(m) PROVE Kept
    BY <2>7, <2>1, <2>2, <2>3, <2>4, VisibleSteps
  <2>8. CASE Crash \/ UNCHANGED vars
    BY <2>8, <2>1 DEF Crash, vars
  <2> QED BY <1>1, <2>1, <2>5, <2>6, <2>7, <2>8 DEF Next
<1>2. Init => SafeInv
  BY SafeInit
<1>3. SafeInv /\ [Next]_vars => SafeInv'
  BY SafeStep
<1>4. SafeInv /\ [Next]_vars => [Kept]_vars
  BY <1>1
<1> QED BY <1>2, <1>3, <1>4, PTL DEF Spec, RestKeepsMeaning, SiteKept

\* The rename of the `.env` is AtomicMove's Define, the rename of the compose
\* file its Move, the rollback its Undefine; every other step is invisible.
LEMMA RenameEnvDefines ==
  ASSUME SafeInv, NEW m \in Movers, RenameEnv(m), dotenv' # dotenv
  PROVE  Contract!Next
<1>1. pc[m] = "renameEnv" /\ EnvPending(m) /\ compose' = compose
      /\ dotenv' = [there |-> TRUE, vars |-> plan[m].vars]
  BY DEF RenameEnv, Goto, Finish, EnvPending
<1>2. /\ dotenv.vars[req[m].name] = Unset
      /\ plan[m].vars = [dotenv.vars EXCEPT ![req[m].name] = lit[m]]
  BY <1>1, SafeFrame DEF Fresh
<1>3. req[m].name \in Names /\ lit[m] \in Literals
  BY <1>1, SafeFrame DEF FrameOK
<1>4. Needless(req[m].name)
  BY <1>2, <1>3, SafeFrame DEF Needless
<1>5. Contract!Define(req[m].name, lit[m])
  BY <1>1, <1>2, <1>4 DEF Contract!Define, Contract!Needless, Contract!HostSets, Needless, HostSets
<1> QED BY <1>3, <1>5 DEF Contract!Next

LEMMA RollbackUndefines ==
  ASSUME SafeInv, TypeInv', NEW m \in Movers, Rollback(m), dotenv' # dotenv
  PROVE  Contract!Next
<1>1. pc[m] = "rollback" /\ EnvWritten(m) /\ compose' = compose /\ dotenv' = RolledBack(m)
  BY DEF Rollback, Finish, Goto, EnvWritten
<1>2. /\ dotenv.vars = [before[m] EXCEPT ![req[m].name] = lit[m]]
      /\ before[m][req[m].name] = Unset
      /\ plan[m].created => before[m] = [n \in Names |-> Unset]
      /\ Needless(req[m].name)
  BY <1>1, WrittenFrame
<1>3. before[m] \in EnvVars /\ req[m].name \in Names
  BY <1>1, SafeFrame DEF FrameOK, WriteSteps, TwoFileSteps
<1>4. dotenv'.vars = before[m]
  BY <1>1, <1>2 DEF RolledBack
<1>5. before[m] = [dotenv.vars EXCEPT ![req[m].name] = Unset]
  BY <1>2, <1>3 DEF EnvVars
<1>6. dotenv' \in Contract!EnvFiles
  BY DEF TypeInv, DiskOK, EnvFiles, Contract!EnvFiles
<1>7. Contract!Undefine(req[m].name)
  BY <1>1, <1>2, <1>4, <1>5, <1>6
     DEF Contract!Undefine, Contract!Needless, Contract!HostSets, Needless, HostSets
<1> QED BY <1>3, <1>7 DEF Contract!Next

LEMMA RenameComposeMoves ==
  ASSUME SafeInv, NEW m \in Movers, RenameCompose(m), compose' # compose
  PROVE  Contract!Next
<1>1. pc[m] = "renameCompose" /\ dotenv' = dotenv
      /\ compose' = [seen[m] EXCEPT ![req[m].site] = req[m].name]
  BY DEF RenameCompose
<1>2. /\ seen[m] = compose /\ lit[m] = compose[req[m].site] /\ req[m].name \in Names
      /\ lit[m] \in Literals /\ req[m].site \in Sites
  BY <1>1, SafeFrame DEF Fresh, FrameOK, Running, WriteSteps, TwoFileSteps
<1>3. dotenv.vars[req[m].name] = lit[m]
  BY <1>1, <1>2, AssignedFrame
<1>4. Contract!Move(req[m].site, req[m].name)
  BY <1>1, <1>2, <1>3 DEF Contract!Move
<1> QED BY <1>2, <1>4 DEF Contract!Next

\* The whole write implements the atomic move with its inert residue.
THEOREM ImplementsAtomicMove ==
  ASSUME OneServer, MaxEdits = 0 PROVE Spec => AtomicMoveSpec
<1>1. Init => SafeInv /\ Contract!Init
  BY SafeInit DEF OneServer, Init, Contract!Init, Documents, Scalars, EnvFiles, Contract!EnvFiles,
                  DefinedRefs, Lookup, HostSets, Contract!HostSets
<1>2. SafeInv /\ [Next]_vars => SafeInv'
  BY SafeStep
<1>3. ASSUME SafeInv, SafeInv', [Next]_vars PROVE [Contract!Next]_(Contract!vars)
  <2> USE <1>3
  <2>1. ASSUME NEW m \in Movers, Step(m) PROVE [Contract!Next]_(Contract!vars)
    BY <2>1, VisibleSteps, RenameEnvDefines, RollbackUndefines, RenameComposeMoves
       DEF SafeInv, files, Contract!vars
  <2>2. ASSUME NEW m \in Movers, SubmitPreview(m) \/ SubmitBare(m) \/ SubmitApproved(m)
        PROVE [Contract!Next]_(Contract!vars)
    BY <2>2 DEF SubmitPreview, SubmitBare, SubmitApproved, Submit, files, Contract!vars
  <2>3. ~Edit
    BY DEF Edit, SafeInv, TypeInv, DiskOK
  <2>4. CASE Crash \/ UNCHANGED vars
    BY <2>4 DEF Crash, vars, files, Contract!vars
  <2> QED BY <1>3, <2>1, <2>2, <2>3, <2>4 DEF Next
<1> QED BY <1>1, <1>2, <1>3, PTL DEF Spec, AtomicMoveSpec, Contract!Spec

-----------------------------------------------------------------------------
(***************************************************************************)
(* How a request ends: which temporaries it leaves, and what it did to     *)
(* the files when it did not succeed.                                      *)
(***************************************************************************)
\* Where a request holds each of its temporaries.
EnvTempAt(m)     == \/ pc[m] = "renameEnv"
                    \/ pc[m] = "stageCompose" /\ ~plan[m].unchanged
ComposeTempAt(m) == pc[m] \in {"renameEnv", "renameCompose"}

TempInv ==
  \A m \in Movers : /\ <<m, "env">> \in temps => EnvTempAt(m)
                    /\ <<m, "compose">> \in temps => ComposeTempAt(m)

\* A step that goes on or ends and removes what it must.
LEMMA TempStep ==
  ASSUME TypeInv, TypeInv', TempInv, NEW m \in Movers, Others(m),
         \A o \in Movers \ {m}, k \in {"env", "compose"} :
            <<o, k>> \in temps' => <<o, k>> \in temps,
         <<m, "env">> \in temps' => EnvTempAt(m)',
         <<m, "compose">> \in temps' => ComposeTempAt(m)'
  PROVE  TempInv'
BY DEF TempInv, EnvTempAt, ComposeTempAt, Others

\* A request that ends where it holds no temporary, or removes those it has.
LEMMA TempFinish ==
  ASSUME TypeInv, TypeInv', TempInv, NEW m \in Movers, NEW from, NEW how,
         Finish(m, from, how), temps' \subseteq temps,
         \A k \in {"env", "compose"} : <<m, k>> \notin temps'
  PROVE  TempInv'
<1>1. Others(m)
  BY FinishOthers DEF TypeInv
<1> QED BY <1>1, TempStep

\* A step that touches no temporary, between two places where m has none.
LEMMA TempQuiet ==
  ASSUME TypeInv, TypeInv', TempInv, NEW m \in Movers, Others(m), UNCHANGED temps,
         ~EnvTempAt(m), ~ComposeTempAt(m)
  PROVE  TempInv'
<1>1. <<m, "env">> \notin temps /\ <<m, "compose">> \notin temps
  BY DEF TempInv
<1> QED BY <1>1, TempStep

LEMMA TempStepAll == TypeInv /\ TempInv /\ [Next]_vars => TempInv'
<1> SUFFICES ASSUME TypeInv, TempInv, [Next]_vars PROVE TempInv'
  OBVIOUS
<1>t. TypeInv' /\ FramesOK
  BY TypeStep DEF TypeInv
<1>1. ASSUME NEW m \in Movers, NEW r, Submit(m, r) PROVE TempInv'
  <2>1. Others(m) /\ ~EnvTempAt(m) /\ ~ComposeTempAt(m)
    BY <1>1, <1>t DEF Submit, Goto, FramesOK, Others, EnvTempAt, ComposeTempAt
  <2> QED BY <1>1, <1>t, <2>1, TempQuiet DEF Submit
<1>2. ASSUME NEW m \in Movers,
             Lock(m) \/ ReadCompose(m) \/ PreviewCompose(m) \/ ReadEnv(m) \/ ReadBefore(m)
             \/ ReadFails(m)
      PROVE  TempInv'
  <2>1. pc[m] \in {"lock", "readCompose", "preview", "readEnv", "readBefore"} /\ UNCHANGED temps
    BY <1>2 DEF Lock, ReadCompose, PreviewCompose, ReadEnv, ReadBefore, ReadFails, Goto
  <2>2. Others(m)
    BY <1>2, <1>t DEF Lock, ReadCompose, PreviewCompose, ReadEnv, ReadBefore, ReadFails, Goto,
                      Finish, FramesOK, Others
  <2>3. ~EnvTempAt(m) /\ ~ComposeTempAt(m)
    BY <2>1 DEF EnvTempAt, ComposeTempAt
  <2> QED BY <1>t, <2>1, <2>2, <2>3, TempQuiet
<1>3. ASSUME NEW m \in Movers, StageEnv(m) PROVE TempInv'
  <2>1. pc[m] = "stageEnv" /\ ~plan[m].unchanged
    BY <1>3, <1>t DEF StageEnv, Goto, Finish, FramesOK, FrameOK, TwoFileSteps
  <2>2. <<m, "env">> \notin temps /\ <<m, "compose">> \notin temps
    BY <2>1 DEF TempInv, EnvTempAt, ComposeTempAt
  <2>3. CASE Finish(m, "stageEnv", "failed") /\ UNCHANGED temps
    BY <1>t, <2>2, <2>3, TempFinish
  <2>4. CASE /\ Goto(m, "stageEnv", "stageCompose")
             /\ temps' = temps \cup {<<m, "env">>} /\ UNCHANGED locals
    <3>1. Others(m) /\ EnvTempAt(m)'
      BY <1>t, <2>1, <2>4 DEF Goto, FramesOK, Others, locals, EnvTempAt
    <3> QED BY <1>t, <2>2, <2>4, <3>1, TempStep
  <2> QED BY <1>3, <2>3, <2>4 DEF StageEnv
<1>4. ASSUME NEW m \in Movers, StageCompose(m) PROVE TempInv'
  <2>1. pc[m] = "stageCompose"
    BY <1>4 DEF StageCompose, Goto, Finish
  <2>2. <<m, "compose">> \notin temps
    BY <2>1 DEF TempInv, ComposeTempAt
  <2>3. CASE Finish(m, "stageCompose", "failed") /\ temps' = temps \ Staged(m)
    BY <1>t, <2>2, <2>3, TempFinish DEF Staged
  <2>4. CASE /\ Goto(m, "stageCompose", NextRename(m))
             /\ temps' = temps \cup {<<m, "compose">>} /\ UNCHANGED locals
    <3>1. Others(m) /\ ComposeTempAt(m)'
      BY <1>t, <2>4 DEF Goto, NextRename, FramesOK, Others, locals, ComposeTempAt
    <3>2. <<m, "env">> \in temps => EnvTempAt(m)'
      BY <1>t, <2>1, <2>4 DEF TempInv, EnvTempAt, Goto, NextRename, FramesOK
    <3> QED BY <1>t, <2>4, <3>1, <3>2, TempStep
  <2> QED BY <1>4, <2>3, <2>4 DEF StageCompose
<1>5. ASSUME NEW m \in Movers, RenameEnv(m) PROVE TempInv'
  <2>1. CASE /\ Finish(m, "renameEnv", "failed")
             /\ temps' = temps \ {<<m, "env">>, <<m, "compose">>}
    BY <1>t, <2>1, TempFinish
  <2>2. CASE /\ Goto(m, "renameEnv", "renameCompose")
             /\ temps' = temps \ {<<m, "env">>} /\ UNCHANGED locals
    <3>1. Others(m) /\ ComposeTempAt(m)'
      BY <1>t, <2>2 DEF Goto, FramesOK, Others, locals, ComposeTempAt
    <3> QED BY <1>t, <2>2, <3>1, TempStep
  <2> QED BY <1>5, <2>1, <2>2 DEF RenameEnv
<1>6. ASSUME NEW m \in Movers, RenameCompose(m) PROVE TempInv'
  <2>1. pc[m] = "renameCompose" /\ temps' = temps \ {<<m, "compose">>}
    BY <1>6 DEF RenameCompose
  <2>2. <<m, "env">> \notin temps'
    BY <2>1 DEF TempInv, EnvTempAt
  <2>3. Others(m)
    BY <1>6, <1>t DEF RenameCompose, Goto, Finish, FramesOK, Others, locals
  <2> QED BY <1>t, <2>1, <2>2, <2>3, TempStep
<1>7. ASSUME NEW m \in Movers, Rollback(m) PROVE TempInv'
  <2>1. pc[m] = "rollback" /\ UNCHANGED temps
    BY <1>7 DEF Rollback, Goto, Finish
  <2>2. ~EnvTempAt(m) /\ ~ComposeTempAt(m)
    BY <2>1 DEF EnvTempAt, ComposeTempAt
  <2>3. Others(m)
    BY <1>7, <1>t DEF Rollback, Goto, Finish, FramesOK, Others
  <2> QED BY <1>t, <2>1, <2>2, <2>3, TempQuiet
<1>8. CASE Crash
  BY <1>8 DEF Crash, TempInv
<1>9. CASE Edit \/ UNCHANGED vars
  BY <1>9 DEF Edit, vars, locals, TempInv, EnvTempAt, ComposeTempAt
<1> QED
  BY <1>1, <1>2, <1>3, <1>4, <1>5, <1>6, <1>7, <1>8, <1>9
     DEF Next, Step, SubmitPreview, SubmitBare, SubmitApproved

\* However its calls fail, a request that has ended without a crash left no
\* temporary of its own beside the files; no lock is needed for it.
THEOREM NothingLeftBehind == Spec => []NoTempLeft
<1>1. Init => TypeInv /\ TempInv
  BY TypeInit DEF Init, TempInv
<1>2. TypeInv /\ TempInv /\ [Next]_vars => (TypeInv /\ TempInv)'
  BY TypeStep, TempStepAll
<1>3. TypeInv /\ TempInv => NoTempLeft
  <2> SUFFICES ASSUME TypeInv, TempInv, NEW t \in temps PROVE pc[t[1]] # "idle"
    BY DEF NoTempLeft
  <2>1. PICK m \in Movers, k \in {"env", "compose"} : t = <<m, k>>
    BY DEF TypeInv, DiskOK
  <2> QED BY <2>1 DEF TempInv, EnvTempAt, ComposeTempAt
<1> QED BY <1>1, <1>2, <1>3, PTL DEF Spec
-----------------------------------------------------------------------------
(* What a request found is what it leaves, unless it succeeds.             *)

\* Both files are as the request found them; after the `.env` rename, what it
\* would put back is.
EntryKept(m) ==
  Running(m) =>
    /\ entry[m] \in Documents \X EnvFiles
    /\ compose = entry[m][1]
    /\ ~EnvWritten(m) => dotenv = entry[m][2]
    /\ EnvWritten(m) => /\ before[m] = entry[m][2].vars
                        /\ plan[m].created = ~entry[m][2].there

EntryInv == SafeInv /\ \A m \in Movers : EntryKept(m)

\* How a step of m may end, when it does not rename the compose file.
EndsAsFound(m) ==
  pc'[m] = "idle" =>
    \/ files' = entry[m]
    \/ /\ result'[m] = "inert"
       /\ compose' = entry[m][1]
       /\ dotenv' = [there |-> TRUE,
                      vars |-> [entry[m][2].vars EXCEPT ![req[m].name] = lit[m]]]

\* A step of m that leaves both files alone keeps what the others know.
LEMMA EntryQuiet ==
  ASSUME EntryInv, NEW m \in Movers, Others(m), UNCHANGED files,
         \A o \in Movers \ {m} : entry'[o] = entry[o], EntryKept(m)'
  PROVE  \A o \in Movers : EntryKept(o)'
BY DEF EntryInv, EntryKept, Others, EnvWritten, Running, files

\* A step of a write: nobody else is running.
LEMMA EntryLoud ==
  ASSUME EntryInv, NEW m \in Movers, Others(m), pc[m] \in WriteSteps, EntryKept(m)'
  PROVE  \A o \in Movers : EntryKept(o)'
<1>1. \A o \in Movers \ {m} : ~Running(o)
  BY WriterAlone DEF EntryInv, SafeInv
<1> QED BY <1>1 DEF EntryKept, Others, Running

\* A request that returns leaves nothing to keep.
LEMMA EntryFinish ==
  ASSUME EntryInv, NEW m \in Movers, NEW from, NEW how, Finish(m, from, how)
  PROVE  /\ Others(m) /\ pc'[m] = "idle" /\ result'[m] = how /\ EntryKept(m)'
         /\ \A o \in Movers \ {m} : entry'[o] = entry[o]
<1>1. FramesOK /\ DiskOK
  BY DEF EntryInv, SafeInv, TypeInv
<1>2. Others(m) /\ pc'[m] = "idle" /\ result'[m] = how
  BY <1>1, FinishOthers DEF Finish, Goto, FramesOK, DiskOK
<1>3. \A o \in Movers \ {m} : entry'[o] = entry[o]
  BY <1>1 DEF Finish, FramesOK
<1> QED BY <1>2, <1>3 DEF EntryKept, Running

\* A refusal or failure before any rename.
LEMMA RefusedAsFound ==
  ASSUME EntryInv, NEW m \in Movers, NEW from, NEW how, Finish(m, from, how),
         UNCHANGED files, Running(m), ~EnvWritten(m)
  PROVE  EndsAsFound(m) /\ \A o \in Movers : EntryKept(o)'
<1>1. files = entry[m]
  BY DEF EntryInv, EntryKept, files
<1> QED BY <1>1, EntryFinish, EntryQuiet DEF EndsAsFound

\* A step that goes on to another call, the files untouched.
LEMMA GoesOn ==
  ASSUME EntryInv, NEW m \in Movers, NEW to, to # "idle", pc' = [pc EXCEPT ![m] = to],
         Others(m), UNCHANGED <<files, entry>>, Running(m), ~EnvWritten(m), ~EnvWritten(m)'
  PROVE  EndsAsFound(m) /\ \A o \in Movers : EntryKept(o)'
<1>1. pc'[m] = to
  BY DEF EntryInv, SafeInv, TypeInv, FramesOK
<1>2. EntryKept(m)'
  BY DEF EntryInv, EntryKept, files
<1> QED BY <1>1, <1>2, EntryQuiet DEF EndsAsFound

LEMMA RenameEnvEntry ==
  ASSUME EntryInv, NEW m \in Movers, RenameEnv(m)
  PROVE  EndsAsFound(m) /\ \A o \in Movers : EntryKept(o)'
<1>0. pc[m] = "renameEnv" /\ Running(m) /\ ~EnvWritten(m) /\ EnvPending(m) /\ FramesOK
  BY DEF RenameEnv, Goto, Finish, Running, EnvWritten, EnvPending, EntryInv, SafeInv, TypeInv
<1>1. CASE Finish(m, "renameEnv", "failed") /\ UNCHANGED dotenv
  BY <1>0, <1>1, RefusedAsFound DEF RenameEnv, files
<1>2. CASE Goto(m, "renameEnv", "renameCompose") /\ UNCHANGED locals
  <2>1. pc'[m] = "renameCompose" /\ Others(m)
    BY <1>0, <1>2 DEF Goto, FramesOK, Others, locals
  <2>2. ~plan[m].unchanged /\ before[m] = dotenv.vars /\ plan[m].created = ~dotenv.there
    <3>1. Fresh(m) /\ FrameOK(m)
      BY SafeFrame DEF EntryInv
    <3> QED BY <1>0, <3>1 DEF Fresh, FrameOK, TwoFileSteps
  <2>3. EntryKept(m)'
    BY <1>0, <1>2, <2>1, <2>2 DEF EntryInv, EntryKept, EnvWritten, RenameEnv, locals
  <2> QED BY <1>0, <2>1, <2>3, EntryLoud DEF EndsAsFound, WriteSteps, TwoFileSteps
<1> QED BY <1>1, <1>2 DEF RenameEnv

LEMMA RenameComposeEntry ==
  ASSUME EntryInv, NEW m \in Movers, RenameCompose(m)
  PROVE  /\ result'[m] # "done" => EndsAsFound(m)
         /\ \A o \in Movers : EntryKept(o)'
<1>0. pc[m] = "renameCompose" /\ Running(m) /\ FramesOK
  BY DEF RenameCompose, Running, EntryInv, SafeInv, TypeInv
<1>1. CASE Finish(m, "renameCompose", "failed") /\ plan[m].unchanged /\ UNCHANGED compose
  <2>1. ~EnvWritten(m)
    BY <1>0, <1>1 DEF EnvWritten
  <2> QED BY <1>0, <1>1, <2>1, RefusedAsFound DEF RenameCompose, files
<1>2. CASE Finish(m, "renameCompose", "done")
  BY <1>0, <1>2, EntryFinish, EntryLoud DEF WriteSteps
<1>3. CASE /\ ~plan[m].unchanged /\ Goto(m, "renameCompose", "rollback")
           /\ UNCHANGED <<compose, result, locals>>
  <2>1. pc'[m] = "rollback" /\ Others(m)
    BY <1>0, <1>3 DEF Goto, FramesOK, Others, locals
  <2>2. EntryKept(m)'
    BY <1>0, <1>3, <2>1 DEF EntryInv, EntryKept, EnvWritten, locals
  <2> QED BY <1>0, <2>1, <2>2, EntryLoud DEF EndsAsFound, WriteSteps
<1> QED BY <1>1, <1>2, <1>3 DEF RenameCompose

\* The rollback puts back what was there, the absence of a `.env` included; one
\* that fails leaves the line this move added.
LEMMA RollbackEntry ==
  ASSUME EntryInv, NEW m \in Movers, Rollback(m)
  PROVE  EndsAsFound(m) /\ \A o \in Movers : EntryKept(o)'
<1>0. pc[m] = "rollback" /\ Running(m) /\ EnvWritten(m) /\ compose' = compose
  BY DEF Rollback, Finish, Goto, Running, EnvWritten
<1>1. PICK how \in {"rolledback", "inert"} :
        /\ Finish(m, "rollback", how)
        /\ dotenv' = IF how = "rolledback" THEN RolledBack(m) ELSE dotenv
  BY DEF Rollback
<1>2. \A o \in Movers : EntryKept(o)'
  BY <1>0, <1>1, EntryFinish, EntryLoud DEF WriteSteps, TwoFileSteps
<1>3. /\ entry[m] \in Documents \X EnvFiles /\ compose = entry[m][1]
      /\ before[m] = entry[m][2].vars /\ plan[m].created = ~entry[m][2].there
  BY <1>0 DEF EntryInv, EntryKept
<1>4. CASE how = "rolledback"
  <2>1. dotenv' = [there |-> entry[m][2].there, vars |-> entry[m][2].vars]
    BY <1>1, <1>3, <1>4 DEF RolledBack, EnvFiles
  <2>2. dotenv' = entry[m][2] /\ entry[m] = <<entry[m][1], entry[m][2]>>
    BY <1>3, <2>1 DEF EnvFiles
  <2>3. files' = entry[m]
    BY <1>0, <1>3, <2>2 DEF files
  <2> QED BY <1>2, <2>3 DEF EndsAsFound
<1>5. CASE how = "inert"
  <2>1. dotenv = [there |-> TRUE, vars |-> plan[m].vars]
        /\ plan[m].vars = [before[m] EXCEPT ![req[m].name] = lit[m]]
    BY <1>0, SafeFrame DEF EntryInv, Fresh
  <2>2. result'[m] = "inert"
    BY <1>1, <1>5, EntryFinish
  <2> QED BY <1>0, <1>1, <1>2, <1>3, <1>5, <2>1, <2>2 DEF EndsAsFound
<1> QED BY <1>1, <1>4, <1>5

LEMMA EntryOwnStep ==
  ASSUME EntryInv, NEW m \in Movers, Step(m)
  PROVE  /\ Running(m) /\ result'[m] # "done" => EndsAsFound(m)
         /\ \A o \in Movers : EntryKept(o)'
<1>f. FramesOK /\ DiskOK /\ FrameOK(m)
  BY DEF EntryInv, SafeInv, TypeInv, FramesOK
<1>1. CASE Lock(m)
  <2>1. pc[m] = "lock" /\ pc'[m] = "readCompose" /\ Others(m) /\ entry'[m] = files
        /\ \A o \in Movers \ {m} : entry'[o] = entry[o]
    BY <1>f, <1>1 DEF Lock, Goto, FramesOK, Others
  <2>2. EntryKept(m)'
    BY <1>f, <1>1, <2>1 DEF Lock, EntryKept, EnvWritten, files, DiskOK
  <2> QED BY <1>1, <2>1, <2>2, EntryQuiet DEF Lock, Running
<1>2. CASE ReadCompose(m) \/ PreviewCompose(m) \/ ReadEnv(m) \/ ReadBefore(m)
           \/ ReadFails(m) \/ StageEnv(m) \/ StageCompose(m)
  <2>1. /\ pc[m] \in {"readCompose", "preview", "readEnv", "readBefore", "stageEnv", "stageCompose"}
        /\ UNCHANGED files
    BY <1>2 DEF ReadCompose, PreviewCompose, ReadEnv, ReadBefore, ReadFails, StageEnv,
                StageCompose, Goto, Finish, files
  <2>2. Running(m) /\ ~EnvWritten(m)
    BY <2>1 DEF Running, EnvWritten
  <2>3. CASE \E from, how : Finish(m, from, how)
    BY <2>1, <2>2, <2>3, RefusedAsFound
  <2>4. CASE /\ \E from, to : Goto(m, from, to) /\ to # "idle"
             /\ UNCHANGED entry /\ Others(m) /\ ~EnvWritten(m)'
    BY <2>1, <2>2, <2>4, GoesOn DEF Goto
  <2>5. Now(m) = lit[m] => AssignEnv(m).unchanged
    BY DEF AssignEnv
  <2>6. (\E from, how : Finish(m, from, how))
        \/ (\E from, to : Goto(m, from, to) /\ to # "idle" /\ UNCHANGED entry)
    <3>1. CASE StageCompose(m)
      <4>1. NextRename(m) # "idle"
        BY DEF NextRename
      <4> QED BY <3>1, <4>1 DEF StageCompose, locals
    <3>2. CASE ReadEnv(m)
      <4>1. (IF Now(m) = lit[m] THEN "stageCompose" ELSE "readBefore") # "idle"
        OBVIOUS
      <4> QED BY <3>2, <4>1 DEF ReadEnv
    <3> QED BY <1>2, <3>1, <3>2
            DEF ReadCompose, PreviewCompose, ReadBefore, ReadFails, StageEnv, locals
  <2>7. ASSUME NEW from, NEW to, Goto(m, from, to), to # "idle", UNCHANGED entry
        PROVE  Others(m) /\ ~EnvWritten(m)'
    <3>1. Others(m)
      BY <1>2, <1>f, <2>7 DEF ReadCompose, PreviewCompose, ReadEnv, ReadBefore, ReadFails,
                StageEnv, StageCompose, Goto, Finish, FramesOK, Others, locals
    <3>2. ~EnvWritten(m)'
      BY <1>2, <1>f, <2>7 DEF ReadCompose, PreviewCompose, ReadEnv, ReadBefore, ReadFails,
                StageEnv, StageCompose, NextRename, Goto, Finish, FramesOK, EnvWritten, locals
    <3> QED BY <3>1, <3>2
  <2> QED BY <2>3, <2>4, <2>6, <2>7
<1>3. CASE RenameEnv(m) \/ RenameCompose(m) \/ Rollback(m)
  BY <1>3, RenameEnvEntry, RenameComposeEntry, RollbackEntry
<1> QED BY <1>1, <1>2, <1>3 DEF Step

LEMMA EntryNext == OneServer /\ EntryInv /\ [Next]_vars => EntryInv'
<1> SUFFICES ASSUME OneServer, EntryInv, [Next]_vars PROVE \A o \in Movers : EntryKept(o)'
  BY SafeStep DEF EntryInv
<1>f. FramesOK
  BY DEF EntryInv, SafeInv, TypeInv
<1>1. ASSUME NEW m \in Movers, Step(m) PROVE \A o \in Movers : EntryKept(o)'
  BY <1>1, EntryOwnStep
<1>2. ASSUME NEW m \in Movers, NEW r, Submit(m, r) PROVE \A o \in Movers : EntryKept(o)'
  <2>1. pc'[m] = "lock" /\ Others(m) /\ UNCHANGED <<files, entry>>
    BY <1>2, <1>f DEF Submit, Goto, FramesOK, Others
  <2> QED BY <2>1, EntryQuiet DEF EntryKept, Running
<1>3. CASE Edit
  BY <1>3 DEF Edit, OneServer, EntryKept, Running
<1>4. CASE Crash
  BY <1>4 DEF Crash, EntryKept, Running
<1>5. CASE UNCHANGED vars
  BY <1>5 DEF vars, files, locals, EntryInv, EntryKept, EnvWritten, Running
<1> QED
  BY <1>1, <1>2, <1>3, <1>4, <1>5 DEF Next, SubmitPreview, SubmitBare, SubmitApproved

\* With one server and nobody saving during a request: a move that refuses or
\* fails leaves both files exactly as it found them, a `.env` that was not there
\* included, or the one inert line when the rollback fails as well.
THEOREM MovesAreAllOrNothing == ASSUME OneServer PROVE Spec => AllOrNothing
<1> DEFINE Ends ==
       \A m \in Movers :
         /\ Running(m) /\ pc'[m] = "idle" /\ crashes' = crashes
         /\ result'[m] # "done"
         => \/ files' = entry[m]
            \/ /\ result'[m] = "inert"
               /\ compose' = entry[m][1]
               /\ dotenv' = [there |-> TRUE,
                              vars |-> [entry[m][2].vars EXCEPT ![req[m].name] = lit[m]]]
<1>1. Init => EntryInv
  BY SafeInit DEF EntryInv, EntryKept, Init, Running
<1>2. EntryInv /\ [Next]_vars => EntryInv'
  BY EntryNext
<1>3. ASSUME EntryInv, [Next]_vars PROVE Ends
  <2> SUFFICES ASSUME NEW m \in Movers, Running(m), pc'[m] = "idle", crashes' = crashes,
                      result'[m] # "done"
               PROVE  EndsAsFound(m)
    BY DEF EndsAsFound
  <2>f. FramesOK /\ crashes \in Nat
    BY <1>3, ConstantsAssumption DEF EntryInv, SafeInv, TypeInv, DiskOK
  <2>1. CASE Step(m)
    BY <1>3, <2>1, EntryOwnStep
  <2>2. ASSUME NEW o \in Movers \ {m}, Step(o) \/ \E r : Submit(o, r) PROVE FALSE
    <3>1. pc'[m] = pc[m]
      BY <2>f, <2>2 DEF Step, Submit, Lock, ReadCompose, PreviewCompose, ReadEnv, ReadBefore,
             ReadFails, StageEnv, StageCompose, RenameEnv, RenameCompose, Rollback, Goto, Finish,
             FramesOK
    <3> QED BY <3>1 DEF Running
  <2>3. ASSUME NEW r, Submit(m, r) PROVE FALSE
    BY <2>3, <2>f DEF Submit, Goto, FramesOK
  <2>4. ~Crash
    BY <2>f DEF Crash
  <2>5. CASE Edit \/ UNCHANGED vars
    BY <2>5 DEF Edit, vars, Running
  <2> QED
    BY <1>3, <2>1, <2>2, <2>3, <2>4, <2>5
       DEF Next, SubmitPreview, SubmitBare, SubmitApproved
<1>4. EntryInv /\ [Next]_vars => [Ends]_vars
  BY <1>3
<1> QED BY <1>1, <1>2, <1>4, PTL DEF Spec, AllOrNothing
-----------------------------------------------------------------------------
(* What an approved move writes.                                           *)

\* Once its expectations were compared, a request knows that they were met.
ExpectKept(m) ==
  /\ pc[m] \in WriteSteps \cup {"readEnv"} /\ req[m].expect # None
       => req[m].expect.doc[req[m].site] = lit[m]
  /\ pc[m] \in WriteSteps /\ req[m].expect # None
       => req[m].expect.was \in {Unset, lit[m]}

ShownInv == SafeInv /\ \A m \in Movers : ExpectKept(m)

\* A step that leaves m idle, or leaves m where it knew as much.
LEMMA ExpectOthers ==
  ASSUME ShownInv, NEW m \in Movers, Others(m), ExpectKept(m)'
  PROVE  \A o \in Movers : ExpectKept(o)'
BY DEF ShownInv, ExpectKept, Others

LEMMA ExpectFinish ==
  ASSUME ShownInv, NEW m \in Movers, NEW from, NEW how, Finish(m, from, how)
  PROVE  \A o \in Movers : ExpectKept(o)'
<1>1. Others(m) /\ pc'[m] = "idle"
  BY FinishOthers DEF ShownInv, SafeInv, TypeInv, FramesOK, Finish, Goto
<1>2. ExpectKept(m)'
  BY <1>1 DEF ExpectKept, WriteSteps, TwoFileSteps
<1> QED BY <1>1, <1>2, ExpectOthers

LEMMA ExpectGoesOn ==
  ASSUME ShownInv, NEW m \in Movers, NEW to, pc' = [pc EXCEPT ![m] = to],
         UNCHANGED locals, pc[m] \in WriteSteps
  PROVE  \A o \in Movers : ExpectKept(o)'
<1>1. FramesOK
  BY DEF ShownInv, SafeInv, TypeInv
<1>2. Others(m) /\ ExpectKept(m)'
  BY <1>1 DEF ShownInv, ExpectKept, Others, FramesOK, locals
<1> QED BY <1>2, ExpectOthers

LEMMA ExpectNext == OneServer /\ ShownInv /\ [Next]_vars => ShownInv'
<1> SUFFICES ASSUME OneServer, ShownInv, [Next]_vars PROVE \A o \in Movers : ExpectKept(o)'
  BY SafeStep DEF ShownInv
<1>f. FramesOK /\ \A m \in Movers : Fresh(m)
  BY DEF ShownInv, SafeInv, TypeInv
<1>1. ASSUME NEW m \in Movers,
             Lock(m) \/ (\E r : Submit(m, r))
      PROVE  \A o \in Movers : ExpectKept(o)'
  <2>1. Others(m) /\ pc'[m] \in {"lock", "readCompose"}
    BY <1>1, <1>f DEF Lock, Submit, Goto, FramesOK, Others
  <2>2. ExpectKept(m)'
    BY <2>1 DEF ExpectKept, WriteSteps, TwoFileSteps
  <2> QED BY <2>1, <2>2, ExpectOthers
<1>2. ASSUME NEW m \in Movers, ReadCompose(m) PROVE \A o \in Movers : ExpectKept(o)'
  <2>1. CASE Finish(m, "readCompose", "interpolated")
    BY <2>1, ExpectFinish
  <2>2. CASE /\ Goto(m, "readCompose", "preview")
             /\ lit' = [lit EXCEPT ![m] = compose[req[m].site]]
             /\ UNCHANGED <<result, req, seen, plan, before, entry>>
    <3>1. Others(m) /\ pc'[m] = "preview"
      BY <1>f, <2>2 DEF Goto, FramesOK, Others
    <3>2. ExpectKept(m)'
      BY <3>1 DEF ExpectKept, WriteSteps, TwoFileSteps
    <3> QED BY <3>1, <3>2, ExpectOthers
  <2> QED BY <1>2, <2>1, <2>2 DEF ReadCompose
<1>3. ASSUME NEW m \in Movers, PreviewCompose(m) PROVE \A o \in Movers : ExpectKept(o)'
  <2>1. CASE \E how : Finish(m, "preview", how)
    BY <2>1, ExpectFinish
  <2>2. CASE /\ ExpectMet(m) /\ Goto(m, "preview", "readEnv")
             /\ UNCHANGED <<req, lit, plan, before>> /\ seen' = [seen EXCEPT ![m] = compose]
    <3>1. Others(m) /\ pc'[m] = "readEnv"
      BY <1>f, <2>2 DEF Goto, FramesOK, Others
    <3>2. lit[m] = compose[req[m].site]
      BY <1>f, <2>2 DEF Goto, Fresh, Running
    <3>3. ExpectKept(m)'
      BY <2>2, <3>1, <3>2 DEF ExpectMet, ExpectKept, WriteSteps, TwoFileSteps
    <3> QED BY <3>1, <3>3, ExpectOthers
  <2> QED BY <1>3, <2>1, <2>2 DEF PreviewCompose
<1>4. ASSUME NEW m \in Movers, ReadEnv(m) PROVE \A o \in Movers : ExpectKept(o)'
  <2>1. CASE \E how : Finish(m, "readEnv", how)
    BY <2>1, ExpectFinish
  <2>2. CASE /\ EnvExpectMet(m) /\ CanAssign(m)
             /\ Goto(m, "readEnv", IF Now(m) = lit[m] THEN "stageCompose" ELSE "readBefore")
             /\ UNCHANGED <<req, lit, seen, before>> /\ plan' = [plan EXCEPT ![m] = AssignEnv(m)]
    <3>1. Others(m)
      BY <1>f, <2>2 DEF Goto, FramesOK, Others
    <3>2. req[m].expect # None => req[m].expect.was \in {Unset, lit[m]}
      BY <2>2 DEF EnvExpectMet, CanAssign
    <3>3. req[m].expect # None => req[m].expect.doc[req[m].site] = lit[m]
      BY <2>2 DEF Goto, ShownInv, ExpectKept
    <3>4. ExpectKept(m)'
      BY <2>2, <3>2, <3>3 DEF ExpectKept
    <3> QED BY <3>1, <3>4, ExpectOthers
  <2> QED BY <1>4, <2>1, <2>2 DEF ReadEnv
<1>5. ASSUME NEW m \in Movers, ReadBefore(m) PROVE \A o \in Movers : ExpectKept(o)'
  <2>1. Others(m) /\ UNCHANGED <<req, lit>> /\ pc[m] \in WriteSteps
    BY <1>5, <1>f DEF ReadBefore, Goto, FramesOK, Others, WriteSteps, TwoFileSteps
  <2>2. ExpectKept(m)'
    BY <2>1 DEF ShownInv, ExpectKept
  <2> QED BY <2>1, <2>2, ExpectOthers
<1>6. ASSUME NEW m \in Movers,
             ReadFails(m) \/ StageEnv(m) \/ StageCompose(m) \/ RenameEnv(m)
             \/ RenameCompose(m) \/ Rollback(m)
      PROVE  \A o \in Movers : ExpectKept(o)'
  <2>1. CASE \E from, how : Finish(m, from, how)
    BY <2>1, ExpectFinish
  <2>2. CASE pc[m] \in WriteSteps /\ (\E to : pc' = [pc EXCEPT ![m] = to]) /\ UNCHANGED locals
    BY <2>2, ExpectGoesOn
  <2> QED
    BY <1>6, <2>1, <2>2 DEF ReadFails, StageEnv, StageCompose, RenameEnv, RenameCompose, Rollback,
                            Goto, WriteSteps, TwoFileSteps
<1>7. CASE Edit \/ UNCHANGED vars
  BY <1>7 DEF Edit, vars, locals, ShownInv, ExpectKept
<1>8. CASE Crash
  BY <1>8 DEF Crash, ExpectKept, WriteSteps, TwoFileSteps
<1> QED
  BY <1>1, <1>2, <1>3, <1>4, <1>5, <1>6, <1>7, <1>8
     DEF Next, Step, SubmitPreview, SubmitBare, SubmitApproved

\* With one server and nobody saving during a request: whatever happened to the
\* two files between the preview and the approval, an approved move that writes
\* moves the literal that was on screen, to a name the preview said was free or
\* already that literal.
THEOREM ApprovedAsShown == ASSUME OneServer PROVE Spec => WritesWhatWasShown
<1> DEFINE AsShown ==
       \A m \in Movers :
         pc[m] = "renameCompose" /\ compose' # compose /\ req[m].expect # None
         => LET moved == dotenv'.vars[req[m].name]
            IN  /\ moved = req[m].expect.doc[req[m].site]
                /\ req[m].expect.was \in {Unset, moved}
<1>1. Init => ShownInv
  BY SafeInit DEF ShownInv, ExpectKept, Init, WriteSteps, TwoFileSteps
<1>2. ShownInv /\ [Next]_vars => ShownInv'
  BY ExpectNext
<1>3. ASSUME ShownInv, [Next]_vars PROVE AsShown
  <2> SUFFICES ASSUME NEW m \in Movers, pc[m] = "renameCompose", compose' # compose,
                      req[m].expect # None
               PROVE  /\ dotenv'.vars[req[m].name] = req[m].expect.doc[req[m].site]
                      /\ req[m].expect.was \in {Unset, dotenv'.vars[req[m].name]}
    OBVIOUS
  <2>1. req[m].expect.doc[req[m].site] = lit[m] /\ req[m].expect.was \in {Unset, lit[m]}
    BY <1>3 DEF ShownInv, ExpectKept, WriteSteps
  <2>2. PICK o \in Movers : RenameCompose(o)
    <3>1. ~Edit
      BY DEF Edit, OneServer, Running
    <3>2. compose' = compose \/ \E o \in Movers : RenameCompose(o)
      BY <1>3, <3>1, VisibleSteps
         DEF Next, SubmitPreview, SubmitBare, SubmitApproved, Submit, Crash, vars, files,
             RenameEnv, Rollback
    <3> QED BY <3>2
  <2>3. o = m
    <3>1. pc[o] = "renameCompose"
      BY <2>2 DEF RenameCompose
    <3> QED BY <1>3, <3>1, WriterAlone DEF ShownInv, SafeInv, Running, WriteSteps
  <2>4. compose' = [seen[m] EXCEPT ![req[m].site] = req[m].name] /\ dotenv' = dotenv
    BY <2>2, <2>3 DEF RenameCompose
  <2>5. /\ req[m].name \in Names /\ req[m].site \in Sites /\ seen[m] \in Documents
        /\ dotenv.vars[req[m].name] = lit[m]
    BY <1>3, SafeFrame, AssignedFrame DEF ShownInv, FrameOK, WriteSteps
  <2>6. dotenv'.vars[req[m].name] = lit[m]
    BY <2>4, <2>5
  <2> QED BY <2>1, <2>6
<1>4. ShownInv /\ [Next]_vars => [AsShown]_vars
  BY <1>3
<1> QED BY <1>1, <1>2, <1>4, PTL DEF Spec, WritesWhatWasShown
=============================================================================
