------------------------ MODULE CoreSession_proofs -------------------------
(***************************************************************************)
(* Proofs about CoreSession.  The inductive invariant adds to the stated   *)
(* properties what each process can be while it is current, starting or    *)
(* merely alive.                                                           *)
(***************************************************************************)
EXTENDS CoreSession, TLAPS

Starts(p) == proc[p].os = "alive" /\ proc[p].handshake = "pending"

\* A process that is starting has not been told to go.
StartsUntold == \A p \in Procs : Starts(p) => ~proc[p].exited /\ ~proc[p].disposed

\* The start on offer is of this generation.
StartIsCurrent == starting # None => proc[starting].gen = gen

\* The current core is one that answered, in this generation.
CoreStands ==
  core # None => /\ proc[core].os # "none" /\ proc[core].handshake = "done"
                 /\ proc[core].gen = gen /\ ~proc[core].disposed
                 /\ proc[core].os = "dead" => proc[core].exited

\* What was never spawned is as it began.
Untouched == \A p \in Procs : proc[p].os = "none" => proc[p] = NotSpawned

\* No process is of a generation still to come.
GensPast == \A p \in Procs : proc[p].gen <= gen

\* A start that failed left a client that has killed its process.
FailedExited ==
  \A p \in Procs : proc[p].os = "alive" /\ proc[p].handshake = "failed" => proc[p].exited

Standing == StartsUntold /\ StartIsCurrent /\ CoreStands /\ Untouched /\ GensPast
            /\ FailedExited

IInv == TypeOK /\ Standing /\ RetryGetsFresh /\ OneStart /\ NoneWaitsOnTheDead

\* While a core runs, nothing is being started.
NoSpare == CoreRuns => starting = None
-----------------------------------------------------------------------------
(* Every action keeps the invariant, one conjunct at a time.               *)
LEMMA StepKeeps ==
  ASSUME IInv, [Next]_vars
  PROVE  IInv'
<1> USE SessionAssumption DEF IInv
<1>1. ASSUME NEW c \in Calls, Call(c)
      PROVE  IInv'
  <2>1. CASE /\ CoreRuns /\ UNCHANGED <<gen, core, starting, proc>>
             /\ call' = [call EXCEPT ![c] = [at |-> "sent", on |-> core, since |-> gen]]
    <3>1. proc' \in [Procs -> Processes]
      BY <2>1 DEF TypeOK, Processes, Requests, Running, CoreRuns, MaySpawn, NotSpawned, Idle
    <3>2. call' \in [Calls -> Requests]
      BY <2>1 DEF TypeOK, Processes, Requests, Running, CoreRuns, MaySpawn, NotSpawned, Idle
    <3>3. TypeOK'
      BY <2>1, <3>1, <3>2 DEF TypeOK, Processes, Requests, Running, CoreRuns, MaySpawn,
         NotSpawned, Idle
    <3>4. StartsUntold'
      BY <2>1, <3>3 DEF TypeOK, Processes, Standing, StartsUntold, Starts, NotSpawned,
         Untouched, CoreStands, Running, CoreRuns, MaySpawn, Idle
    <3>5. StartIsCurrent'
      BY <2>1, <3>3 DEF TypeOK, Processes, Standing, StartIsCurrent, Starts, NotSpawned,
         Running, CoreRuns, MaySpawn, Idle
    <3>6. CoreStands'
      BY <2>1, <3>3 DEF TypeOK, Processes, Standing, CoreStands, StartsUntold, Starts,
         NotSpawned, OneStart, Running, CoreRuns, MaySpawn, Idle
    <3>7. Untouched'
      BY <2>1, <3>3 DEF TypeOK, Processes, Untouched, Standing, NotSpawned, Running,
         CoreRuns, MaySpawn, Idle
    <3>8. GensPast'
      BY <2>1, <3>3 DEF TypeOK, Processes, Requests, GensPast, Standing, NotSpawned,
         Running, CoreRuns, MaySpawn, Idle
    <3>9. RetryGetsFresh'
      BY <2>1, <3>3 DEF TypeOK, Processes, Requests, RetryGetsFresh, Standing,
         StartIsCurrent, CoreStands, Starts, NoneWaitsOnTheDead, NotSpawned, Untouched,
         Running, CoreRuns, MaySpawn, Idle
    <3>10. OneStart'
      BY <2>1, <3>3 DEF TypeOK, Processes, OneStart, GensPast, Standing, StartIsCurrent,
         CoreStands, Starts, NotSpawned, Untouched, Running, CoreRuns, MaySpawn, Idle
    <3>11. NoneWaitsOnTheDead'
      BY <2>1, <3>3 DEF TypeOK, Processes, Requests, NoneWaitsOnTheDead, Standing,
         StartsUntold, CoreStands, StartIsCurrent, Starts, RetryGetsFresh, OneStart,
         NotSpawned, Running, CoreRuns, MaySpawn, Idle
    <3>12. FailedExited'
      BY <2>1, <3>3 DEF TypeOK, Processes, Requests, FailedExited, CoreStands, Starts,
         StartsUntold, Standing, NotSpawned, Running, CoreRuns, MaySpawn, Idle
    <3>. QED  BY <3>3, <3>4, <3>5, <3>6, <3>7, <3>8, <3>9, <3>10, <3>11, <3>12 DEF Standing
  <2>2. CASE /\ ~CoreRuns /\ starting # None /\ UNCHANGED <<gen, core, starting, proc>>
             /\ call' = [call EXCEPT ![c] = [at |-> "waiting", on |-> starting, since |-> gen]]
    <3>1. proc' \in [Procs -> Processes]
      BY <2>2 DEF TypeOK, Processes, Requests, Running, CoreRuns, MaySpawn, NotSpawned, Idle
    <3>2. call' \in [Calls -> Requests]
      BY <2>2 DEF TypeOK, Processes, Requests, Running, CoreRuns, MaySpawn, NotSpawned, Idle
    <3>3. TypeOK'
      BY <2>2, <3>1, <3>2 DEF TypeOK, Processes, Requests, Running, CoreRuns, MaySpawn,
         NotSpawned, Idle
    <3>4. StartsUntold'
      BY <2>2, <3>3 DEF TypeOK, Processes, Standing, StartsUntold, Starts, NotSpawned,
         Untouched, CoreStands, Running, CoreRuns, MaySpawn, Idle
    <3>5. StartIsCurrent'
      BY <2>2, <3>3 DEF TypeOK, Processes, Standing, StartIsCurrent, Starts, NotSpawned,
         Running, CoreRuns, MaySpawn, Idle
    <3>6. CoreStands'
      BY <2>2, <3>3 DEF TypeOK, Processes, Standing, CoreStands, StartsUntold, Starts,
         NotSpawned, OneStart, Running, CoreRuns, MaySpawn, Idle
    <3>7. Untouched'
      BY <2>2, <3>3 DEF TypeOK, Processes, Untouched, Standing, NotSpawned, Running,
         CoreRuns, MaySpawn, Idle
    <3>8. GensPast'
      BY <2>2, <3>3 DEF TypeOK, Processes, Requests, GensPast, Standing, NotSpawned,
         Running, CoreRuns, MaySpawn, Idle
    <3>9. RetryGetsFresh'
      BY <2>2, <3>3 DEF TypeOK, Processes, Requests, RetryGetsFresh, Standing,
         StartIsCurrent, CoreStands, Starts, NoneWaitsOnTheDead, NotSpawned, Untouched,
         Running, CoreRuns, MaySpawn, Idle
    <3>10. OneStart'
      BY <2>2, <3>3 DEF TypeOK, Processes, OneStart, GensPast, Standing, StartIsCurrent,
         CoreStands, Starts, NotSpawned, Untouched, Running, CoreRuns, MaySpawn, Idle
    <3>11. NoneWaitsOnTheDead'
      BY <2>2, <3>3 DEF TypeOK, Processes, Requests, NoneWaitsOnTheDead, Standing,
         StartsUntold, CoreStands, StartIsCurrent, Starts, RetryGetsFresh, OneStart,
         NotSpawned, Running, CoreRuns, MaySpawn, Idle
    <3>12. FailedExited'
      BY <2>2, <3>3 DEF TypeOK, Processes, Requests, FailedExited, CoreStands, Starts,
         StartsUntold, Standing, NotSpawned, Running, CoreRuns, MaySpawn, Idle
    <3>. QED  BY <3>3, <3>4, <3>5, <3>6, <3>7, <3>8, <3>9, <3>10, <3>11, <3>12 DEF Standing
  <2>3. ASSUME NEW p \in Procs, ~CoreRuns, MaySpawn, proc[p] = NotSpawned,
               proc' = [proc EXCEPT ![p].os = "alive", ![p].gen = gen], starting' = p,
               call' = [call EXCEPT ![c] = [at |-> "waiting", on |-> p, since |-> gen]],
               UNCHANGED <<gen, core>>
        PROVE  IInv'
    <3>1. proc' \in [Procs -> Processes]
      BY <2>3 DEF TypeOK, Processes, Requests, Running, CoreRuns, MaySpawn, NotSpawned, Idle
    <3>2. call' \in [Calls -> Requests]
      BY <2>3 DEF TypeOK, Processes, Requests, Running, CoreRuns, MaySpawn, NotSpawned, Idle
    <3>3. TypeOK'
      BY <2>3, <3>1, <3>2 DEF TypeOK, Processes, Requests, Running, CoreRuns, MaySpawn,
         NotSpawned, Idle
    <3>4. StartsUntold'
      BY <2>3, <3>3 DEF TypeOK, Processes, Standing, StartsUntold, Starts, NotSpawned,
         Untouched, CoreStands, Running, CoreRuns, MaySpawn, Idle
    <3>5. StartIsCurrent'
      BY <2>3, <3>3 DEF TypeOK, Processes, Standing, StartIsCurrent, Starts, NotSpawned,
         Running, CoreRuns, MaySpawn, Idle
    <3>6. CoreStands'
      BY <2>3, <3>3 DEF TypeOK, Processes, Standing, CoreStands, StartsUntold, Starts,
         NotSpawned, OneStart, Running, CoreRuns, MaySpawn, Idle
    <3>7. Untouched'
      BY <2>3, <3>3 DEF TypeOK, Processes, Untouched, Standing, NotSpawned, Running,
         CoreRuns, MaySpawn, Idle
    <3>8. GensPast'
      BY <2>3, <3>3 DEF TypeOK, Processes, Requests, GensPast, Standing, NotSpawned,
         Running, CoreRuns, MaySpawn, Idle
    <3>9. RetryGetsFresh'
      BY <2>3, <3>3 DEF TypeOK, Processes, Requests, RetryGetsFresh, Standing,
         StartIsCurrent, CoreStands, Starts, NoneWaitsOnTheDead, NotSpawned, Untouched,
         Running, CoreRuns, MaySpawn, Idle
    <3>10. OneStart'
      BY <2>3, <3>3 DEF TypeOK, Processes, OneStart, GensPast, Standing, StartIsCurrent,
         CoreStands, Starts, NotSpawned, Untouched, Running, CoreRuns, MaySpawn, Idle
    <3>11. NoneWaitsOnTheDead'
      BY <2>3, <3>3 DEF TypeOK, Processes, Requests, NoneWaitsOnTheDead, Standing,
         StartsUntold, CoreStands, StartIsCurrent, Starts, RetryGetsFresh, OneStart,
         NotSpawned, Running, CoreRuns, MaySpawn, Idle
    <3>12. FailedExited'
      BY <2>3, <3>3 DEF TypeOK, Processes, Requests, FailedExited, CoreStands, Starts,
         StartsUntold, Standing, NotSpawned, Running, CoreRuns, MaySpawn, Idle
    <3>. QED  BY <3>3, <3>4, <3>5, <3>6, <3>7, <3>8, <3>9, <3>10, <3>11, <3>12 DEF Standing
  <2>. QED  BY <1>1, <2>1, <2>2, <2>3 DEF Call
<1>2. ASSUME NEW c \in Calls, Reply(c)
      PROVE  IInv'
  <2>1. proc' \in [Procs -> Processes]
    BY <1>2 DEF TypeOK, Processes, Requests, Reply, Idle
  <2>2. call' \in [Calls -> Requests]
    BY <1>2 DEF TypeOK, Processes, Requests, Reply, Idle
  <2>3. TypeOK'
    BY <1>2, <2>1, <2>2 DEF TypeOK, Processes, Requests, Reply, Idle
  <2>4. StartsUntold'
    BY <1>2, <2>3 DEF TypeOK, Processes, Standing, StartsUntold, Starts, NotSpawned,
       Untouched, CoreStands, Reply, Idle
  <2>5. StartIsCurrent'
    BY <1>2, <2>3 DEF TypeOK, Processes, Standing, StartIsCurrent, Starts, NotSpawned,
       Reply, Idle
  <2>6. CoreStands'
    BY <1>2, <2>3 DEF TypeOK, Processes, Standing, CoreStands, StartsUntold, Starts,
       NotSpawned, OneStart, Reply, Idle
  <2>7. Untouched'
    BY <1>2, <2>3 DEF TypeOK, Processes, Untouched, Standing, NotSpawned, Reply, Idle
  <2>8. GensPast'
    BY <1>2, <2>3 DEF TypeOK, Processes, Requests, GensPast, Standing, NotSpawned, Reply,
       Idle
  <2>9. RetryGetsFresh'
    BY <1>2, <2>3 DEF TypeOK, Processes, Requests, RetryGetsFresh, Standing, StartIsCurrent,
       CoreStands, Starts, NoneWaitsOnTheDead, NotSpawned, Untouched, Reply, Idle
  <2>10. OneStart'
    BY <1>2, <2>3 DEF TypeOK, Processes, OneStart, GensPast, Standing, StartIsCurrent,
       CoreStands, Starts, NotSpawned, Untouched, Reply, Idle
  <2>11. NoneWaitsOnTheDead'
    BY <1>2, <2>3 DEF TypeOK, Processes, Requests, NoneWaitsOnTheDead, Standing,
       StartsUntold, CoreStands, StartIsCurrent, Starts, RetryGetsFresh, OneStart,
       NotSpawned, Reply, Idle
  <2>12. FailedExited'
    BY <1>2, <2>3 DEF TypeOK, Processes, Requests, FailedExited, CoreStands, Starts,
       StartsUntold, Standing, NotSpawned, Reply, Idle
  <2>. QED  BY <2>3, <2>4, <2>5, <2>6, <2>7, <2>8, <2>9, <2>10, <2>11, <2>12 DEF Standing
<1>3. ASSUME NEW c \in Calls, GivesUp(c)
      PROVE  IInv'
  <2>1. proc' \in [Procs -> Processes]
    BY <1>3 DEF TypeOK, Processes, Requests, GivesUp, Idle
  <2>2. call' \in [Calls -> Requests]
    BY <1>3 DEF TypeOK, Processes, Requests, GivesUp, Idle
  <2>3. TypeOK'
    BY <1>3, <2>1, <2>2 DEF TypeOK, Processes, Requests, GivesUp, Idle
  <2>4. StartsUntold'
    BY <1>3, <2>3 DEF TypeOK, Processes, Standing, StartsUntold, Starts, NotSpawned,
       Untouched, CoreStands, GivesUp, Idle
  <2>5. StartIsCurrent'
    BY <1>3, <2>3 DEF TypeOK, Processes, Standing, StartIsCurrent, Starts, NotSpawned,
       GivesUp, Idle
  <2>6. CoreStands'
    BY <1>3, <2>3 DEF TypeOK, Processes, Standing, CoreStands, StartsUntold, Starts,
       NotSpawned, OneStart, GivesUp, Idle
  <2>7. Untouched'
    BY <1>3, <2>3 DEF TypeOK, Processes, Untouched, Standing, NotSpawned, GivesUp, Idle
  <2>8. GensPast'
    BY <1>3, <2>3 DEF TypeOK, Processes, Requests, GensPast, Standing, NotSpawned, GivesUp,
       Idle
  <2>9. RetryGetsFresh'
    BY <1>3, <2>3 DEF TypeOK, Processes, Requests, RetryGetsFresh, Standing, StartIsCurrent,
       CoreStands, Starts, NoneWaitsOnTheDead, NotSpawned, Untouched, GivesUp, Idle
  <2>10. OneStart'
    BY <1>3, <2>3 DEF TypeOK, Processes, OneStart, GensPast, Standing, StartIsCurrent,
       CoreStands, Starts, NotSpawned, Untouched, GivesUp, Idle
  <2>11. NoneWaitsOnTheDead'
    BY <1>3, <2>3 DEF TypeOK, Processes, Requests, NoneWaitsOnTheDead, Standing,
       StartsUntold, CoreStands, StartIsCurrent, Starts, RetryGetsFresh, OneStart,
       NotSpawned, GivesUp, Idle
  <2>12. FailedExited'
    BY <1>3, <2>3 DEF TypeOK, Processes, Requests, FailedExited, CoreStands, Starts,
       StartsUntold, Standing, NotSpawned, GivesUp, Idle
  <2>. QED  BY <2>3, <2>4, <2>5, <2>6, <2>7, <2>8, <2>9, <2>10, <2>11, <2>12 DEF Standing
<1>4. ASSUME NEW p \in Procs, HandshakeDone(p)
      PROVE  IInv'
  <2>1. CASE Superseded(p)
    <3>0. /\ p \in Procs
          /\ \A q \in Procs : q # p => proc'[q] = proc[q]
          /\ proc'[p] = [os |-> "alive", handshake |-> "done",
                       exited |-> proc[p].exited, disposed |-> TRUE, gen |-> proc[p].gen]
          /\ proc[p].os # "none" /\ proc'[p].os # "none" /\ proc'[p].gen = proc[p].gen
      BY <1>4, <2>1 DEF TypeOK, Processes, CoreStands, Standing, HandshakeDone, StartOver,
         Superseded,
         Dispose, Rejected, Idle
    <3>1. proc' \in [Procs -> Processes]
      BY <1>4, <2>1 DEF TypeOK, Processes, CoreStands, Standing, HandshakeDone, Superseded,
         Dispose
    <3>2. call' \in [Calls -> Requests]
      BY <1>4, <2>1, <3>0 DEF TypeOK, Processes, Requests, HandshakeDone, StartOver,
         Superseded, Dispose, Rejected, Idle
    <3>3. TypeOK'
      BY <1>4, <2>1, <3>0, <3>1, <3>2 DEF TypeOK, Processes, Requests, HandshakeDone,
         StartOver, Superseded, Dispose, Rejected, Idle
    <3>4. StartsUntold'
      BY <1>4, <2>1, <3>0, <3>3 DEF TypeOK, Processes, Standing, StartsUntold, Starts,
         NotSpawned, Untouched, CoreStands, HandshakeDone, StartOver, Superseded, Dispose,
         Rejected, Idle
    <3>5. StartIsCurrent'
      BY <1>4, <2>1, <3>0, <3>3 DEF TypeOK, Processes, Standing, StartIsCurrent, Starts,
         NotSpawned, HandshakeDone, StartOver, Superseded, Dispose, Rejected, Idle
    <3>6. CoreStands'
      BY <1>4, <2>1, <3>0, <3>3 DEF TypeOK, Processes, Standing, CoreStands, StartsUntold,
         Starts, NotSpawned, OneStart, HandshakeDone, StartOver, Superseded, Dispose,
         Rejected, Idle
    <3>7. Untouched'
      BY <1>4, <2>1, <3>0 DEF Untouched, Standing, HandshakeDone, Superseded, Dispose
    <3>8. GensPast'
      BY <1>4, <2>1, <3>0 DEF GensPast, Standing, HandshakeDone, Superseded, Dispose
    <3>9. RetryGetsFresh'
      BY <1>4, <2>1, <3>0, <3>3 DEF TypeOK, Processes, Requests, RetryGetsFresh, Standing,
         StartIsCurrent, CoreStands, Starts, NoneWaitsOnTheDead, NotSpawned, Untouched,
         HandshakeDone, StartOver, Superseded, Dispose, Rejected, Idle
    <3>10. OneStart'
      BY <1>4, <2>1, <3>0, <3>3 DEF TypeOK, Processes, OneStart, GensPast, Standing,
         StartIsCurrent, CoreStands, Starts, NotSpawned, Untouched, HandshakeDone,
         StartOver, Superseded, Dispose, Rejected, Idle
    <3>11. NoneWaitsOnTheDead'
      BY <1>4, <2>1, <3>0, <3>3 DEF TypeOK, Processes, Requests, NoneWaitsOnTheDead,
         Standing, StartsUntold, CoreStands, StartIsCurrent, Starts, RetryGetsFresh,
         OneStart, NotSpawned, HandshakeDone, StartOver, Superseded, Dispose, Rejected, Idle
    <3>12. FailedExited'
      BY <1>4, <2>1, <3>0 DEF TypeOK, Processes, FailedExited, CoreStands, Starts,
         StartsUntold, Standing, HandshakeDone, Superseded, Dispose
    <3>. QED  BY <3>3, <3>4, <3>5, <3>6, <3>7, <3>8, <3>9, <3>10, <3>11, <3>12 DEF Standing
  <2>2. CASE ~Superseded(p)
    <3>0. /\ p \in Procs
          /\ \A q \in Procs : q # p => proc'[q] = proc[q]
          /\ proc'[p] = [proc[p] EXCEPT !.handshake = "done"]
          /\ proc[p].os # "none" /\ proc'[p].os # "none" /\ proc'[p].gen = proc[p].gen
      BY <1>4, <2>2 DEF TypeOK, Processes, CoreStands, Standing, HandshakeDone, StartOver,
         Superseded,
         Dispose, Rejected, Idle
    <3>1. proc' \in [Procs -> Processes]
      BY <1>4, <2>2 DEF TypeOK, Processes, CoreStands, Standing, HandshakeDone, Superseded,
         Dispose
    <3>2. call' \in [Calls -> Requests]
      BY <1>4, <2>2, <3>0 DEF TypeOK, Processes, Requests, HandshakeDone, StartOver,
         Superseded, Dispose, Rejected, Idle
    <3>3. TypeOK'
      BY <1>4, <2>2, <3>0, <3>1, <3>2 DEF TypeOK, Processes, Requests, HandshakeDone,
         StartOver, Superseded, Dispose, Rejected, Idle
    <3>4. StartsUntold'
      BY <1>4, <2>2, <3>0, <3>3 DEF TypeOK, Processes, Standing, StartsUntold, Starts,
         NotSpawned, Untouched, CoreStands, HandshakeDone, StartOver, Superseded, Dispose,
         Rejected, Idle
    <3>5. StartIsCurrent'
      BY <1>4, <2>2, <3>0, <3>3 DEF TypeOK, Processes, Standing, StartIsCurrent, Starts,
         NotSpawned, HandshakeDone, StartOver, Superseded, Dispose, Rejected, Idle
    <3>6. CoreStands'
      BY <1>4, <2>2, <3>0, <3>3 DEF TypeOK, Processes, Standing, CoreStands, StartsUntold,
         Starts, NotSpawned, OneStart, HandshakeDone, StartOver, Superseded, Dispose,
         Rejected, Idle
    <3>7. Untouched'
      BY <1>4, <2>2, <3>0 DEF Untouched, Standing, HandshakeDone, Superseded, Dispose
    <3>8. GensPast'
      BY <1>4, <2>2, <3>0 DEF GensPast, Standing, HandshakeDone, Superseded, Dispose
    <3>9. RetryGetsFresh'
      <4>1. \A c \in Calls : call'[c].on = call[c].on /\ call'[c].since = call[c].since
        BY <1>4, <2>2 DEF TypeOK, Requests, HandshakeDone
      <4>2. \A q \in Procs : proc'[q].gen = proc[q].gen
        BY <3>0
      <4>. QED  BY <4>1, <4>2 DEF RetryGetsFresh, TypeOK, Requests
    <3>10. OneStart'
      BY <1>4, <2>2, <3>0, <3>3 DEF TypeOK, Processes, OneStart, GensPast, Standing,
         StartIsCurrent, CoreStands, Starts, NotSpawned, Untouched, HandshakeDone,
         StartOver, Superseded, Dispose, Rejected, Idle
    <3>11. NoneWaitsOnTheDead'
      BY <1>4, <2>2, <3>0, <3>3 DEF TypeOK, Processes, Requests, NoneWaitsOnTheDead,
         Standing, StartsUntold, CoreStands, StartIsCurrent, Starts, RetryGetsFresh,
         OneStart, NotSpawned, HandshakeDone, StartOver, Superseded, Dispose, Rejected, Idle
    <3>12. FailedExited'
      BY <1>4, <2>2, <3>0 DEF TypeOK, Processes, FailedExited, CoreStands, Starts,
         StartsUntold, Standing, HandshakeDone, Superseded, Dispose
    <3>. QED  BY <3>3, <3>4, <3>5, <3>6, <3>7, <3>8, <3>9, <3>10, <3>11, <3>12 DEF Standing
  <2>. QED  BY <2>1, <2>2
<1>5. ASSUME NEW p \in Procs, StartRefused(p)
      PROVE  IInv'
  <2>0. /\ p \in Procs
        /\ \A q \in Procs : q # p => proc'[q] = proc[q]
        /\ proc'[p] = [proc[p] EXCEPT !.handshake = "failed", !.exited = TRUE]
        /\ proc[p].os # "none" /\ proc'[p].os # "none" /\ proc'[p].gen = proc[p].gen
    BY <1>5 DEF TypeOK, CoreStands, Standing, StartRefused, StartOver, Kill, Rejected, Idle
  <2>1. proc' \in [Procs -> Processes]
    BY <1>5 DEF TypeOK, Processes, CoreStands, Standing, StartRefused, Kill
  <2>2. call' \in [Calls -> Requests]
    BY <1>5, <2>0 DEF TypeOK, Processes, Requests, StartRefused, StartOver, Kill, Rejected,
       Idle
  <2>3. TypeOK'
    BY <1>5, <2>0, <2>1, <2>2 DEF TypeOK, Processes, Requests, StartRefused, StartOver,
       Kill, Rejected, Idle
  <2>4. StartsUntold'
    BY <1>5, <2>0, <2>3 DEF TypeOK, Processes, Standing, StartsUntold, Starts, NotSpawned,
       Untouched, CoreStands, StartRefused, StartOver, Kill, Rejected, Idle
  <2>5. StartIsCurrent'
    BY <1>5, <2>0, <2>3 DEF TypeOK, Processes, Standing, StartIsCurrent, Starts, NotSpawned,
       StartRefused, StartOver, Kill, Rejected, Idle
  <2>6. CoreStands'
    BY <1>5, <2>0, <2>3 DEF TypeOK, Processes, Standing, CoreStands, StartsUntold, Starts,
       NotSpawned, OneStart, StartRefused, StartOver, Kill, Rejected, Idle
  <2>7. Untouched'
    BY <1>5, <2>0 DEF Untouched, Standing, StartRefused, Kill
  <2>8. GensPast'
    BY <1>5, <2>0 DEF GensPast, Standing, StartRefused, Kill
  <2>9. RetryGetsFresh'
    BY <1>5, <2>0, <2>3 DEF TypeOK, Processes, Requests, RetryGetsFresh, Standing,
       StartIsCurrent, CoreStands, Starts, NoneWaitsOnTheDead, NotSpawned, Untouched,
       StartRefused, StartOver, Kill, Rejected, Idle
  <2>10. OneStart'
    BY <1>5, <2>0, <2>3 DEF TypeOK, Processes, OneStart, GensPast, Standing, StartIsCurrent,
       CoreStands, Starts, NotSpawned, Untouched, StartRefused, StartOver, Kill, Rejected,
       Idle
  <2>11. NoneWaitsOnTheDead'
    BY <1>5, <2>0, <2>3 DEF TypeOK, Processes, Requests, NoneWaitsOnTheDead, Standing,
       StartsUntold, CoreStands, StartIsCurrent, Starts, RetryGetsFresh, OneStart,
       NotSpawned, StartRefused, StartOver, Kill, Rejected, Idle
  <2>12. FailedExited'
    BY <1>5, <2>0 DEF TypeOK, Processes, FailedExited, CoreStands, Starts, StartsUntold,
       Standing, StartRefused, Kill
  <2>. QED  BY <2>3, <2>4, <2>5, <2>6, <2>7, <2>8, <2>9, <2>10, <2>11, <2>12 DEF Standing
<1>6. ASSUME NEW p \in Procs, SpawnFails(p)
      PROVE  IInv'
  <2>0. /\ p \in Procs
        /\ \A q \in Procs : q # p => proc'[q] = proc[q]
        /\ proc'[p] = [proc[p] EXCEPT !.os = "dead", !.handshake = "failed", !.exited = TRUE]
        /\ proc[p].os # "none" /\ proc'[p].os # "none" /\ proc'[p].gen = proc[p].gen
    BY <1>6 DEF TypeOK, CoreStands, Standing, SpawnFails, StartOver, Rejected, Idle
  <2>1. proc' \in [Procs -> Processes]
    BY <1>6 DEF TypeOK, Processes, CoreStands, Standing, SpawnFails
  <2>2. call' \in [Calls -> Requests]
    BY <1>6, <2>0 DEF TypeOK, Processes, Requests, SpawnFails, StartOver, Rejected, Idle
  <2>3. TypeOK'
    BY <1>6, <2>0, <2>1, <2>2 DEF TypeOK, Processes, Requests, SpawnFails, StartOver,
       Rejected, Idle
  <2>4. StartsUntold'
    BY <1>6, <2>0, <2>3 DEF TypeOK, Processes, Standing, StartsUntold, Starts, NotSpawned,
       Untouched, CoreStands, SpawnFails, StartOver, Rejected, Idle
  <2>5. StartIsCurrent'
    BY <1>6, <2>0, <2>3 DEF TypeOK, Processes, Standing, StartIsCurrent, Starts, NotSpawned,
       SpawnFails, StartOver, Rejected, Idle
  <2>6. CoreStands'
    BY <1>6, <2>0, <2>3 DEF TypeOK, Processes, Standing, CoreStands, StartsUntold, Starts,
       NotSpawned, OneStart, SpawnFails, StartOver, Rejected, Idle
  <2>7. Untouched'
    BY <1>6, <2>0 DEF Untouched, Standing, SpawnFails
  <2>8. GensPast'
    BY <1>6, <2>0 DEF GensPast, Standing, SpawnFails
  <2>9. RetryGetsFresh'
    BY <1>6, <2>0, <2>3 DEF TypeOK, Processes, Requests, RetryGetsFresh, Standing,
       StartIsCurrent, CoreStands, Starts, NoneWaitsOnTheDead, NotSpawned, Untouched,
       SpawnFails, StartOver, Rejected, Idle
  <2>10. OneStart'
    BY <1>6, <2>0, <2>3 DEF TypeOK, Processes, OneStart, GensPast, Standing, StartIsCurrent,
       CoreStands, Starts, NotSpawned, Untouched, SpawnFails, StartOver, Rejected, Idle
  <2>11. NoneWaitsOnTheDead'
    BY <1>6, <2>0, <2>3 DEF TypeOK, Processes, Requests, NoneWaitsOnTheDead, Standing,
       StartsUntold, CoreStands, StartIsCurrent, Starts, RetryGetsFresh, OneStart,
       NotSpawned, SpawnFails, StartOver, Rejected, Idle
  <2>12. FailedExited'
    BY <1>6, <2>0 DEF TypeOK, Processes, FailedExited, CoreStands, Starts, StartsUntold,
       Standing, SpawnFails
  <2>. QED  BY <2>3, <2>4, <2>5, <2>6, <2>7, <2>8, <2>9, <2>10, <2>11, <2>12 DEF Standing
<1>7. ASSUME NEW p \in Procs, BadFrame(p)
      PROVE  IInv'
  <2>0. /\ p \in Procs
        /\ \A q \in Procs : q # p => proc'[q] = proc[q]
        /\ proc'[p] = [proc[p] EXCEPT !.exited = TRUE]
        /\ proc[p].os # "none" /\ proc'[p].os # "none" /\ proc'[p].gen = proc[p].gen
    BY <1>7 DEF TypeOK, CoreStands, Standing, BadFrame, Running, Kill, Rejected, Idle
  <2>1. proc' \in [Procs -> Processes]
    BY <1>7 DEF TypeOK, Processes, CoreStands, Standing, BadFrame, Running, Kill
  <2>2. call' \in [Calls -> Requests]
    BY <1>7, <2>0 DEF TypeOK, Processes, Requests, BadFrame, Running, Kill, Rejected, Idle
  <2>3. TypeOK'
    BY <1>7, <2>0, <2>1, <2>2 DEF TypeOK, Processes, Requests, BadFrame, Running, Kill,
       Rejected, Idle
  <2>4. StartsUntold'
    BY <1>7, <2>0, <2>3 DEF TypeOK, Processes, Standing, StartsUntold, Starts, NotSpawned,
       Untouched, CoreStands, BadFrame, Running, Kill, Rejected, Idle
  <2>5. StartIsCurrent'
    BY <1>7, <2>0, <2>3 DEF TypeOK, Processes, Standing, StartIsCurrent, Starts, NotSpawned,
       BadFrame, Running, Kill, Rejected, Idle
  <2>6. CoreStands'
    BY <1>7, <2>0, <2>3 DEF TypeOK, Processes, Standing, CoreStands, StartsUntold, Starts,
       NotSpawned, OneStart, BadFrame, Running, Kill, Rejected, Idle
  <2>7. Untouched'
    BY <1>7, <2>0 DEF Untouched, Standing, BadFrame, Running, Kill
  <2>8. GensPast'
    BY <1>7, <2>0 DEF GensPast, Standing, BadFrame, Running, Kill
  <2>9. RetryGetsFresh'
    BY <1>7, <2>0, <2>3 DEF TypeOK, Processes, Requests, RetryGetsFresh, Standing,
       StartIsCurrent, CoreStands, Starts, NoneWaitsOnTheDead, NotSpawned, Untouched,
       BadFrame, Running, Kill, Rejected, Idle
  <2>10. OneStart'
    BY <1>7, <2>0, <2>3 DEF TypeOK, Processes, OneStart, GensPast, Standing, StartIsCurrent,
       CoreStands, Starts, NotSpawned, Untouched, BadFrame, Running, Kill, Rejected, Idle
  <2>11. NoneWaitsOnTheDead'
    BY <1>7, <2>0, <2>3 DEF TypeOK, Processes, Requests, NoneWaitsOnTheDead, Standing,
       StartsUntold, CoreStands, StartIsCurrent, Starts, RetryGetsFresh, OneStart,
       NotSpawned, BadFrame, Running, Kill, Rejected, Idle
  <2>12. FailedExited'
    BY <1>7, <2>0 DEF TypeOK, Processes, FailedExited, CoreStands, Starts, StartsUntold,
       Standing, BadFrame, Running, Kill
  <2>. QED  BY <2>3, <2>4, <2>5, <2>6, <2>7, <2>8, <2>9, <2>10, <2>11, <2>12 DEF Standing
<1>8. ASSUME NEW p \in Procs, Exit(p)
      PROVE  IInv'
  <2>0. /\ p \in Procs
        /\ \A q \in Procs : q # p => proc'[q] = proc[q]
        /\ proc'[p] = [proc[p] EXCEPT !.os = "dead", !.exited = TRUE,
                                 !.handshake = IF proc[p].handshake = "pending"
                                               THEN "failed" ELSE proc[p].handshake]
        /\ proc[p].os # "none" /\ proc'[p].os # "none" /\ proc'[p].gen = proc[p].gen
    BY <1>8 DEF TypeOK, CoreStands, Standing, Exit, StartOver, HandleExit, Superseded,
       Rejected, Idle
  <2>1. proc' \in [Procs -> Processes]
    <3>1. proc'[p] \in Processes
      <4>1. CASE proc[p].handshake = "pending"  BY <2>0, <4>1 DEF TypeOK, Processes
      <4>2. CASE proc[p].handshake # "pending"  BY <2>0, <4>2 DEF TypeOK, Processes
      <4>. QED  BY <4>1, <4>2
    <3>2. \A q \in Procs : proc'[q] \in Processes
      BY <2>0, <3>1 DEF TypeOK
    <3>. QED  BY <1>8, <3>2 DEF TypeOK, Exit
  <2>2. call' \in [Calls -> Requests]
    BY <1>8, <2>0 DEF TypeOK, Processes, Requests, Exit, StartOver, HandleExit, Superseded,
       Rejected, Idle
  <2>3. TypeOK'
    BY <1>8, <2>0, <2>1, <2>2 DEF TypeOK, Processes, Requests, Exit, StartOver, HandleExit,
       Superseded, Rejected, Idle
  <2>4. StartsUntold'
    BY <1>8, <2>0, <2>3 DEF TypeOK, Processes, Standing, StartsUntold, Starts, NotSpawned,
       Untouched, CoreStands, Exit, StartOver, HandleExit, Superseded, Rejected, Idle
  <2>5. StartIsCurrent'
    BY <1>8, <2>0, <2>3 DEF TypeOK, Processes, Standing, StartIsCurrent, Starts, NotSpawned,
       Exit, StartOver, HandleExit, Superseded, Rejected, Idle
  <2>6. CoreStands'
    BY <1>8, <2>0, <2>3 DEF TypeOK, Processes, Standing, CoreStands, StartsUntold, Starts,
       NotSpawned, OneStart, Exit, StartOver, HandleExit, Superseded, Rejected, Idle
  <2>7. Untouched'
    BY <1>8, <2>0 DEF Untouched, Standing, Exit, HandleExit, Superseded
  <2>8. GensPast'
    BY <1>8, <2>0 DEF GensPast, Standing, Exit, HandleExit, Superseded
  <2>9. RetryGetsFresh'
    BY <1>8, <2>0, <2>3 DEF TypeOK, Processes, Requests, RetryGetsFresh, Standing,
       StartIsCurrent, CoreStands, Starts, NoneWaitsOnTheDead, NotSpawned, Untouched, Exit,
       StartOver, HandleExit, Superseded, Rejected, Idle
  <2>10. OneStart'
    BY <1>8, <2>0, <2>3 DEF TypeOK, Processes, OneStart, GensPast, Standing, StartIsCurrent,
       CoreStands, Starts, NotSpawned, Untouched, Exit, StartOver, HandleExit, Superseded,
       Rejected, Idle
  <2>11. NoneWaitsOnTheDead'
    BY <1>8, <2>0, <2>3 DEF TypeOK, Processes, Requests, NoneWaitsOnTheDead, Standing,
       StartsUntold, CoreStands, StartIsCurrent, Starts, RetryGetsFresh, OneStart,
       NotSpawned, Exit, StartOver, HandleExit, Superseded, Rejected, Idle
  <2>12. FailedExited'
    BY <1>8, <2>0 DEF TypeOK, Processes, FailedExited, CoreStands, Starts, StartsUntold,
       Standing, Exit, HandleExit, Superseded
  <2>. QED  BY <2>3, <2>4, <2>5, <2>6, <2>7, <2>8, <2>9, <2>10, <2>11, <2>12 DEF Standing
<1>9. ASSUME NEW p \in Procs, DisposeTimer(p)
      PROVE  IInv'
  <2>0. /\ p \in Procs
        /\ \A q \in Procs : q # p => proc'[q] = proc[q]
        /\ proc'[p] = [proc[p] EXCEPT !.exited = TRUE]
        /\ proc[p].os # "none" /\ proc'[p].os # "none" /\ proc'[p].gen = proc[p].gen
    BY <1>9 DEF TypeOK, CoreStands, Standing, DisposeTimer, Kill
  <2>1. proc' \in [Procs -> Processes]
    BY <1>9 DEF TypeOK, Processes, CoreStands, Standing, DisposeTimer, Kill
  <2>2. call' \in [Calls -> Requests]
    BY <1>9, <2>0 DEF TypeOK, Processes, Requests, DisposeTimer, Kill
  <2>3. TypeOK'
    BY <1>9, <2>0, <2>1, <2>2 DEF TypeOK, Processes, Requests, DisposeTimer, Kill
  <2>4. StartsUntold'
    BY <1>9, <2>0, <2>3 DEF TypeOK, Processes, Standing, StartsUntold, Starts, NotSpawned,
       Untouched, CoreStands, DisposeTimer, Kill
  <2>5. StartIsCurrent'
    BY <1>9, <2>0, <2>3 DEF TypeOK, Processes, Standing, StartIsCurrent, Starts, NotSpawned,
       DisposeTimer, Kill
  <2>6. CoreStands'
    BY <1>9, <2>0, <2>3 DEF TypeOK, Processes, Standing, CoreStands, StartsUntold, Starts,
       NotSpawned, OneStart, DisposeTimer, Kill
  <2>7. Untouched'
    BY <1>9, <2>0 DEF Untouched, Standing, DisposeTimer, Kill
  <2>8. GensPast'
    BY <1>9, <2>0 DEF GensPast, Standing, DisposeTimer, Kill
  <2>9. RetryGetsFresh'
    BY <1>9, <2>0, <2>3 DEF TypeOK, Processes, Requests, RetryGetsFresh, Standing,
       StartIsCurrent, CoreStands, Starts, NoneWaitsOnTheDead, NotSpawned, Untouched,
       DisposeTimer, Kill
  <2>10. OneStart'
    BY <1>9, <2>0, <2>3 DEF TypeOK, Processes, OneStart, GensPast, Standing, StartIsCurrent,
       CoreStands, Starts, NotSpawned, Untouched, DisposeTimer, Kill
  <2>11. NoneWaitsOnTheDead'
    BY <1>9, <2>0, <2>3 DEF TypeOK, Processes, Requests, NoneWaitsOnTheDead, Standing,
       StartsUntold, CoreStands, StartIsCurrent, Starts, RetryGetsFresh, OneStart,
       NotSpawned, DisposeTimer, Kill
  <2>12. FailedExited'
    BY <1>9, <2>0 DEF TypeOK, Processes, FailedExited, CoreStands, Starts, StartsUntold,
       Standing, DisposeTimer, Kill
  <2>. QED  BY <2>3, <2>4, <2>5, <2>6, <2>7, <2>8, <2>9, <2>10, <2>11, <2>12 DEF Standing
<1>10. ASSUME Restart
      PROVE  IInv'
  <2>1. CASE core = None
    <3>1. proc' \in [Procs -> Processes]
      BY <1>10, <2>1 DEF TypeOK, Processes, Requests, Restart, DisposeCurrent, Dispose
    <3>2. call' \in [Calls -> Requests]
      BY <1>10, <2>1 DEF TypeOK, Processes, Requests, Restart, DisposeCurrent, Dispose
    <3>3. TypeOK'
      BY <1>10, <2>1, <3>1, <3>2 DEF TypeOK, Processes, Requests, Restart, DisposeCurrent,
         Dispose
    <3>4. StartsUntold'
      BY <1>10, <2>1, <3>3 DEF TypeOK, Processes, Standing, StartsUntold, Starts,
         NotSpawned, Untouched, CoreStands, Restart, DisposeCurrent, Dispose
    <3>5. StartIsCurrent'
      BY <1>10, <2>1, <3>3 DEF TypeOK, Processes, Standing, StartIsCurrent, Starts,
         NotSpawned, Restart, DisposeCurrent, Dispose
    <3>6. CoreStands'
      BY <1>10, <2>1, <3>3 DEF TypeOK, Processes, Standing, CoreStands, StartsUntold,
         Starts, NotSpawned, OneStart, Restart, DisposeCurrent, Dispose
    <3>7. Untouched'
      BY <1>10, <2>1, <3>3 DEF TypeOK, Processes, Untouched, Standing, NotSpawned, Restart,
         DisposeCurrent, Dispose
    <3>8. GensPast'
      BY <1>10, <2>1, <3>3 DEF TypeOK, Processes, Requests, GensPast, Standing, NotSpawned,
         Restart, DisposeCurrent, Dispose
    <3>9. RetryGetsFresh'
      BY <1>10, <2>1, <3>3 DEF TypeOK, Processes, Requests, RetryGetsFresh, Standing,
         StartIsCurrent, CoreStands, Starts, NoneWaitsOnTheDead, NotSpawned, Untouched,
         Restart, DisposeCurrent, Dispose
    <3>10. OneStart'
      BY <1>10, <2>1, <3>3 DEF TypeOK, Processes, OneStart, GensPast, Standing,
         StartIsCurrent, CoreStands, Starts, NotSpawned, Untouched, Restart, DisposeCurrent,
         Dispose
    <3>11. NoneWaitsOnTheDead'
      BY <1>10, <2>1, <3>3 DEF TypeOK, Processes, Requests, NoneWaitsOnTheDead, Standing,
         StartsUntold, CoreStands, StartIsCurrent, Starts, RetryGetsFresh, OneStart,
         NotSpawned, Restart, DisposeCurrent, Dispose
    <3>12. FailedExited'
      BY <1>10, <2>1, <3>3 DEF TypeOK, Processes, Requests, FailedExited, CoreStands,
         Starts, StartsUntold, Standing, NotSpawned, Restart, DisposeCurrent, Dispose
    <3>. QED  BY <3>3, <3>4, <3>5, <3>6, <3>7, <3>8, <3>9, <3>10, <3>11, <3>12 DEF Standing
  <2>2. CASE core # None
    <3>0. /\ core \in Procs
          /\ \A q \in Procs : q # core => proc'[q] = proc[q]
          /\ proc'[core] = [proc[core] EXCEPT !.disposed = TRUE]
          /\ proc[core].os # "none"
          /\ proc'[core].os # "none" /\ proc'[core].gen = proc[core].gen
      BY <1>10, <2>2 DEF TypeOK, Processes, CoreStands, Standing, Restart, DisposeCurrent,
         Dispose
    <3>1. proc' \in [Procs -> Processes]
      BY <1>10, <2>2 DEF TypeOK, Processes, CoreStands, Standing, Restart, DisposeCurrent,
         Dispose
    <3>2. call' \in [Calls -> Requests]
      BY <1>10, <2>2, <3>0 DEF TypeOK, Processes, Requests, Restart, DisposeCurrent, Dispose
    <3>3. TypeOK'
      BY <1>10, <2>2, <3>0, <3>1, <3>2 DEF TypeOK, Processes, Requests, Restart,
         DisposeCurrent, Dispose
    <3>4. StartsUntold'
      BY <1>10, <2>2, <3>0, <3>3 DEF TypeOK, Processes, Standing, StartsUntold, Starts,
         NotSpawned, Untouched, CoreStands, Restart, DisposeCurrent, Dispose
    <3>5. StartIsCurrent'
      BY <1>10, <2>2, <3>0, <3>3 DEF TypeOK, Processes, Standing, StartIsCurrent, Starts,
         NotSpawned, Restart, DisposeCurrent, Dispose
    <3>6. CoreStands'
      BY <1>10, <2>2, <3>0, <3>3 DEF TypeOK, Processes, Standing, CoreStands, StartsUntold,
         Starts, NotSpawned, OneStart, Restart, DisposeCurrent, Dispose
    <3>7. Untouched'
      BY <1>10, <2>2, <3>0 DEF Untouched, Standing, Restart, DisposeCurrent, Dispose
    <3>8. GensPast'
      BY <3>3, <1>10, <2>2, <3>0 DEF TypeOK, Processes, GensPast, Standing, Restart,
         DisposeCurrent, Dispose
    <3>9. RetryGetsFresh'
      BY <1>10, <2>2, <3>0, <3>3 DEF TypeOK, Processes, Requests, RetryGetsFresh, Standing,
         StartIsCurrent, CoreStands, Starts, NoneWaitsOnTheDead, NotSpawned, Untouched,
         Restart, DisposeCurrent, Dispose
    <3>10. OneStart'
      BY <1>10, <2>2, <3>0, <3>3 DEF TypeOK, Processes, OneStart, GensPast, Standing,
         StartIsCurrent, CoreStands, Starts, NotSpawned, Untouched, Restart, DisposeCurrent,
         Dispose
    <3>11. NoneWaitsOnTheDead'
      BY <1>10, <2>2, <3>0, <3>3 DEF TypeOK, Processes, Requests, NoneWaitsOnTheDead,
         Standing, StartsUntold, CoreStands, StartIsCurrent, Starts, RetryGetsFresh,
         OneStart, NotSpawned, Restart, DisposeCurrent, Dispose
    <3>12. FailedExited'
      BY <3>3, <1>10, <2>2, <3>0 DEF TypeOK, Processes, FailedExited, CoreStands, Starts,
         StartsUntold, Standing, Restart, DisposeCurrent, Dispose
    <3>. QED  BY <3>3, <3>4, <3>5, <3>6, <3>7, <3>8, <3>9, <3>10, <3>11, <3>12 DEF Standing
  <2>. QED  BY <2>1, <2>2
<1>11. ASSUME UNCHANGED vars
       PROVE  IInv'
  BY <1>11 DEF vars, TypeOK, Processes, Requests, Standing, StartsUntold, StartIsCurrent,
     CoreStands,
               Untouched, GensPast, FailedExited, Starts, RetryGetsFresh, OneStart,
               NoneWaitsOnTheDead
<1>. QED  BY <1>1, <1>2, <1>3, <1>4, <1>5, <1>6, <1>7, <1>8, <1>9, <1>10, <1>11 DEF Next

LEMMA StartKeeps == Init => IInv
  BY SessionAssumption DEF Init, IInv, TypeOK, Processes, Requests, Standing, StartsUntold,
     StartIsCurrent, CoreStands,
       Untouched, GensPast, FailedExited, Starts, RetryGetsFresh, OneStart, NoneWaitsOnTheDead, NotSpawned, Idle

(* The invariant of the whole session.                                     *)
THEOREM SessionInvariant == Spec => []IInv
<1>1. Init => IInv  BY StartKeeps
<1>2. IInv /\ [Next]_vars => IInv'  BY StepKeeps
<1>. QED  BY <1>1, <1>2, PTL DEF Spec

(* The start on offer and a running core exclude each other.               *)
LEMMA StaysSpare ==
  ASSUME IInv, NoSpare, [Next]_vars
  PROVE  NoSpare'
<1> USE SessionAssumption DEF IInv
<1>1. ASSUME NEW c \in Calls, Call(c)
      PROVE  NoSpare'
  <2>1. CASE UNCHANGED <<gen, core, starting, proc>>
    BY <2>1 DEF NoSpare, CoreRuns, Running
  <2>2. ASSUME NEW p \in Procs, ~CoreRuns, proc[p] = NotSpawned,
               proc' = [proc EXCEPT ![p].os = "alive", ![p].gen = gen], UNCHANGED core
        PROVE  NoSpare'
    <3>1. core # p  BY <2>2 DEF Standing, CoreStands, NotSpawned
    <3>. QED  BY <2>2, <3>1 DEF NoSpare, CoreRuns, Running, TypeOK
  <2>. QED  BY <1>1, <2>1, <2>2 DEF Call
<1>2. ASSUME NEW p \in Procs, HandshakeDone(p)
      PROVE  NoSpare'
  <2>1. CASE Superseded(p)
    <3>1. core' = core /\ (starting' = starting \/ starting' = None)
      BY <1>2, <2>1 DEF HandshakeDone, StartOver
    <3>2. proc' = [proc EXCEPT ![p] = Dispose([@ EXCEPT !.handshake = "done"])]
      BY <1>2, <2>1 DEF HandshakeDone
    <3>3. \A q \in Procs : Running(q)' => Running(q)
      BY <3>2 DEF Dispose, Running, TypeOK, Processes
    <3>. QED  BY <3>1, <3>3 DEF NoSpare, CoreRuns, TypeOK
  <2>2. CASE ~Superseded(p)
    <3>1. starting = p  BY <1>2, <2>2 DEF HandshakeDone, Superseded, OneStart
    <3>2. starting' = None  BY <1>2, <3>1 DEF HandshakeDone, StartOver
    <3>. QED  BY <3>2 DEF NoSpare
  <2>. QED  BY <2>1, <2>2
<1>3. ASSUME NEW p \in Procs,
             StartRefused(p) \/ SpawnFails(p) \/ BadFrame(p) \/ Exit(p) \/ DisposeTimer(p)
      PROVE  NoSpare'
  <2>1. (core' = core \/ core' = None) /\ (starting' = starting \/ starting' = None)
    BY <1>3 DEF StartRefused, SpawnFails, BadFrame, Exit, DisposeTimer, StartOver, HandleExit
  <2>2. \A q \in Procs : Running(q)' => Running(q)
    <3>1. CASE StartRefused(p)
      BY <3>1 DEF StartRefused, Kill, Running, TypeOK, Processes
    <3>2. CASE SpawnFails(p) \/ Exit(p)
      BY <3>2 DEF SpawnFails, Exit, Running, TypeOK, Processes
    <3>3. CASE BadFrame(p) \/ DisposeTimer(p)
      BY <3>3 DEF BadFrame, DisposeTimer, Kill, Running, TypeOK, Processes
    <3>. QED  BY <1>3, <3>1, <3>2, <3>3
  <2>3. CoreRuns' => CoreRuns
    BY <2>1, <2>2 DEF CoreRuns, Running, TypeOK
  <2>. QED  BY <2>1, <2>3 DEF NoSpare
<1>4. ASSUME NEW c \in Calls, Reply(c) \/ GivesUp(c)
      PROVE  NoSpare'
  BY <1>4 DEF Reply, GivesUp, NoSpare, CoreRuns, Running
<1>5. ASSUME Restart
      PROVE  NoSpare'
  BY <1>5 DEF Restart, NoSpare
<1>6. ASSUME UNCHANGED vars
      PROVE  NoSpare'
  BY <1>6 DEF vars, NoSpare, CoreRuns, Running
<1>. QED  BY <1>1, <1>2, <1>3, <1>4, <1>5, <1>6 DEF Next

(* What the exit of q must be for a serving p to be left behind.           *)
LateExit(p, q) == /\ proc[q].os = "alive" /\ proc'[q].os = "dead"
                  /\ ~proc[q].disposed /\ proc[q].gen = proc[p].gen
                  /\ proc[q].exited \/ Orphan(q)

LEMMA LeftBehind ==
  ASSUME IInv, NoSpare, [Next]_vars, NEW p \in Procs, Orphan(p)', ~Orphan(p)
  PROVE  \E q \in Procs \ {p} : LateExit(p, q)
<1> USE SessionAssumption DEF IInv
<1>k. ASSUME proc'[p] = proc[p]
      PROVE  core = p /\ Serves(p) /\ core' # p /\ CoreRuns /\ proc[p].gen = gen
  <2>1. Serves(p) /\ core = p /\ core' # p
    BY <1>k DEF Orphan, Serves
  <2>. QED  BY <2>1 DEF Serves, CoreRuns, Running, Standing, CoreStands
<1>1. ASSUME NEW c \in Calls, Call(c)
      PROVE  FALSE
  <2>1. CASE UNCHANGED proc
    BY <1>1, <1>k, <2>1 DEF Call
  <2>2. ASSUME NEW q \in Procs, proc[q] = NotSpawned,
               proc' = [proc EXCEPT ![q].os = "alive", ![q].gen = gen]
        PROVE  FALSE
    <3>1. q # p  BY <2>2 DEF TypeOK, Processes, NotSpawned, Orphan, Serves
    <3>. QED  BY <1>1, <1>k, <2>2, <3>1 DEF Call, TypeOK
  <2>. QED  BY <1>1, <2>1, <2>2 DEF Call
<1>2. ASSUME NEW q \in Procs, HandshakeDone(q)
      PROVE  FALSE
  <2>1. CASE Superseded(q)
    <3>1. proc'[q].disposed
      BY <1>2, <2>1 DEF HandshakeDone, Dispose, TypeOK, Processes
    <3>2. q # p  BY <3>1 DEF Orphan, Serves
    <3>. QED  BY <1>2, <1>k, <2>1, <3>2 DEF HandshakeDone, TypeOK
  <2>2. CASE ~Superseded(q)
    <3>1. q # p /\ proc'[p] = proc[p]
      BY <1>2, <2>2 DEF HandshakeDone, Orphan, TypeOK
    <3>2. starting = q  BY <1>2, <2>2 DEF HandshakeDone, Superseded, OneStart
    <3>. QED  BY <1>k, <3>1, <3>2 DEF NoSpare
  <2>. QED  BY <2>1, <2>2
<1>3. ASSUME NEW q \in Procs,
             StartRefused(q) \/ SpawnFails(q) \/ BadFrame(q) \/ DisposeTimer(q)
      PROVE  FALSE
  <2>1. proc'[q].exited /\ core' = core
    <3>1. CASE StartRefused(q)
      BY <3>1 DEF StartRefused, Kill, TypeOK, Processes
    <3>2. CASE SpawnFails(q)
      BY <3>2 DEF SpawnFails, TypeOK, Processes
    <3>3. CASE BadFrame(q) \/ DisposeTimer(q)
      BY <3>3 DEF BadFrame, DisposeTimer, Kill, TypeOK, Processes
    <3>. QED  BY <1>3, <3>1, <3>2, <3>3
  <2>2. q # p  BY <2>1 DEF Orphan, Serves
  <2>3. proc'[p] = proc[p]
    BY <1>3, <2>2 DEF StartRefused, SpawnFails, BadFrame, DisposeTimer, TypeOK
  <2>4. core' # p /\ core = p
    BY <1>k, <2>3
  <2>. QED  BY <2>1, <2>4
<1>4. ASSUME NEW q \in Procs, Exit(q)
      PROVE  \E r \in Procs \ {p} : LateExit(p, r)
  <2>1. proc[q].os = "alive" /\ proc'[q].os = "dead"
    BY <1>4 DEF Exit, TypeOK, Processes
  <2>2. q # p  BY <2>1 DEF Orphan, Serves
  <2>3. core = p /\ Serves(p) /\ core' # p /\ CoreRuns /\ proc[p].gen = gen
    BY <1>4, <1>k, <2>2 DEF Exit, TypeOK
  <2>4. ~proc[q].disposed /\ proc[q].gen = gen
    BY <1>4, <2>3 DEF Exit, HandleExit, Superseded
  <2>5. proc[q].handshake # "pending"
    BY <2>1, <2>3, <2>4 DEF NoSpare, OneStart
  <2>6. proc[q].exited \/ Orphan(q)
    BY <2>1, <2>2, <2>3, <2>4, <2>5 DEF Orphan, Serves, Standing, FailedExited, TypeOK, Processes
  <2>. QED  BY <2>1, <2>2, <2>3, <2>4, <2>6 DEF LateExit
<1>5. ASSUME NEW c \in Calls, Reply(c) \/ GivesUp(c)
      PROVE  FALSE
  BY <1>5, <1>k DEF Reply, GivesUp
<1>6. ASSUME Restart
      PROVE  FALSE
  <2>1. CASE core = p
    BY <1>6, <2>1 DEF Restart, DisposeCurrent, Dispose, Orphan, Serves, TypeOK, Processes
  <2>2. CASE core # p
    BY <1>6, <1>k, <2>2 DEF Restart, DisposeCurrent, TypeOK
  <2>. QED  BY <2>1, <2>2
<1>7. ASSUME UNCHANGED vars
      PROVE  FALSE
  BY <1>7, <1>k DEF vars
<1>. QED  BY <1>1, <1>2, <1>3, <1>4, <1>5, <1>6, <1>7 DEF Next

(* A retry gets a fresh process, whatever was starting when it was pressed. *)
THEOREM Fresh == Spec => []RetryGetsFresh
<1>1. IInv => RetryGetsFresh  BY DEF IInv
<1>. QED  BY <1>1, SessionInvariant, PTL

(* Concurrent callers share one start.                                     *)
THEOREM SharedStart == Spec => []OneStart
<1>1. IInv => OneStart  BY DEF IInv
<1>. QED  BY <1>1, SessionInvariant, PTL

(* No call waits for a start that is over or a process that has gone.      *)
THEOREM NoSilentHang == Spec => []NoneWaitsOnTheDead
<1>1. IInv => NoneWaitsOnTheDead  BY DEF IInv
<1>. QED  BY <1>1, SessionInvariant, PTL

(* A process that serves is left behind only by the late exit of another,  *)
(* killed without being disposed or orphaned before.                       *)
THEOREM OnlyALateExitOrphans == Spec => OrphanedByALateExit
<1> DEFINE Told == \A p \in Procs : Orphan(p)' /\ ~Orphan(p)
                                      => \E q \in Procs \ {p} : LateExit(p, q)
<1>1. Init => NoSpare  BY DEF Init, NoSpare, CoreRuns
<1>2. IInv /\ NoSpare /\ [Next]_vars => NoSpare'
  BY StaysSpare
<1>3. IInv /\ NoSpare /\ [Next]_vars => [Told]_vars
  BY LeftBehind
<1>. QED  BY <1>1, <1>2, <1>3, SessionInvariant, PTL DEF Spec, OrphanedByALateExit, LateExit
=============================================================================
