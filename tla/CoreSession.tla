---------------------------- MODULE CoreSession ----------------------------
(***************************************************************************)
(* One core process per window, supervised (extension/host/session.ts),    *)
(* and the client each process is reached through (core.ts): starting one, *)
(* sharing the start, asking it something, giving up on it, replacing it.  *)
(*                                                                         *)
(* Everything runs on the extension host's one thread; an action is one    *)
(* event with the promise callbacks it settles.  A request carries no      *)
(* content here: what the core does with it is Serve's.  A reply nobody    *)
(* waits for any more changes nothing (receive: `settle` finds no entry),  *)
(* nor does a start refused because the binary is not there.               *)
(***************************************************************************)
EXTENDS Naturals, FiniteSets

CONSTANTS Procs,         \* the processes that may be spawned
          Calls,         \* the session.request calls that may be open together
          None,
          MaxRestarts    \* bound

ASSUME SessionAssumption == None \notin Procs /\ MaxRestarts \in Nat

VARIABLES
  gen,        \* CoreSession.generation
  core,       \* CoreSession.core
  starting,   \* CoreSession.starting: the process whose start is shared
  proc,       \* [Procs -> the process and the client that holds it]
  call        \* [Calls -> where a request is, on which process, and the
              \* generation it was made in]

vars == <<gen, core, starting, proc, call>>

NotSpawned == [os |-> "none", handshake |-> "pending", exited |-> FALSE,
               disposed |-> FALSE, gen |-> 0]
Idle == [at |-> "idle", on |-> None, since |-> 0]

Init ==
  /\ gen = 0 /\ core = None /\ starting = None
  /\ proc = [p \in Procs |-> NotSpawned]
  /\ call = [c \in Calls |-> Idle]
-----------------------------------------------------------------------------
(* ComposureCore.                                                          *)

\* `running`: the client's own view, false from the moment it kills.
Running(p) == proc[p].os # "none" /\ ~proc[p].exited
CoreRuns == core # None /\ Running(core)

NoKill(rec) == rec   \* mutant: the stream is refused and the process left alone
Kill(rec) == [rec EXCEPT !.exited = TRUE]

\* dispose: shutdown and exit are sent, unless the process is already ending.
Dispose(rec) == [rec EXCEPT !.disposed = TRUE]

\* rejectAll, and a start that failed: the calls on p get their error.
KeepCalls(p) == call   \* mutant: the exit rejects nobody
Rejected(p) == [c \in Calls |-> IF call[c].on = p THEN Idle ELSE call[c]]

\* The start of p ended: the shared promise is dropped, if it is still this one.
KeepStart(p) == starting   \* mutant: never dropped
StartOver(p) == IF starting = p THEN None ELSE starting
-----------------------------------------------------------------------------
(* CoreSession.                                                            *)

SpawnAlways == TRUE   \* mutant: a start in flight is not shared
MaySpawn == starting = None
NeverSuperseded(p) == FALSE   \* mutant: the generation is not compared
Superseded(p) == proc[p].gen # gen

\* request, to its await: ensure() gives the running core, the start in flight,
\* or a new one.
Call(c) ==
  /\ call[c] = Idle
  /\ \/ /\ CoreRuns
        /\ call' = [call EXCEPT ![c] = [at |-> "sent", on |-> core, since |-> gen]]
        /\ UNCHANGED <<starting, proc>>
     \/ /\ ~CoreRuns /\ starting # None
        /\ call' = [call EXCEPT ![c] = [at |-> "waiting", on |-> starting, since |-> gen]]
        /\ UNCHANGED <<starting, proc>>
     \/ \E p \in Procs :
          /\ ~CoreRuns /\ MaySpawn /\ proc[p] = NotSpawned
          /\ proc' = [proc EXCEPT ![p].os = "alive", ![p].gen = gen]
          /\ starting' = p
          /\ call' = [call EXCEPT ![c] = [at |-> "waiting", on |-> p, since |-> gen]]
  /\ UNCHANGED <<gen, core>>

\* The handshake lands.  A start that belongs to an earlier generation disposes
\* its own process; otherwise the core is installed and the calls that shared
\* the start are sent.
HandshakeDone(p) ==
  /\ proc[p].os = "alive" /\ proc[p].handshake = "pending"
  /\ starting' = StartOver(p)
  /\ \/ /\ Superseded(p)
        /\ proc' = [proc EXCEPT ![p] = Dispose([@ EXCEPT !.handshake = "done"])]
        /\ call' = Rejected(p)
        /\ UNCHANGED core
     \/ /\ ~Superseded(p)
        /\ core' = p
        /\ proc' = [proc EXCEPT ![p].handshake = "done"]
        /\ call' = [c \in Calls |-> IF call[c].on = p THEN [call[c] EXCEPT !.at = "sent"]
                                    ELSE call[c]]
  /\ UNCHANGED gen

\* start rejects: no answer in time, another protocol revision, or a stream
\* that is not frames.  The client kills what it spawned.
StartRefused(p) ==
  /\ proc[p].os = "alive" /\ proc[p].handshake = "pending"
  /\ proc' = [proc EXCEPT ![p] = Kill([@ EXCEPT !.handshake = "failed"])]
  /\ starting' = StartOver(p)
  /\ call' = Rejected(p)
  /\ UNCHANGED <<gen, core>>

\* 'error' instead of a process: there is nothing to exit.
SpawnFails(p) ==
  /\ proc[p].os = "alive" /\ proc[p].handshake = "pending"
  /\ proc' = [proc EXCEPT ![p].os = "dead", ![p].handshake = "failed", ![p].exited = TRUE]
  /\ starting' = StartOver(p)
  /\ call' = Rejected(p)
  /\ UNCHANGED <<gen, core>>

\* A reply, the deadline of the call, or a write the pipe refused.
Reply(c) ==
  /\ call[c].at = "sent" /\ proc[call[c].on].os = "alive"
  /\ call' = [call EXCEPT ![c] = Idle]
  /\ UNCHANGED <<gen, core, starting, proc>>

GivesUp(c) ==
  /\ call[c].at = "sent"
  /\ call' = [call EXCEPT ![c] = Idle]
  /\ UNCHANGED <<gen, core, starting, proc>>

\* receive: the stream position is lost, so every call is rejected and the
\* process killed.  The session is told when the process has gone.
BadFrame(p) ==
  /\ Running(p) /\ proc[p].handshake = "done"
  /\ proc' = [proc EXCEPT ![p] = Kill(@)]
  /\ call' = Rejected(p)
  /\ UNCHANGED <<gen, core, starting>>

\* The 'exit' event, and handleExit unless the core was disposed or the session
\* has moved on: whichever core exited, the current one is dropped.
Leaving(p) == proc[p].os = "alive" /\ proc[p].exited
HandleExit(p) ==
  IF proc[p].disposed \/ Superseded(p) THEN core ELSE None
Exit(p) ==
  /\ proc[p].os = "alive"
  /\ proc' = [proc EXCEPT ![p].os = "dead", ![p].exited = TRUE,
                          ![p].handshake = IF @ = "pending" THEN "failed" ELSE @]
  /\ call' = Rejected(p)
  /\ starting' = StartOver(p)
  /\ core' = HandleExit(p)
  /\ UNCHANGED gen

\* restart, and dispose when the window closes: the same assignments.
LeaveIt == proc   \* mutant: the core is dropped, not disposed
DisposeCurrent == IF core = None THEN proc ELSE [proc EXCEPT ![core] = Dispose(@)]
Restart ==
  /\ gen < MaxRestarts /\ gen' = gen + 1
  /\ proc' = DisposeCurrent
  /\ core' = None /\ starting' = None
  /\ UNCHANGED call

\* A disposed core that has not gone in 500 ms is killed.
DisposeTimer(p) ==
  /\ proc[p].os = "alive" /\ proc[p].disposed /\ ~proc[p].exited
  /\ proc' = [proc EXCEPT ![p] = Kill(@)]
  /\ UNCHANGED <<gen, core, starting, call>>

Next ==
  \/ \E c \in Calls : Call(c) \/ Reply(c) \/ GivesUp(c)
  \/ \E p \in Procs : \/ HandshakeDone(p) \/ StartRefused(p) \/ SpawnFails(p)
                      \/ BadFrame(p) \/ Exit(p) \/ DisposeTimer(p)
  \/ Restart

Spec == Init /\ [][Next]_vars

\* The timers fire: the handshake's, a call's, and the one dispose sets; and a
\* process that is killed is gone, SIGKILL following SIGTERM.
LiveSpec ==
  /\ Spec
  /\ \A p \in Procs : /\ WF_vars(StartRefused(p)) /\ WF_vars(DisposeTimer(p))
                      /\ WF_vars(Leaving(p) /\ Exit(p))
  /\ \A c \in Calls : WF_vars(GivesUp(c))
-----------------------------------------------------------------------------
Processes == [os : {"none", "alive", "dead"}, handshake : {"pending", "done", "failed"},
              exited : BOOLEAN, disposed : BOOLEAN, gen : 0..MaxRestarts]
Requests == [at : {"idle", "waiting", "sent"}, on : Procs \cup {None}, since : 0..MaxRestarts]

TypeOK ==
  /\ gen \in 0..MaxRestarts
  /\ core \in Procs \cup {None} /\ starting \in Procs \cup {None}
  /\ proc \in [Procs -> Processes]
  /\ call \in [Calls -> Requests]
  /\ \A c \in Calls : call[c].at = "idle" <=> call[c].on = None
  /\ starting # None => proc[starting].os = "alive" /\ proc[starting].handshake = "pending"

\* A retry gets a fresh process: a call is only ever put on a core of the
\* generation it was made in, whatever was starting or exiting when restart()
\* ran (restart: "the reader asks for a fresh process and gets the dead one
\* back").
RetryGetsFresh ==
  \A c \in Calls : call[c].on # None => proc[call[c].on].gen = call[c].since

\* Concurrent callers share one start: in one generation at most one process is
\* being started, and it is the one on offer (ensure).
OneStart ==
  \A p \in Procs : /\ proc[p].os = "alive" /\ proc[p].handshake = "pending"
                   /\ proc[p].gen = gen
                   => starting = p

\* Nobody waits on the dead: a call that shares a start has a start to wait for,
\* and a call that was sent has a process that may still answer (the exit
\* handler: "A caller blocked on a dead process is the silent hang this whole
\* design exists to avoid").
NoneWaitsOnTheDead ==
  \A c \in Calls :
    /\ call[c].at = "waiting" => /\ proc[call[c].on].os = "alive"
                                 /\ proc[call[c].on].handshake = "pending"
    /\ call[c].at = "sent" => /\ proc[call[c].on].os = "alive"
                              /\ proc[call[c].on].exited => proc[call[c].on].disposed

\* A process that answered the handshake and that nobody has told to go.
Serves(p) == /\ proc[p].os = "alive" /\ proc[p].handshake = "done"
             /\ ~proc[p].exited /\ ~proc[p].disposed
Orphan(p) == Serves(p) /\ core # p

\* "One core process per window, supervised" (session.ts, first line).  The code
\* does not keep it: handleExit drops the current core whichever core exited.
OneCore == \A p \in Procs : ~Orphan(p)

\* How much of it the code does keep.  A process that serves leaves the
\* session's hands in one way only: another of its generation is reported gone,
\* one the client had killed without disposing it or one orphaned before.  No
\* start, no restart, no broken stream and no exit of the core itself does it.
OrphanedByALateExit ==
  [][\A p \in Procs :
       Orphan(p)' /\ ~Orphan(p)
       => \E q \in Procs \ {p} :
            /\ proc[q].os = "alive" /\ proc'[q].os = "dead"
            /\ ~proc[q].disposed /\ proc[q].gen = proc[p].gen
            /\ proc[q].exited \/ Orphan(q)]_vars

\* A process of an earlier generation does not outlive the window's interest in
\* it, whether it was running, starting or hung when it was replaced; one that a
\* late exit had orphaned is nobody's to replace.
SupersededGoes ==
  \A p \in Procs :
    proc[p].os = "alive" /\ proc[p].gen # gen /\ ~Orphan(p) ~> proc[p].os = "dead"

\* Bounded, never infinite: every call ends.
CallsEnd == \A c \in Calls : call[c].at # "idle" ~> call[c].at = "idle"
=============================================================================
