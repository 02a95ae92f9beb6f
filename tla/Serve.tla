------------------------------- MODULE Serve -------------------------------
(***************************************************************************)
(* `composure serve` (cmd/composure/serve.go): the read loop, the handlers *)
(* it starts, the file-plane lock, the one stream they answer on, and the  *)
(* end of a session.                                                       *)
(*                                                                         *)
(* A request is its plane; what a handler computes is left out.  A frame   *)
(* is a header and a body, written one after the other.  The client may    *)
(* send any request at any time, in any order, and close the stream, send  *)
(* a frame the server cannot read, or ask it to stop.                      *)
(***************************************************************************)
EXTENDS Naturals, Sequences, FiniteSets

CONSTANTS Readers,   \* requests of planeRead
          Writers,   \* requests of planeWrite
          Lookups,   \* requests of planeNetwork
          Controls,  \* requests answered on the read loop: initialize, envelope faults
          Silent,    \* those of the above that carry no id: notifications
          Loop, None, Shutdown, Null, \* the read loop; nobody; ids of two more answers
          MaxBad,    \* bound on bodies that are not JSON
          MayPanic   \* requests whose handler may panic

Handlers == Readers \cup Writers \cup Lookups
Requests == Handlers \cup Controls

ASSUME ServeAssumption ==
  /\ Readers \cap Writers = {} /\ Readers \cap Lookups = {} /\ Writers \cap Lookups = {}
  /\ Controls \cap Handlers = {}
  /\ Silent \subseteq Requests /\ MayPanic \subseteq Handlers
  /\ {Loop, None, Shutdown, Null} \cap Requests = {}
  /\ None \notin {Loop, Shutdown, Null} /\ Shutdown # Null
  /\ MaxBad \in Nat

VARIABLES
  loop,       \* the read loop: "reading", "answering", "stopped", then "exited"
  answering,  \* what the loop is answering inline, or None
  final,      \* the loop returns once that answer is written
  shutdownRequested,
  code,       \* loop's return value, None before
  cancelled,  \* the session's context
  drain,      \* "no", "waiting", "done", "timeout"
  pc,         \* [Handlers -> where each goroutine is]
  sharing,    \* fs: the readers inside
  turn,       \* fs: the writer inside or waiting for the readers to leave, or None
  writeMu,    \* who holds writeMu, or None
  out,        \* stdout: a sequence of <<"header" or "body", id>>
  sent,       \* requests the client has sent
  bad         \* bodies that were not JSON, so far

loopVars == <<loop, answering, final, shutdownRequested, code, cancelled, drain>>
fs       == <<sharing, turn>>
vars     == <<loopVars, pc, fs, writeMu, out, sent, bad>>

\* spawned, then waiting for the lock (blocked: a reader; pending: the writer
\* whose turn it is), running, and the two ways to the end: the answer under the
\* lock, or after a panic released it.
Places == {"unsent", "spawned", "blocked", "pending", "running",
           "replying", "framing", "unlocking",
           "panicked", "failing", "failFraming", "returned"}

Init ==
  /\ loop = "reading" /\ answering = None /\ final = FALSE
  /\ shutdownRequested = FALSE /\ code = None /\ cancelled = FALSE /\ drain = "no"
  /\ pc = [h \in Handlers |-> "unsent"]
  /\ sharing = {} /\ turn = None /\ writeMu = None
  /\ out = <<>> /\ sent = {} /\ bad = 0

\* Goroutines the WaitGroup counts.
InflightLate == {h \in Handlers : pc[h] \notin {"unsent", "spawned", "returned"}}
  \* mutant: Add(1) inside the goroutine instead of before it
Inflight == {h \in Handlers : pc[h] \notin {"unsent", "returned"}}
-----------------------------------------------------------------------------
(* The read loop.                                                          *)

Goto(h, from, to) == pc[h] = from /\ pc' = [pc EXCEPT ![h] = to]

Reading == loop = "reading"

Stop(c) == loop' = "stopped" /\ code' = c

\* dispatchRequest starts a goroutine and reads the next frame at once.
ReadRequest(h) ==
  /\ Reading /\ h \notin sent
  /\ sent' = sent \cup {h}
  /\ Goto(h, "unsent", "spawned")
  /\ UNCHANGED <<loopVars, fs, writeMu, out, bad>>

\* An answer the loop writes itself, before it reads on or returns.
AnswerInline(id, stop) ==
  /\ loop' = "answering" /\ answering' = id /\ final' = stop

ReadControl(c) ==
  /\ Reading /\ c \notin sent
  /\ sent' = sent \cup {c}
  /\ IF c \in Silent THEN UNCHANGED <<loop, answering, final>> ELSE AnswerInline(c, FALSE)
  /\ UNCHANGED <<shutdownRequested, code, cancelled, drain, pc, fs, writeMu, out, bad>>

ReadShutdown ==
  /\ Reading /\ Shutdown \notin sent
  /\ sent' = sent \cup {Shutdown}
  /\ shutdownRequested' = TRUE
  /\ AnswerInline(Shutdown, FALSE)
  /\ UNCHANGED <<code, cancelled, drain, pc, fs, writeMu, out, bad>>

\* A frame whose body is not JSON: answered with a null id, and the loop goes on.
ReadNotJSON ==
  /\ Reading /\ bad < MaxBad
  /\ bad' = bad + 1
  /\ AnswerInline(Null, FALSE)
  /\ UNCHANGED <<shutdownRequested, code, cancelled, drain, pc, fs, writeMu, out, sent>>

\* A header that cannot be read: answered with a null id, then the end.
ReadBroken ==
  /\ Reading
  /\ AnswerInline(Null, TRUE)
  /\ UNCHANGED <<shutdownRequested, code, cancelled, drain, pc, fs, writeMu, out, sent, bad>>

ExitCode == IF shutdownRequested THEN 0 ELSE 1

\* `exit`, the stream ending between two frames, or any other error reading it.
ReadEnd ==
  /\ Reading
  /\ Stop(ExitCode) \/ Stop(1)
  /\ UNCHANGED <<answering, final, shutdownRequested, cancelled, drain, pc, fs, writeMu, out, sent, bad>>

\* serve(): cancel the context, then wait for the handlers.
WaitFirst ==   \* mutant: the wait before the cancel
  /\ loop = "stopped" /\ drain = "no"
  /\ drain' = "waiting"
  /\ UNCHANGED <<loop, answering, final, shutdownRequested, code, cancelled, pc, fs, writeMu, out, sent, bad>>
Cancel ==
  /\ loop = "stopped" /\ drain = "no"
  /\ cancelled' = TRUE
  /\ drain' = "waiting"
  /\ UNCHANGED <<loop, answering, final, shutdownRequested, code, pc, fs, writeMu, out, sent, bad>>

AllReturned == Inflight = {}
Drained ==
  /\ drain = "waiting" /\ AllReturned
  /\ drain' = "done" /\ loop' = "exited"
  /\ UNCHANGED <<answering, final, shutdownRequested, code, cancelled, pc, fs, writeMu, out, sent, bad>>

\* drainGrace runs out: the process ends with handlers running.
GraceOver ==
  /\ drain = "waiting" /\ ~AllReturned
  /\ drain' = "timeout" /\ loop' = "exited"
  /\ UNCHANGED <<answering, final, shutdownRequested, code, cancelled, pc, fs, writeMu, out, sent, bad>>
-----------------------------------------------------------------------------
(* The file plane: sync.RWMutex.                                           *)

Alive == loop # "exited"
OnlyHandler(h) == /\ Alive
                  /\ UNCHANGED <<loopVars, sent, bad>>   \* a step of h alone

\* RLock: shared, unless a writer is inside or has announced itself.
RLock(h) ==
  /\ OnlyHandler(h) /\ h \in Readers
  /\ \/ /\ turn = None
        /\ Goto(h, "spawned", "running")
        /\ sharing' = sharing \cup {h}
     \/ /\ turn # None
        /\ Goto(h, "spawned", "blocked")
        /\ UNCHANGED sharing
  /\ UNCHANGED <<turn, writeMu, out>>

\* Lock, first half: one writer at a time gets to announce itself.
Announce(h) ==
  /\ OnlyHandler(h) /\ h \in Writers
  /\ turn = None
  /\ Goto(h, "spawned", "pending")
  /\ turn' = h
  /\ UNCHANGED <<sharing, writeMu, out>>

NoWaitForReaders(h) == TRUE   \* mutant: a mutex the readers do not take
ReadersGone(h) == sharing = {}

\* Lock, second half: the readers inside have left.
Locked(h) ==
  /\ OnlyHandler(h)
  /\ ReadersGone(h)
  /\ Goto(h, "pending", "running")
  /\ UNCHANGED <<fs, writeMu, out>>

\* RUnlock and Unlock; a writer that leaves lets every blocked reader in.
Unlock(h, to) ==
  \/ /\ h \in Writers
     /\ turn' = None
     /\ sharing' = {r \in Readers : pc[r] = "blocked"}
     /\ pc' = [r \in Handlers |-> IF r = h THEN to
                                  ELSE IF pc[r] = "blocked" THEN "running" ELSE pc[r]]
  \/ /\ h \in Readers
     /\ sharing' = sharing \ {h}
     /\ pc' = [pc EXCEPT ![h] = to]
     /\ UNCHANGED turn
  \/ /\ h \in Lookups
     /\ pc' = [pc EXCEPT ![h] = to]
     /\ UNCHANGED fs
-----------------------------------------------------------------------------
(* A handler goroutine.                                                    *)

\* planeNetwork takes no lock.
EnterShared(h) ==   \* mutant: a lookup classified planeRead
  /\ OnlyHandler(h) /\ h \in Lookups
  /\ turn = None
  /\ Goto(h, "spawned", "running")
  /\ sharing' = sharing \cup {h}
  /\ UNCHANGED <<turn, writeMu, out>>
Enter(h) ==
  /\ OnlyHandler(h) /\ h \in Lookups
  /\ Goto(h, "spawned", "running")
  /\ UNCHANGED <<fs, writeMu, out>>

\* handle computed its answer; a notification gets none.
ComputedAlways(h) ==   \* mutant: a notification is answered
  /\ OnlyHandler(h)
  /\ Goto(h, "running", "replying")
  /\ UNCHANGED <<fs, writeMu, out>>
Computed(h) ==
  /\ OnlyHandler(h)
  /\ Goto(h, "running", IF h \in Silent THEN "unlocking" ELSE "replying")
  /\ UNCHANGED <<fs, writeMu, out>>

\* A panic unwinds: the unlock is deferred last and so runs first, then
\* recoverRequest answers, then Done.
UnwindLock(h, to) == Unlock(h, to)

Panic(h) ==
  /\ OnlyHandler(h)
  /\ h \in MayPanic
  /\ Goto(h, "running", "panicked")
  /\ UNCHANGED <<fs, writeMu, out>>

Recover(h) ==
  /\ OnlyHandler(h)
  /\ pc[h] = "panicked"
  /\ UnwindLock(h, IF h \in Silent THEN "returned" ELSE "failing")
  /\ UNCHANGED <<writeMu, out>>

\* The answer is out and handle returns: the deferred unlock, then Done.
Return(h) ==
  /\ OnlyHandler(h)
  /\ pc[h] = "unlocking"
  /\ Unlock(h, "returned")
  /\ UNCHANGED <<writeMu, out>>
-----------------------------------------------------------------------------
(* write: writeMu around the header and the body.                          *)

Put(part, id) == out' = Append(out, <<part, id>>)

AnyTime(w) == TRUE   \* mutant: writeMu is not taken
MuFree(w) == writeMu = None

\* An answer written by handle is followed by the deferred unlock; the one
\* recoverRequest writes comes after it.
WriteHeader(h) ==
  /\ OnlyHandler(h)
  /\ MuFree(h)
  /\ \/ Goto(h, "replying", "framing")
     \/ Goto(h, "failing", "failFraming")
  /\ writeMu' = h
  /\ Put("header", h)
  /\ UNCHANGED fs

WriteBody(h) ==
  /\ OnlyHandler(h)
  /\ \/ Goto(h, "framing", "unlocking")
     \/ Goto(h, "failFraming", "returned")
  /\ writeMu' = None
  /\ Put("body", h)
  /\ UNCHANGED fs

LoopHeader ==
  /\ loop = "answering" /\ answering # None /\ writeMu # Loop
  /\ MuFree(Loop)
  /\ writeMu' = Loop
  /\ Put("header", answering)
  /\ UNCHANGED <<loopVars, pc, fs, sent, bad>>

LoopBody ==
  /\ loop = "answering" /\ writeMu = Loop
  /\ writeMu' = None
  /\ Put("body", answering)
  /\ answering' = None /\ final' = FALSE
  /\ \/ final /\ Stop(1)
     \/ ~final /\ loop' = "reading" /\ UNCHANGED code
  /\ UNCHANGED <<shutdownRequested, cancelled, drain, pc, fs, sent, bad>>
-----------------------------------------------------------------------------
LoopStep == \/ \E h \in Handlers : ReadRequest(h)
            \/ \E c \in Controls : ReadControl(c)
            \/ ReadShutdown \/ ReadNotJSON \/ ReadBroken \/ ReadEnd
            \/ LoopHeader \/ LoopBody
            \/ Cancel \/ Drained \/ GraceOver

HandlerStep(h) == \/ RLock(h) \/ Announce(h) \/ Locked(h) \/ Enter(h)
                  \/ Computed(h) \/ Panic(h) \/ Recover(h)
                  \/ WriteHeader(h) \/ WriteBody(h) \/ Return(h)

Exited == loop = "exited" /\ UNCHANGED vars

Next == LoopStep \/ (\E h \in Handlers : HandlerStep(h)) \/ Exited

Spec == Init /\ [][Next]_vars

\* What the Go runtime gives: a goroutine that can run does, the mutexes hand
\* over, and a computation returns, except that a lookup waits for the network
\* for as long as the network likes, until the session's context is cancelled.
\* Nothing makes the client send, or drainGrace run out.
LiveSpec ==
  /\ Spec
  /\ WF_vars(Cancel) /\ WF_vars(Drained) /\ SF_vars(LoopHeader) /\ WF_vars(LoopBody)
  /\ \A h \in Handlers :
       /\ WF_vars(RLock(h)) /\ SF_vars(Announce(h)) /\ WF_vars(Locked(h)) /\ WF_vars(Enter(h))
       /\ SF_vars(WriteHeader(h)) /\ WF_vars(WriteBody(h))
       /\ WF_vars(Recover(h)) /\ WF_vars(Return(h))
       /\ WF_vars((h \notin Lookups \/ cancelled) /\ (Computed(h) \/ Panic(h)))
-----------------------------------------------------------------------------
TypeOK ==
  /\ loop \in {"reading", "answering", "stopped", "exited"}
  /\ answering \in Controls \cup {Shutdown, Null, None}
  /\ {final, shutdownRequested, cancelled} \subseteq BOOLEAN
  /\ code \in {None, 0, 1}
  /\ drain \in {"no", "waiting", "done", "timeout"}
  /\ pc \in [Handlers -> Places]
  /\ sharing \subseteq Readers /\ turn \in Writers \cup {None}
  /\ writeMu \in Handlers \cup {Loop, None}
  /\ out \in Seq({"header", "body"} \X (Requests \cup {Shutdown, Null}))
  /\ sent \subseteq Requests \cup {Shutdown}
  /\ bad \in 0..MaxBad

\* Handlers between taking the file plane and releasing it.
Inside(h) == pc[h] \in {"running", "replying", "framing", "unlocking", "panicked"}

\* A method that writes files overlaps no other method that touches one, reads
\* included: an overlapping writer's bytes would be computed from a document
\* that no longer exists (the comment on server.fs).
WritesAlone ==
  \A w \in Writers, h \in Readers \cup Writers : w # h => ~(Inside(w) /\ Inside(h))

\* The stream the client reads is whole frames, with at most one begun at the
\* end: no header is followed by somebody else's body (the comment on write).
WellFramed ==
  \A i \in 1..Len(out) :
    IF i % 2 = 1 THEN out[i][1] = "header" ELSE out[i] = <<"body", out[i - 1][2]>>

Answers(id) == Cardinality({i \in 1..Len(out) : out[i] = <<"body", id>>})

\* A request has at most one answer, a panic's included, and one that was never
\* sent or carries no id has none.
OneAnswer == \A r \in Requests : Answers(r) <= IF r \in sent \ Silent THEN 1 ELSE 0

\* A session that ended without running out of grace lost no answer: every
\* request it had read, and `shutdown`, were answered before the process ended
\* (drainGrace: "The wait exists so a response is not lost").
NothingLost ==
  drain = "done" => \A r \in sent \ Silent : Answers(r) = 1

\* Every file or control request is answered, whatever the network does: a
\* lookup that never returns delays nobody, and neither does a handler that
\* panicked holding the lock (the comments on server.fs and dispatch).
LookupsDelayNobody ==
  \A r \in Requests \ (Lookups \cup Silent) :
    r \in sent ~> (Answers(r) = 1 \/ loop = "exited")

\* A session that is over ends without its grace running out, lookups still
\* outstanding included: cancelling makes them return (serve, server.ctx).
EndsByItself == loop = "stopped" ~> loop = "exited"
=============================================================================
