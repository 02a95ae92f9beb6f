---------------------------- MODULE Serve_proofs ----------------------------
(***************************************************************************)
(* Proofs about Serve, for any number of requests of each plane.           *)
(*                                                                         *)
(* WritesAlone is not inductive: that a writer is alone inside the lock    *)
(* follows from what the lock's two variables say about the goroutines     *)
(* (LockInv).  WellFramed follows from who may hold writeMu and what the   *)
(* last entry of the stream is then (FrameInv).  OneAnswer and NothingLost *)
(* follow from where a goroutine is when its answer is in the stream       *)
(* (AnswerInv).  The types of the rest are FlagsOK.                        *)
(***************************************************************************)
EXTENDS Serve, FiniteSetTheorems, TLAPS

PlaceOK == pc \in [Handlers -> Places]

\* The readers inside are exactly those the lock counts, a waiting or working
\* writer is the one whose turn it is, and nobody is inside with it.
LockInv ==
  /\ PlaceOK
  /\ sharing = {r \in Readers : Inside(r)}
  /\ turn \in Writers \cup {None}
  /\ \A h \in Handlers : pc[h] = "blocked" => h \in Readers
  /\ \A h \in Handlers : pc[h] = "pending" => h \in Writers
  /\ \A w \in Writers : (pc[w] = "pending" \/ Inside(w)) => turn = w
  /\ \A w \in Writers : Inside(w) => sharing = {}

\* Who is between the header and the body of a frame.
Framing(h) == pc[h] \in {"framing", "failFraming"}

\* A mid-frame holder is the owner of the last header; without one the stream
\* holds whole frames.
FrameInv ==
  /\ PlaceOK
  /\ out \in Seq({"header", "body"} \X (Requests \cup {Shutdown, Null}))
  /\ answering \in Controls \cup {Shutdown, Null, None}
  /\ writeMu \in Handlers \cup {Loop, None}
  /\ \A h \in Handlers : Framing(h) => writeMu = h
  /\ writeMu = None => Len(out) % 2 = 0
  /\ writeMu = Loop => Len(out) % 2 = 1 /\ out[Len(out)] = <<"header", answering>>
  /\ writeMu \in Handlers => Len(out) % 2 = 1 /\ out[Len(out)] = <<"header", writeMu>>
  /\ writeMu = Loop => loop = "answering" /\ answering # None
  /\ drain = "waiting" => loop = "stopped"
  /\ WellFramed

\* Planes do not overlap and nobody's name is a handler's.
LEMMA Planes ==
  /\ None \notin Handlers /\ Loop \notin Handlers /\ Loop # None
  /\ Shutdown # None /\ Null # None /\ None \notin Controls
  /\ Readers \subseteq Handlers /\ Writers \subseteq Handlers
  /\ \A h \in Handlers : h \in Readers => h \notin Writers /\ h \notin Lookups
  /\ \A h \in Handlers : h \in Writers => h \notin Lookups
BY ServeAssumption DEF Handlers, Requests

LEMMA LockInit == Init => LockInv
BY Planes DEF Init, LockInv, PlaceOK, Places, Inside

\* The one step that moves many: a release lets the readers in.
LEMMA UnlockKeepsLock ==
  ASSUME LockInv, NEW h \in Handlers, NEW to \in {"returned", "failing"},
         Inside(h), Unlock(h, to)
  PROVE  LockInv'
<1> USE Planes DEF LockInv, PlaceOK, Places, Inside
<1>1. CASE h \in Writers /\ turn' = None
  <2>0. /\ sharing' = {r \in Readers : pc[r] = "blocked"}
        /\ pc' = [r \in Handlers |-> IF r = h THEN to
                                     ELSE IF pc[r] = "blocked" THEN "running" ELSE pc[r]]
    BY <1>1 DEF Unlock
  <2>1. sharing = {} /\ turn = h
    BY <1>1
  <2>2. \A w \in Writers : ~Inside(w)' /\ pc'[w] # "pending"
    BY <1>1, <2>0, <2>1
  <2>3. sharing' = {r \in Readers : Inside(r)'}
    BY <1>1, <2>0, <2>1
  <2> QED BY <1>1, <2>0, <2>2, <2>3
<1>2. CASE h \in Readers /\ sharing' = sharing \ {h} /\ pc' = [pc EXCEPT ![h] = to]
  BY <1>2 DEF Unlock
<1>3. CASE h \in Lookups /\ pc' = [pc EXCEPT ![h] = to] /\ UNCHANGED fs
  BY <1>3 DEF fs
<1> QED BY <1>1, <1>2, <1>3 DEF Unlock

LEMMA LockStep == LockInv /\ [Next]_vars => LockInv'
<1> SUFFICES ASSUME LockInv, [Next]_vars PROVE LockInv'
  OBVIOUS
<1> USE Planes
<1>0. UNCHANGED <<pc, sharing, turn>> => LockInv'
  BY DEF LockInv, PlaceOK, Inside
<1>1. ASSUME NEW h \in Handlers, Goto(h, "unsent", "spawned"), UNCHANGED fs PROVE LockInv'
  BY <1>1 DEF Goto, fs, LockInv, PlaceOK, Places, Inside
<1>2. CASE LoopStep
  <2>1. CASE \E h \in Handlers : ReadRequest(h)
    BY <1>1, <2>1 DEF ReadRequest
  <2>2. CASE UNCHANGED <<pc, fs>>
    BY <1>0, <2>2 DEF fs
  <2> QED
    BY <1>2, <2>1, <2>2
       DEF LoopStep, ReadControl, ReadShutdown, ReadNotJSON, ReadBroken, ReadEnd,
           LoopHeader, LoopBody, Cancel, Drained, GraceOver
<1>3. ASSUME NEW h \in Handlers, HandlerStep(h) PROVE LockInv'
  <2>1. CASE RLock(h)
    BY <2>1 DEF RLock, Goto, LockInv, PlaceOK, Places, Inside
  <2>2. CASE Announce(h)
    BY <2>2 DEF Announce, Goto, LockInv, PlaceOK, Places, Inside
  <2>3. CASE Locked(h)
    BY <2>3 DEF Locked, ReadersGone, Goto, fs, LockInv, PlaceOK, Places, Inside
  <2>4. CASE Enter(h)
    BY <2>4 DEF Enter, Goto, fs, LockInv, PlaceOK, Places, Inside
  <2>5. CASE Computed(h)
    BY <2>5 DEF Computed, Goto, fs, LockInv, PlaceOK, Places, Inside
  <2>6. CASE Panic(h)
    BY <2>6 DEF Panic, Goto, fs, LockInv, PlaceOK, Places, Inside
  <2>7. CASE Recover(h)
    BY <2>7, UnlockKeepsLock DEF Recover, UnwindLock, Inside
  <2>8. CASE WriteHeader(h)
    BY <2>8 DEF WriteHeader, Goto, fs, LockInv, PlaceOK, Places, Inside
  <2>9. CASE WriteBody(h)
    BY <2>9 DEF WriteBody, Goto, fs, LockInv, PlaceOK, Places, Inside
  <2>10. CASE Return(h)
    BY <2>10, UnlockKeepsLock DEF Return, Inside
  <2> QED
    BY <1>3, <2>1, <2>2, <2>3, <2>4, <2>5, <2>6, <2>7, <2>8, <2>9, <2>10 DEF HandlerStep
<1>4. CASE Exited \/ UNCHANGED vars
  BY <1>0, <1>4 DEF Exited, vars, fs
<1> QED BY <1>2, <1>3, <1>4 DEF Next

LEMMA LockAlone == LockInv => WritesAlone
BY Planes DEF LockInv, WritesAlone, Inside

\* However many requests of each plane there are and however they interleave,
\* panic or are cut short, a handler that writes files shares the file plane
\* with nobody (the comment on server.fs).
THEOREM WritersExclude == Spec => []WritesAlone
<1>1. Spec => []LockInv
  BY LockInit, LockStep, PTL DEF Spec
<1> QED BY <1>1, LockAlone, PTL
-----------------------------------------------------------------------------
Frames == {"header", "body"} \X (Requests \cup {Shutdown, Null})

LEMMA FrameInit == Init => FrameInv
BY Planes DEF Init, FrameInv, PlaceOK, Places, Framing, WellFramed

\* A header put where no frame is open, a body put after its own header.
LEMMA PutHeader ==
  ASSUME out \in Seq(Frames), WellFramed, Len(out) % 2 = 0,
         NEW id \in Requests \cup {Shutdown, Null}, Put("header", id)
  PROVE  /\ out' \in Seq(Frames) /\ WellFramed'
         /\ Len(out') % 2 = 1 /\ out'[Len(out')] = <<"header", id>>
<1>1. out' = Append(out, <<"header", id>>) /\ <<"header", id>> \in Frames
  BY DEF Put, Frames
<1>2. /\ out' \in Seq(Frames) /\ Len(out') = Len(out) + 1
      /\ out'[Len(out) + 1] = <<"header", id>>
      /\ \A i \in 1..Len(out) : out'[i] = out[i]
  BY <1>1
<1>3. WellFramed'
  <2> SUFFICES ASSUME NEW i \in 1..Len(out) + 1
               PROVE  IF i % 2 = 1 THEN out'[i][1] = "header"
                                   ELSE out'[i] = <<"body", out'[i - 1][2]>>
    BY <1>2 DEF WellFramed
  <2>1. CASE i \in 1..Len(out)
    <3>1. i % 2 = 1 \/ (i % 2 = 0 /\ i - 1 \in 1..Len(out))
      OBVIOUS
    <3> QED BY <2>1, <3>1, <1>2 DEF WellFramed
  <2>2. CASE i = Len(out) + 1
    <3>1. i % 2 = 1
      BY <2>2
    <3> QED BY <2>2, <3>1, <1>2
  <2> QED BY <2>1, <2>2
<1> QED BY <1>2, <1>3

LEMMA PutBody ==
  ASSUME out \in Seq(Frames), WellFramed, Len(out) % 2 = 1,
         NEW id \in Requests \cup {Shutdown, Null}, Put("body", id),
         out[Len(out)] = <<"header", id>>
  PROVE  /\ out' \in Seq(Frames) /\ WellFramed' /\ Len(out') % 2 = 0
<1>1. out' = Append(out, <<"body", id>>) /\ <<"body", id>> \in Frames
  BY DEF Put, Frames
<1>2. /\ out' \in Seq(Frames) /\ Len(out') = Len(out) + 1
      /\ out'[Len(out) + 1] = <<"body", id>>
      /\ \A i \in 1..Len(out) : out'[i] = out[i]
  BY <1>1
<1>3. WellFramed'
  <2> SUFFICES ASSUME NEW i \in 1..Len(out) + 1
               PROVE  IF i % 2 = 1 THEN out'[i][1] = "header"
                                   ELSE out'[i] = <<"body", out'[i - 1][2]>>
    BY <1>2 DEF WellFramed
  <2>1. CASE i \in 1..Len(out)
    <3>1. i % 2 = 1 \/ (i % 2 = 0 /\ i - 1 \in 1..Len(out))
      OBVIOUS
    <3> QED BY <2>1, <3>1, <1>2 DEF WellFramed
  <2>2. CASE i = Len(out) + 1
    <3>1. i % 2 = 0
      BY <2>2
    <3> QED BY <2>2, <3>1, <1>2
  <2> QED BY <2>1, <2>2
<1>4. Len(out') % 2 = 0
  <2>1. \A n \in Nat : n % 2 = 1 => (n + 1) % 2 = 0
    OBVIOUS
  <2>2. Len(out) \in Nat
    OBVIOUS
  <2> QED BY <1>2, <2>1, <2>2
<1> QED BY <1>2, <1>3, <1>4

\* Steps that leave the stream and its lock alone, and start or end no frame.
LEMMA StreamAlone ==
  ASSUME FrameInv, PlaceOK', UNCHANGED <<out, writeMu, answering>>,
         \A h \in Handlers : Framing(h)' => Framing(h),
         writeMu = Loop => loop' = "answering",
         drain' = "waiting" => loop' = "stopped"
  PROVE  FrameInv'
BY DEF FrameInv, WellFramed

LEMMA FrameStep == FrameInv /\ [Next]_vars => FrameInv'
<1> SUFFICES ASSUME FrameInv, [Next]_vars PROVE FrameInv'
  OBVIOUS
<1> USE Planes
<1>0. /\ PlaceOK /\ out \in Seq(Frames) /\ WellFramed
      /\ writeMu = Loop => loop = "answering" /\ answering # None
      /\ drain = "waiting" => loop = "stopped"
  BY DEF FrameInv, Frames
<1>1. CASE LoopStep
  <2>1. CASE \E h \in Handlers : ReadRequest(h)
    <3>1. PlaceOK' /\ \A h \in Handlers : Framing(h)' => Framing(h)
      BY <2>1, <1>0 DEF ReadRequest, Goto, PlaceOK, Places, Framing
    <3> QED BY <2>1, <3>1, <1>0, StreamAlone DEF ReadRequest, loopVars
  <2>2. CASE \/ \E c \in Controls : ReadControl(c)
             \/ ReadShutdown \/ ReadNotJSON \/ ReadBroken
    <3>1. /\ writeMu # Loop /\ drain # "waiting"
          /\ answering' \in Controls \cup {Shutdown, Null, None}
          /\ UNCHANGED <<out, writeMu, pc, drain>>
      BY <2>2, <1>0
         DEF ReadControl, ReadShutdown, ReadNotJSON, ReadBroken, AnswerInline, Reading, FrameInv
    <3> QED BY <3>1 DEF FrameInv, PlaceOK, Framing, WellFramed
  <2>3. CASE ReadEnd \/ Cancel \/ Drained \/ GraceOver
    <3>1. PlaceOK' /\ \A h \in Handlers : Framing(h)' => Framing(h)
      BY <2>3, <1>0 DEF ReadEnd, Cancel, Drained, GraceOver, PlaceOK, Framing
    <3>2. writeMu # Loop /\ UNCHANGED <<out, writeMu, answering>>
      BY <2>3, <1>0 DEF ReadEnd, Cancel, Drained, GraceOver, Reading
    <3>3. drain' = "waiting" => loop' = "stopped"
      BY <2>3, <1>0 DEF ReadEnd, Stop, Cancel, Drained, GraceOver, Reading
    <3> QED BY <3>1, <3>2, <3>3, StreamAlone
  <2>4. CASE LoopHeader
    <3>1. writeMu = None /\ answering \in Requests \cup {Shutdown, Null}
      BY <2>4 DEF LoopHeader, MuFree, FrameInv, Requests
    <3>2. Put("header", answering) /\ Len(out) % 2 = 0
      BY <2>4, <3>1 DEF LoopHeader, FrameInv
    <3>3. /\ out' \in Seq(Frames) /\ WellFramed'
          /\ Len(out') % 2 = 1 /\ out'[Len(out')] = <<"header", answering>>
      BY <1>0, <3>1, <3>2, PutHeader
    <3>4. writeMu' = Loop /\ UNCHANGED <<loop, answering, drain, pc>>
      BY <2>4 DEF LoopHeader, loopVars
    <3>5. loop = "answering" /\ answering # None
      BY <2>4 DEF LoopHeader
    <3> QED BY <1>0, <3>1, <3>3, <3>4, <3>5 DEF FrameInv, Frames, PlaceOK, Framing
  <2>5. CASE LoopBody
    <3>1. /\ writeMu = Loop /\ answering \in Requests \cup {Shutdown, Null}
          /\ Len(out) % 2 = 1 /\ out[Len(out)] = <<"header", answering>>
          /\ loop = "answering"
      BY <2>5 DEF LoopBody, FrameInv, Requests
    <3>2. out' \in Seq(Frames) /\ WellFramed' /\ Len(out') % 2 = 0
      BY <1>0, <2>5, <3>1, PutBody DEF LoopBody
    <3>3. writeMu' = None /\ answering' = None /\ UNCHANGED <<drain, pc>>
      BY <2>5 DEF LoopBody
    <3>4. drain # "waiting"
      BY <1>0, <3>1
    <3> QED BY <1>0, <3>1, <3>2, <3>3, <3>4 DEF FrameInv, Frames, PlaceOK, Framing
  <2> QED BY <1>1, <2>1, <2>2, <2>3, <2>4, <2>5 DEF LoopStep
<1>2. ASSUME NEW h \in Handlers, HandlerStep(h) PROVE FrameInv'
  <2>0. UNCHANGED loopVars
    BY <1>2 DEF HandlerStep, RLock, Announce, Locked, Enter, Computed, Panic, Recover,
                WriteHeader, WriteBody, Return, OnlyHandler
  <2>1. CASE RLock(h) \/ Announce(h) \/ Locked(h) \/ Enter(h) \/ Computed(h) \/ Panic(h)
    <3>1. PlaceOK' /\ \A g \in Handlers : Framing(g)' => Framing(g)
      BY <2>1, <1>0 DEF RLock, Announce, Locked, Enter, Computed, Panic, Goto,
                        PlaceOK, Places, Framing
    <3>2. UNCHANGED <<out, writeMu>>
      BY <2>1 DEF RLock, Announce, Locked, Enter, Computed, Panic
    <3> QED BY <1>0, <2>0, <3>1, <3>2, StreamAlone DEF loopVars
  <2>2. CASE Recover(h) \/ Return(h)
    <3>1. \E to \in {"returned", "failing"} : Unlock(h, to)
      BY <2>2 DEF Recover, Return, UnwindLock
    <3>2. PlaceOK' /\ \A g \in Handlers : Framing(g)' => Framing(g)
      BY <3>1, <1>0 DEF Unlock, PlaceOK, Places, Framing
    <3>3. UNCHANGED <<out, writeMu>>
      BY <2>2 DEF Recover, Return
    <3> QED BY <1>0, <2>0, <3>2, <3>3, StreamAlone DEF loopVars
  <2>3. CASE WriteHeader(h)
    <3>1. writeMu = None /\ h \in Requests \cup {Shutdown, Null}
      BY <2>3 DEF WriteHeader, MuFree, Requests
    <3>2. /\ out' \in Seq(Frames) /\ WellFramed'
          /\ Len(out') % 2 = 1 /\ out'[Len(out')] = <<"header", h>>
      BY <1>0, <2>3, <3>1, PutHeader DEF WriteHeader, FrameInv
    <3>3. /\ PlaceOK' /\ writeMu' = h
          /\ \A g \in Handlers : Framing(g)' => g = h \/ Framing(g)
      BY <1>0, <2>3 DEF WriteHeader, Goto, PlaceOK, Places, Framing
    <3>4. \A g \in Handlers : ~Framing(g)
      BY <3>1 DEF FrameInv
    <3> QED BY <1>0, <2>0, <3>2, <3>3, <3>4 DEF FrameInv, Frames, loopVars
  <2>4. CASE WriteBody(h)
    <3>1. Framing(h) /\ h \in Requests \cup {Shutdown, Null}
      BY <2>4 DEF WriteBody, Goto, Framing, Requests
    <3>2. writeMu = h /\ Len(out) % 2 = 1 /\ out[Len(out)] = <<"header", h>>
      BY <3>1 DEF FrameInv
    <3>3. out' \in Seq(Frames) /\ WellFramed' /\ Len(out') % 2 = 0
      BY <1>0, <2>4, <3>1, <3>2, PutBody DEF WriteBody
    <3>4. /\ PlaceOK' /\ writeMu' = None /\ ~Framing(h)'
          /\ \A g \in Handlers : Framing(g)' => Framing(g)
      BY <1>0, <2>4 DEF WriteBody, Goto, PlaceOK, Places, Framing
    <3>5. \A g \in Handlers : ~Framing(g)'
      BY <3>2, <3>4 DEF FrameInv
    <3> QED BY <1>0, <2>0, <3>3, <3>4, <3>5 DEF FrameInv, Frames, loopVars
  <2> QED BY <1>2, <2>1, <2>2, <2>3, <2>4 DEF HandlerStep
<1>3. CASE Exited \/ UNCHANGED vars
  BY <1>3 DEF Exited, vars, loopVars, FrameInv, PlaceOK, Framing, WellFramed
<1> QED BY <1>1, <1>2, <1>3 DEF Next

\* However many handlers answer at once, panic or are cut short, what the client
\* reads is whole frames, the last one at most begun (the comment on writeMu).
THEOREM StreamIsFrames == Spec => []WellFramed
<1>1. Spec => []FrameInv
  BY FrameInit, FrameStep, PTL DEF Spec
<1>2. FrameInv => WellFramed
  BY DEF FrameInv
<1> QED BY <1>1, <1>2, PTL
-----------------------------------------------------------------------------
(* Answers.                                                                *)

Answered(id) == \E i \in 1..Len(out) : out[i] = <<"body", id>>

AtMostOnce(id) ==
  \A i, j \in 1..Len(out) : out[i] = <<"body", id>> /\ out[j] = <<"body", id>> => i = j

\* Where a goroutine is says whether its request has been answered, what the
\* loop is answering says so of the requests it answers itself, and a session
\* that waited for its handlers has none left.
AnswerInv ==
  /\ PlaceOK
  /\ out \in Seq(Frames)
  /\ sent \subseteq Requests \cup {Shutdown}
  /\ answering \in Controls \cup {Shutdown, Null, None}
  /\ loop = "answering" <=> answering # None
  /\ answering \in Controls \cup {Shutdown} => answering \in sent \ Silent
  /\ \A h \in Handlers : h \in sent <=> pc[h] # "unsent"
  /\ \A h \in Handlers :
       pc[h] \in {"replying", "framing", "failing", "failFraming"} => h \notin Silent
  /\ \A h \in Handlers :
       Answered(h) <=> h \notin Silent /\ pc[h] \in {"unlocking", "returned"}
  /\ \A c \in Controls \cup {Shutdown} : Answered(c) <=> c \in sent \ Silent /\ c # answering
  /\ \A r \in Requests \cup {Shutdown} : AtMostOnce(r)
  /\ drain = "waiting" => loop = "stopped"
  /\ drain = "done" => loop = "exited" /\ Inflight = {}

\* A step neither answers a request of S nor answers one again.
AnswersKept(S) ==
  \A r \in S : (Answered(r)' <=> Answered(r)) /\ (AtMostOnce(r) => AtMostOnce(r)')

LEMMA AnswerInit == Init => AnswerInv
BY Planes, ServeAssumption
   DEF Init, AnswerInv, PlaceOK, Places, Frames, Answered, AtMostOnce, Requests

\* What one more entry of the stream says about who is answered.
LEMMA HeaderAnswersNobody ==
  ASSUME out \in Seq(Frames), NEW id \in Requests \cup {Shutdown, Null}, Put("header", id)
  PROVE  /\ out' \in Seq(Frames)
         /\ AnswersKept(Requests \cup {Shutdown})
<1>1. out' = Append(out, <<"header", id>>) /\ <<"header", id>> \in Frames
  BY DEF Put, Frames
<1>2. /\ out' \in Seq(Frames) /\ Len(out') = Len(out) + 1 /\ Len(out) \in Nat
      /\ out'[Len(out) + 1] = <<"header", id>>
      /\ \A i \in 1..Len(out) : out'[i] = out[i]
  BY <1>1
<1>3. \A r, i : i \in 1..Len(out') /\ out'[i] = <<"body", r>>
                  <=> i \in 1..Len(out) /\ out[i] = <<"body", r>>
  BY <1>2
<1> QED BY <1>2, <1>3 DEF AnswersKept, Answered, AtMostOnce

LEMMA BodyAnswers ==
  ASSUME out \in Seq(Frames), NEW id \in Requests \cup {Shutdown, Null}, Put("body", id)
  PROVE  /\ out' \in Seq(Frames)
         /\ AnswersKept((Requests \cup {Shutdown}) \ {id})
         /\ Answered(id)' /\ (~Answered(id) => AtMostOnce(id)')
<1>1. out' = Append(out, <<"body", id>>) /\ <<"body", id>> \in Frames
  BY DEF Put, Frames
<1>2. /\ out' \in Seq(Frames) /\ Len(out') = Len(out) + 1 /\ Len(out) \in Nat
      /\ out'[Len(out) + 1] = <<"body", id>>
      /\ \A i \in 1..Len(out) : out'[i] = out[i]
  BY <1>1
<1>3. \A r, i : i \in 1..Len(out') /\ out'[i] = <<"body", r>>
                  <=> \/ i \in 1..Len(out) /\ out[i] = <<"body", r>>
                      \/ i = Len(out) + 1 /\ r = id
  BY <1>2
<1>4. Len(out) + 1 \in 1..Len(out')
  BY <1>2
<1> QED BY <1>2, <1>3, <1>4 DEF AnswersKept, Answered, AtMostOnce

\* A step of a handler that puts no body: nobody's answer is gained or lost.
LEMMA HandlerSilent ==
  ASSUME AnswerInv, Alive, UNCHANGED <<loopVars, sent>>, PlaceOK', out' \in Seq(Frames),
         AnswersKept(Requests \cup {Shutdown}),
         \A g \in Handlers : (pc'[g] = "unsent") <=> (pc[g] = "unsent"),
         \A g \in Handlers : pc'[g] \in {"replying", "framing", "failing", "failFraming"}
                               => g \notin Silent,
         \A g \in Handlers : g \notin Silent =>
           (pc'[g] \in {"unlocking", "returned"} <=> pc[g] \in {"unlocking", "returned"})
  PROVE  AnswerInv'
<1>1. \A g \in Handlers : g \in Requests \cup {Shutdown}
  BY DEF Requests
<1>2. \A c \in Controls : c \in Requests \cup {Shutdown}
  BY DEF Requests
<1>3. drain' # "done" /\ (drain' = "waiting" => loop' = "stopped")
  BY DEF Alive, loopVars, AnswerInv
<1> QED BY <1>1, <1>2, <1>3 DEF AnswersKept, AnswerInv, loopVars

LEMMA OutAlone ==
  ASSUME UNCHANGED out
  PROVE  AnswersKept(Requests \cup {Shutdown})
BY DEF AnswersKept, Answered, AtMostOnce

LEMMA HandlerAnswers ==
  ASSUME AnswerInv, NEW h \in Handlers, HandlerStep(h) PROVE AnswerInv'
<1> USE Planes
<1>1. PlaceOK /\ out \in Seq(Frames) /\ h \in Requests
  BY DEF AnswerInv, Requests
<1>2. Alive /\ UNCHANGED <<loopVars, sent>>
  BY DEF HandlerStep, RLock, Announce, Locked, Enter, Computed, Panic, Recover,
         WriteHeader, WriteBody, Return, OnlyHandler
<1>3. \A g \in Handlers :
        pc[g] \in {"replying", "framing", "failing", "failFraming"} => g \notin Silent
  BY DEF AnswerInv
<1>4. CASE RLock(h) \/ Announce(h) \/ Locked(h) \/ Enter(h) \/ Computed(h) \/ Panic(h)
  <2>1. UNCHANGED out
    BY <1>4 DEF RLock, Announce, Locked, Enter, Computed, Panic
  <2>2. \E to \in {"blocked", "running", "pending", "panicked", "replying", "unlocking"} :
          /\ pc' = [pc EXCEPT ![h] = to]
          /\ pc[h] \in {"spawned", "pending", "running"}
          /\ to = "replying" => h \notin Silent
          /\ to = "unlocking" => h \in Silent
    BY <1>4 DEF RLock, Announce, Locked, Enter, Computed, Panic, Goto
  <2> QED BY <1>1, <1>2, <1>3, <2>1, <2>2, OutAlone, HandlerSilent DEF PlaceOK, Places
<1>5. CASE Recover(h) \/ Return(h)
  <2>1. UNCHANGED out
    BY <1>5 DEF Recover, Return
  <2>2. PICK to \in {"returned", "failing"} :
          /\ Unlock(h, to)
          /\ \/ pc[h] = "panicked" /\ (to = "returned" <=> h \in Silent)
             \/ pc[h] = "unlocking" /\ to = "returned"
    <3>1. CASE Recover(h) /\ h \in Silent
      BY <3>1 DEF Recover, UnwindLock
    <3>2. CASE Recover(h) /\ h \notin Silent
      BY <3>2 DEF Recover, UnwindLock
    <3>3. CASE Return(h)
      BY <3>3 DEF Return
    <3> QED BY <1>5, <3>1, <3>2, <3>3
  <2>3. /\ PlaceOK' /\ pc'[h] = to
        /\ \A g \in Handlers : g # h =>
             pc'[g] = pc[g] \/ (pc[g] = "blocked" /\ pc'[g] = "running")
    <3>1. \/ pc' = [pc EXCEPT ![h] = to]
          \/ pc' = [r \in Handlers |-> IF r = h THEN to
                                      ELSE IF pc[r] = "blocked" THEN "running" ELSE pc[r]]
      BY <2>2 DEF Unlock
    <3>2. CASE pc' = [pc EXCEPT ![h] = to]
      BY <1>1, <2>2, <3>2 DEF PlaceOK, Places
    <3>3. CASE pc' = [r \in Handlers |-> IF r = h THEN to
                                        ELSE IF pc[r] = "blocked" THEN "running" ELSE pc[r]]
      BY <1>1, <2>2, <3>3 DEF PlaceOK, Places
    <3> QED BY <3>1, <3>2, <3>3
  <2> QED BY <1>1, <1>2, <1>3, <2>1, <2>2, <2>3, OutAlone, HandlerSilent
<1>6. CASE WriteHeader(h)
  <2>1. /\ out' \in Seq(Frames)
        /\ AnswersKept(Requests \cup {Shutdown})
    BY <1>1, <1>6, HeaderAnswersNobody DEF WriteHeader
  <2>2. \E to \in {"framing", "failFraming"} :
          /\ pc' = [pc EXCEPT ![h] = to]
          /\ pc[h] \in {"replying", "failing"}
    BY <1>6 DEF WriteHeader, Goto
  <2> QED BY <1>1, <1>2, <1>3, <2>1, <2>2, HandlerSilent DEF PlaceOK, Places
<1>7. CASE WriteBody(h)
  <2>1. /\ out' \in Seq(Frames)
        /\ AnswersKept((Requests \cup {Shutdown}) \ {h})
        /\ Answered(h)' /\ (~Answered(h) => AtMostOnce(h)')
    BY <1>1, <1>7, BodyAnswers DEF WriteBody
  <2>2. PICK to \in {"unlocking", "returned"} :
          /\ pc' = [pc EXCEPT ![h] = to]
          /\ pc[h] \in {"framing", "failFraming"}
    BY <1>7 DEF WriteBody, Goto
  <2>3. ~Answered(h) /\ h \notin Silent
    BY <2>2 DEF AnswerInv
  <2>4. \A c \in Controls \cup {Shutdown} : c # h /\ c \in Requests \cup {Shutdown}
    BY ServeAssumption DEF Requests
  <2>5. \A g \in Handlers : g \in Requests \cup {Shutdown}
    BY DEF Requests
  <2>6. drain' # "done" /\ (drain' = "waiting" => loop' = "stopped")
    BY <1>2 DEF Alive, loopVars, AnswerInv
  <2>7. /\ PlaceOK' /\ pc'[h] \in {"unlocking", "returned"}
        /\ \A g \in Handlers : g # h => pc'[g] = pc[g]
    BY <1>1, <2>2 DEF PlaceOK, Places
  <2>8. \A g \in Handlers : Answered(g)' <=> g \notin Silent /\ pc'[g] \in {"unlocking", "returned"}
    BY <2>1, <2>3, <2>5, <2>7 DEF AnswersKept, AnswerInv
  <2>9. \A r \in Requests \cup {Shutdown} : AtMostOnce(r)'
    BY <2>1, <2>3 DEF AnswersKept, AnswerInv
  <2>10. \A c \in Controls \cup {Shutdown} : Answered(c)' <=> Answered(c)
    BY <2>1, <2>4 DEF AnswersKept
  <2>11. \A g \in Handlers : pc[g] # "unsent" <=> pc'[g] # "unsent"
    BY <2>2, <2>7
  <2> QED BY <1>2, <1>3, <2>1, <2>2, <2>3, <2>6, <2>7, <2>8, <2>9, <2>10, <2>11
          DEF AnswerInv, loopVars
<1> QED BY <1>4, <1>5, <1>6, <1>7 DEF HandlerStep

LEMMA LoopAnswers == AnswerInv /\ LoopStep => AnswerInv'
<1> SUFFICES ASSUME AnswerInv, LoopStep PROVE AnswerInv'
  OBVIOUS
<1> USE Planes DEF AnswersKept
<1>1. /\ PlaceOK /\ out \in Seq(Frames)
      /\ \A h \in Handlers : h \in Requests
      /\ \A c \in Controls : c \in Requests /\ c \notin Handlers /\ c # Shutdown /\ c # Null
      /\ Shutdown \notin Requests /\ Shutdown \notin Silent /\ Shutdown # Null /\ Null \notin Requests
      /\ None \notin Requests /\ Shutdown \notin Handlers
  BY ServeAssumption DEF AnswerInv, Requests
<1>2. CASE \E h \in Handlers : ReadRequest(h)
  <2>1. PICK h \in Handlers : ReadRequest(h)
    BY <1>2
  <2>2. /\ PlaceOK' /\ pc'[h] = "spawned" /\ pc[h] = "unsent"
        /\ \A g \in Handlers : g # h => pc'[g] = pc[g]
    BY <1>1, <2>1 DEF ReadRequest, Goto, PlaceOK, Places
  <2>3. drain' # "done" /\ drain' # "waiting"
    BY <2>1 DEF ReadRequest, Reading, AnswerInv, loopVars
  <2>4. AnswersKept(Requests \cup {Shutdown})
    BY <2>1, OutAlone DEF ReadRequest
  <2>5. sent' = sent \cup {h} /\ UNCHANGED <<loop, answering, out>>
    BY <2>1 DEF ReadRequest, loopVars
  <2> QED BY <1>1, <2>2, <2>3, <2>4, <2>5 DEF AnswerInv
<1>3. CASE (\E c \in Controls : ReadControl(c)) \/ ReadShutdown
  <2>1. PICK c \in Controls \cup {Shutdown} :
          /\ loop = "reading" /\ c \notin sent /\ sent' = sent \cup {c}
          /\ UNCHANGED <<drain, pc, out>>
          /\ \/ c \in Silent /\ UNCHANGED <<loop, answering>>
             \/ c \notin Silent /\ loop' = "answering" /\ answering' = c
    BY <1>1, <1>3 DEF ReadControl, ReadShutdown, AnswerInline, Reading
  <2>2. answering = None /\ c # None /\ c \notin Handlers
    BY <1>1, <2>1 DEF AnswerInv
  <2>3. AnswersKept(Requests \cup {Shutdown})
    BY <2>1, OutAlone
  <2>4. drain # "done" /\ drain # "waiting"
    BY <2>1 DEF AnswerInv
  <2>5. PlaceOK' /\ out' \in Seq(Frames) /\ sent' \subseteq Requests \cup {Shutdown}
    BY <1>1, <2>1 DEF AnswerInv, PlaceOK
  <2>6. \A d \in Controls \cup {Shutdown} :
          Answered(d)' <=> d \in sent' \ Silent /\ d # answering'
    BY <1>1, <2>1, <2>2, <2>3 DEF AnswerInv
  <2> QED BY <1>1, <2>1, <2>2, <2>3, <2>4, <2>5, <2>6 DEF AnswerInv
<1>4. CASE ReadNotJSON \/ ReadBroken
  <2>1. /\ loop = "reading" /\ loop' = "answering" /\ answering' = Null
        /\ UNCHANGED <<drain, pc, out, sent>>
    BY <1>4 DEF ReadNotJSON, ReadBroken, AnswerInline, Reading
  <2>2. answering = None /\ Null # None
    BY <2>1 DEF AnswerInv
  <2>3. AnswersKept(Requests \cup {Shutdown})
    BY <2>1, OutAlone
  <2>4. drain # "done" /\ drain # "waiting"
    BY <2>1 DEF AnswerInv
  <2>5. PlaceOK'
    BY <1>1, <2>1 DEF PlaceOK
  <2> QED BY <1>1, <2>1, <2>2, <2>3, <2>4, <2>5 DEF AnswerInv
<1>5. CASE ReadEnd \/ Cancel \/ Drained \/ GraceOver
  <2>1. /\ loop # "answering" /\ loop' # "answering"
        /\ UNCHANGED <<answering, pc, out, sent>>
    BY <1>5 DEF ReadEnd, Stop, Cancel, Drained, GraceOver, Reading, AnswerInv
  <2>2. /\ drain' = "waiting" => loop' = "stopped"
        /\ drain' = "done" => loop' = "exited" /\ Inflight' = {}
    BY <1>5 DEF ReadEnd, Stop, Cancel, Drained, GraceOver, Reading, AnswerInv, AllReturned, Inflight
  <2>3. AnswersKept(Requests \cup {Shutdown})
    BY <2>1, OutAlone
  <2>4. PlaceOK'
    BY <1>1, <2>1 DEF PlaceOK
  <2> QED BY <1>1, <2>1, <2>2, <2>3, <2>4 DEF AnswerInv
<1>6. CASE LoopHeader
  <2>1. answering \in Requests \cup {Shutdown, Null} /\ Put("header", answering)
    BY <1>6 DEF LoopHeader, AnswerInv, Requests
  <2>2. /\ out' \in Seq(Frames)
        /\ AnswersKept(Requests \cup {Shutdown})
    BY <1>1, <2>1, HeaderAnswersNobody
  <2>3. UNCHANGED <<loop, answering, drain, pc, sent>>
    BY <1>6 DEF LoopHeader, loopVars
  <2>4. PlaceOK'
    BY <1>1, <2>3 DEF PlaceOK
  <2>5. Inflight' = Inflight
    BY <2>3 DEF Inflight
  <2> QED BY <1>1, <2>2, <2>3, <2>4, <2>5 DEF AnswerInv
<1>7. CASE LoopBody
  <2>1. PICK id \in Controls \cup {Shutdown, Null} : answering = id
    BY <1>7 DEF LoopBody, AnswerInv
  <2>2. id \in Requests \cup {Shutdown, Null} /\ id # None /\ Put("body", id)
    BY <1>1, <1>7, <2>1 DEF LoopBody
  <2>3. /\ out' \in Seq(Frames)
        /\ AnswersKept((Requests \cup {Shutdown}) \ {id})
        /\ Answered(id)' /\ (~Answered(id) => AtMostOnce(id)')
    BY <1>1, <2>2, BodyAnswers
  <2>4. /\ loop = "answering" /\ loop' \in {"reading", "stopped"} /\ answering' = None
        /\ UNCHANGED <<drain, pc, sent>>
    BY <1>7 DEF LoopBody, Stop
  <2>5. drain # "done" /\ drain # "waiting"
    BY <2>4 DEF AnswerInv
  <2>6. PlaceOK'
    BY <1>1, <2>4 DEF PlaceOK
  <2>7. id # Null => id \in sent \ Silent /\ ~Answered(id)
    BY <2>1 DEF AnswerInv
  <2>8. \A r \in Requests \cup {Shutdown} : AtMostOnce(r)'
    BY <1>1, <2>3, <2>7 DEF AnswerInv
  <2>9. \A d \in Controls \cup {Shutdown} : Answered(d)' <=> d \in sent' \ Silent /\ d # answering'
    <3> SUFFICES ASSUME NEW d \in Controls \cup {Shutdown}
                 PROVE  Answered(d)' <=> d \in sent \ Silent
      BY <1>1, <2>4
    <3>1. CASE d = id
      BY <1>1, <2>3, <2>7, <3>1
    <3>2. CASE d # id
      <4>1. Answered(d)' <=> Answered(d)
        BY <1>1, <2>3, <3>2
      <4>2. Answered(d) <=> d \in sent \ Silent
        BY <2>1, <3>2 DEF AnswerInv
      <4> QED BY <4>1, <4>2
    <3> QED BY <3>1, <3>2
  <2>10. \A h \in Handlers : Answered(h)' <=> Answered(h)
    BY <1>1, <2>1, <2>3
  <2> QED BY <1>1, <2>3, <2>4, <2>5, <2>6, <2>8, <2>9, <2>10 DEF AnswerInv
<1> QED BY <1>2, <1>3, <1>4, <1>5, <1>6, <1>7 DEF LoopStep

LEMMA AnswerStep == AnswerInv /\ [Next]_vars => AnswerInv'
<1>1. AnswerInv /\ UNCHANGED vars => AnswerInv'
  BY DEF AnswerInv, vars, loopVars, PlaceOK, Inflight, Answered, AtMostOnce
<1> QED BY <1>1, LoopAnswers, HandlerAnswers DEF Next, Exited

\* Answers counts what Answered and AtMostOnce speak of.
LEMMA AnswersCounted ==
  ASSUME out \in Seq(Frames), NEW id, AtMostOnce(id)
  PROVE  Answers(id) = IF Answered(id) THEN 1 ELSE 0
<1> DEFINE bodies == {i \in 1..Len(out) : out[i] = <<"body", id>>}
<1>1. CASE Answered(id)
  <2>1. PICK i \in 1..Len(out) : out[i] = <<"body", id>>
    BY <1>1 DEF Answered
  <2>2. bodies = {i}
    BY <2>1 DEF AtMostOnce
  <2>3. Cardinality({i}) = 1
    BY FS_Singleton
  <2> QED BY <1>1, <2>2, <2>3 DEF Answers
<1>2. CASE ~Answered(id)
  <2>1. bodies = {}
    BY <1>2 DEF Answered
  <2> QED BY <1>2, <2>1, FS_EmptySet DEF Answers
<1> QED BY <1>1, <1>2

\* A body is only ever put for a request that was read and carries an id.
LEMMA AnsweredOnce == AnswerInv => OneAnswer
<1> SUFFICES ASSUME AnswerInv, NEW r \in Requests
             PROVE  Answers(r) <= IF r \in sent \ Silent THEN 1 ELSE 0
  BY DEF OneAnswer
<1>1. Answers(r) = IF Answered(r) THEN 1 ELSE 0
  BY AnswersCounted DEF AnswerInv
<1>2. Answered(r) => r \in sent \ Silent
  <2>1. CASE r \in Handlers
    BY <2>1 DEF AnswerInv
  <2>2. CASE r \in Controls
    BY <2>2 DEF AnswerInv
  <2> QED BY <2>1, <2>2 DEF Requests
<1> QED BY <1>1, <1>2

LEMMA NoneLost == AnswerInv => NothingLost
<1> SUFFICES ASSUME AnswerInv, drain = "done", NEW r \in sent \ Silent
             PROVE  Answers(r) = 1
  BY DEF NothingLost
<1>1. r \in Requests \cup {Shutdown} /\ Answers(r) = IF Answered(r) THEN 1 ELSE 0
  BY AnswersCounted DEF AnswerInv
<1>2. Answered(r)
  <2>1. CASE r \in Handlers
    <3>1. pc[r] = "returned"
      BY <2>1 DEF AnswerInv, Inflight
    <3> QED BY <2>1, <3>1 DEF AnswerInv
  <2>2. CASE r \in Controls \cup {Shutdown}
    <3>1. answering = None /\ r # None
      BY <2>2, Planes DEF AnswerInv
    <3> QED BY <2>2, <3>1 DEF AnswerInv
  <2> QED BY <1>1, <2>1, <2>2 DEF Requests
<1> QED BY <1>1, <1>2

\* No request, of whatever plane, gets a second answer, a panic's included, and
\* one that was not sent or carries no id gets none (handle, recoverRequest).
THEOREM AtMostOneAnswer == Spec => []OneAnswer
<1>1. Spec => []AnswerInv
  BY AnswerInit, AnswerStep, PTL DEF Spec
<1> QED BY <1>1, AnsweredOnce, PTL

\* A session whose handlers all returned within the grace has answered every
\* request it read (the comment on drainGrace).
THEOREM AllAnswered == Spec => []NothingLost
<1>1. Spec => []AnswerInv
  BY AnswerInit, AnswerStep, PTL DEF Spec
<1> QED BY <1>1, NoneLost, PTL
-----------------------------------------------------------------------------
(* Types.                                                                  *)

\* The variables of which the three invariants above say nothing.
FlagsOK ==
  /\ loop \in {"reading", "answering", "stopped", "exited"}
  /\ {final, shutdownRequested, cancelled} \subseteq BOOLEAN
  /\ code \in {None, 0, 1}
  /\ drain \in {"no", "waiting", "done", "timeout"}
  /\ bad \in 0..MaxBad

LEMMA FlagsStep == FlagsOK /\ [Next]_vars => FlagsOK'
<1> SUFFICES ASSUME FlagsOK, [Next]_vars PROVE FlagsOK'
  OBVIOUS
<1>0. UNCHANGED <<loopVars, bad>> => FlagsOK'
  BY DEF FlagsOK, loopVars
<1>1. ASSUME NEW h \in Handlers, ReadRequest(h) \/ HandlerStep(h) PROVE FlagsOK'
  BY <1>0, <1>1
     DEF ReadRequest, HandlerStep, RLock, Announce, Locked, Enter, Computed, Panic, Recover,
         WriteHeader, WriteBody, Return, OnlyHandler
<1>2. CASE (\E c \in Controls : ReadControl(c)) \/ ReadShutdown \/ ReadBroken
  BY <1>2 DEF ReadControl, ReadShutdown, ReadBroken, AnswerInline, FlagsOK
<1>3. CASE ReadNotJSON
  <2>1. MaxBad \in Nat
    BY ServeAssumption
  <2>2. bad' \in 0..MaxBad
    BY <1>3, <2>1 DEF ReadNotJSON, FlagsOK
  <2>3. loop' = "answering" /\ final' = FALSE /\ UNCHANGED <<shutdownRequested, code, cancelled, drain>>
    BY <1>3 DEF ReadNotJSON, AnswerInline
  <2> QED BY <2>2, <2>3 DEF FlagsOK
<1>4. CASE ReadEnd \/ Cancel \/ Drained \/ GraceOver
  BY <1>4 DEF ReadEnd, Stop, ExitCode, Cancel, Drained, GraceOver, FlagsOK
<1>5. CASE LoopBody
  BY <1>5 DEF LoopBody, Stop, FlagsOK
<1>6. CASE LoopHeader \/ Exited \/ UNCHANGED vars
  BY <1>0, <1>6 DEF LoopHeader, Exited, vars, loopVars
<1> QED BY <1>1, <1>2, <1>3, <1>4, <1>5, <1>6 DEF Next, LoopStep

\* Every variable keeps its type, for any number of requests of each plane.
THEOREM TypeCorrect == Spec => []TypeOK
<1>1. Init => FlagsOK
  <2>1. 0 \in 0..MaxBad
    BY ServeAssumption
  <2> QED BY <2>1 DEF Init, FlagsOK
<1>2. LockInv /\ FrameInv /\ AnswerInv /\ FlagsOK => TypeOK
  BY DEF LockInv, FrameInv, AnswerInv, PlaceOK, FlagsOK, TypeOK
<1> QED
  BY <1>1, <1>2, FlagsStep, LockInit, LockStep, FrameInit, FrameStep, AnswerInit, AnswerStep, PTL
     DEF Spec
=============================================================================
