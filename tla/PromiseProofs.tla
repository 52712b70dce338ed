---------------------------- MODULE PromiseProofs ----------------------------
(***************************************************************************)
(* Theorems about FileWriter: it keeps its promise (OutputPromise) -       *)
(* whatever fails, every write is stored in order or lost, and a flush     *)
(* answers for all of them; the writes pending under a path are those in   *)
(* flight to it; a file whose close has returned is let go; and what an    *)
(* abandoned writer still changes is named by its error.                   *)
(***************************************************************************)
EXTENDS FileWriterProofs

----------------------------------------------------------------------------
(* Where the writes in flight are. *)

Ascending(q) == \A i, j \in DOMAIN q : i < j => q[i] < q[j]

(* What file f may have queued: writes to it, in order, all handed over before
   those that are still in the input queue. *)
QueueOf(f, q) ==
  /\ Ascending(q)
  /\ \A w \in {q[i] : i \in DOMAIN q} :
       w \in DOMAIN dest /\ FileOf(w) = f /\ \A v \in InInput : w < v

InputPlaced ==
  /\ \A i \in DOMAIN input_queue : input_queue[i].write # 0 =>
       /\ input_queue[i].write \in DOMAIN dest
       /\ dest[input_queue[i].write] = input_queue[i].name
  /\ \A i, j \in DOMAIN input_queue :
       i < j /\ input_queue[i].write # 0 /\ input_queue[j].write # 0 =>
         input_queue[i].write < input_queue[j].write

QueuesPlaced == \A f \in Files : QueueOf(f, files[f].queue)

(* The worker's text comes after all that the files have queued until its path is
   resolved, and before what its file has queued once it is being written. *)
MessagePlaced ==
  /\ worker.message # 0 => /\ worker.at \in {"resolve", "write", "flush"}
                           /\ worker.message \in DOMAIN dest
                           /\ \A v \in InInput : worker.message < v
  /\ worker.at = "resolve" =>
       /\ worker.message = worker.command.write
       /\ worker.message # 0 => /\ dest[worker.message] = worker.name
                                /\ \A f \in Files : \A w \in InQueue(f) : w < worker.message
  /\ worker.at \in {"write", "flush"} =>
       /\ FileOf(worker.message) = worker.name
       /\ \A w \in InQueue(worker.name) : worker.message < w

NotStored == InFlight \cap stored = {} /\ stored \subseteq DOMAIN dest

(* Which files have what queued, and what the worker may find one in. *)
StageInv ==
  /\ worker.at \in {"loop", "timer", "ended", "resolve"} => worker.left = {}
  /\ worker.at = "open" => files[worker.name].status \in {"unopened", "waiting", "closed"}
  /\ worker.at \in {"write", "flush", "close"} => files[worker.name].status = "open"
  /\ worker.at = "close" => files[worker.name].queue = <<>>
  /\ worker.command = Retry =>
       \A g \in worker.left :
         \/ files[g].status = "waiting"
         \/ g = worker.name /\ worker.at \in {"open", "write", "flush", "close"}
  /\ ~abandoned =>
       \A g \in Files : files[g].queue # <<>> =>
         \/ files[g].status = "waiting"
         \/ g = worker.name /\ worker.at \in {"open", "write", "flush"}

WhereInv == InputPlaced /\ QueuesPlaced /\ MessagePlaced /\ NotStored /\ StageInv

----------------------------------------------------------------------------
(* What a step of the worker does with one file. *)

(* A loss that is on record stays so. *)
KeepsRecord(fc, c) ==
  /\ fc.abandoned \subseteq c.abandoned
  /\ fc.status \in FAILED => c.status \in FAILED /\ fc.dropped \subseteq c.dropped

(* The worker deals with file f, whose control is fc by now and whose writes of the
   set "lost" are lost in this step. *)
Takes(f, fc, lost) ==
  \E c \in Control :
    /\ files' = [files EXCEPT ![f] = c]
    /\ KeepsRecord(fc, c)
    /\ lost \subseteq c.dropped /\ (lost # {} => c.status \in FAILED)
    /\ \/ /\ worker' = At("open", f, 0)
          /\ c.queue = fc.queue /\ c.status \in {"unopened", "waiting", "closed"}
       \/ /\ fc.queue # <<>> /\ worker' = At("write", f, Head(fc.queue))
          /\ c.queue = Tail(fc.queue) /\ c.status = "open"
       \/ /\ worker' = At("close", f, 0)
          /\ fc.queue = <<>> /\ c.queue = <<>> /\ c.status = "open"
       \/ /\ worker' = Onward(f)
          /\ c.queue = fc.queue /\ (c.queue # <<>> => c.status = "waiting")
       \/ /\ worker' = Onward(f)
          /\ c.queue = <<>>
          /\ \/ Queued(fc) \subseteq c.dropped /\ c.status \in FAILED
             \/ Queued(fc) \subseteq c.abandoned

(* A write is in a file's queue if it is at some place of it. *)
LEMMA QueuedIs ==
  ASSUME NEW c
  PROVE  \A w : w \in Queued(c) <=> \E i \in DOMAIN c.queue : w = c.queue[i]
BY DEF Queued

LEMMA EmptyQueued ==
  ASSUME NEW c, c.queue = <<>>
  PROVE  Queued(c) = {}
BY DEF Queued

(* The kinds of step that Takes covers. *)
LEMMA DrainTakes ==
  ASSUME NEW f \in Files, NEW fc \in Control, fc.status = "open", Drain(f, fc)
  PROVE  Takes(f, fc, {})
<1>1. CASE /\ fc.queue # <<>>
           /\ files' = [files EXCEPT ![f] = [fc EXCEPT !.queue = Tail(@)]]
           /\ worker' = At("write", f, Head(fc.queue))
  <2> DEFINE c == [fc EXCEPT !.queue = Tail(@)]
  <2>1. Tail(fc.queue) \in Seq(Write)
    BY <1>1, HeadTail DEF Control, OutputFileType
  <2>2. c \in Control /\ c.queue = Tail(fc.queue) /\ c.status = "open" /\ KeepsRecord(fc, c)
    BY <2>1 DEF Control, OutputFileType, KeepsRecord, FAILED
  <2> HIDE DEF c
  <2>3. files' = [files EXCEPT ![f] = c]
    BY <1>1 DEF c
  <2>4. QED
    BY <1>1, <2>2, <2>3 DEF Takes
<1>2. CASE /\ fc.queue = <<>>
           /\ files' = [files EXCEPT ![f] = [fc EXCEPT !.close_after_write = FALSE]]
           /\ worker' = IF fc.close_after_write \/ worker.command.cmd \in Closing
                        THEN At("close", f, 0) ELSE Onward(f)
  <2> DEFINE c == [fc EXCEPT !.close_after_write = FALSE]
  <2>1. c \in Control /\ c.queue = fc.queue /\ c.status = "open" /\ KeepsRecord(fc, c)
    BY DEF Control, OutputFileType, KeepsRecord, FAILED
  <2> HIDE DEF c
  <2>2. files' = [files EXCEPT ![f] = c]
    BY <1>2 DEF c
  <2>3. QED
    BY <1>2, <2>1, <2>2 DEF Takes
<1>3. QED
  BY <1>1, <1>2 DEF Drain

LEMMA TryOpenTakes ==
  ASSUME NEW f \in Files, NEW fc \in Control, NEW p, try_open(f, fc, p),
         fc.status \in {"unopened", "waiting", "open", "closed"}
  PROVE  Takes(f, fc, {})
<1>1. CASE fc.status = "open" /\ Drain(f, fc)
  BY <1>1, DrainTakes
<1>2. CASE fc.status # "open" /\ files' = [files EXCEPT ![f] = Started(fc)] /\ worker' = At("open", f, 0)
  <2>1. /\ Started(fc) \in Control /\ Started(fc).queue = fc.queue
        /\ Started(fc).status = fc.status /\ KeepsRecord(fc, Started(fc))
    BY ControlOperators DEF Started, KeepsRecord, Control, OutputFileType
  <2>2. QED
    BY <1>2, <2>1 DEF Takes
<1>3. CASE fc.status # "open" /\ files' = [files EXCEPT ![f] = TimedOut(fc)] /\ worker' = Onward(f)
  <2>1. TimedOut(fc) \in Control
    BY ControlOperators
  <2>2. /\ TimedOut(fc).queue = <<>> /\ TimedOut(fc).status \in FAILED
        /\ Queued(fc) \subseteq TimedOut(fc).dropped /\ KeepsRecord(fc, TimedOut(fc))
    BY DEF TimedOut, fail, discard, Queued, KeepsRecord, FAILED, Control, OutputFileType
  <2>3. QED
    BY <1>3, <2>1, <2>2 DEF Takes
<1>4. QED
  BY <1>1, <1>2, <1>3 DEF try_open

LEMMA ForNewKeeps ==
  ASSUME NEW fc \in Control
  PROVE  /\ ForNew(fc).queue = fc.queue /\ ForNew(fc).status = fc.status
         /\ ForNew(fc).dropped = fc.dropped /\ ForNew(fc).abandoned = fc.abandoned
BY DEF ForNew, Control, OutputFileType

LEMMA CloseTakes ==
  ASSUME NEW f \in Files, NEW fc \in Control, close(f, fc),
         fc.queue # <<>> => fc.status \in {"waiting", "open"}
  PROVE  Takes(f, fc, {})
<1>1. CASE fc.status = "open" /\ Drain(f, fc)
  BY <1>1, DrainTakes
<1>2. CASE /\ fc.status # "open" /\ worker' = Onward(f)
           /\ files' = [files EXCEPT ![f] = ForNew(CloseUnheld(fc))]
  <2> DEFINE u == CloseUnheld(fc)
             c == ForNew(u)
  <2>1. u \in Control /\ c \in Control
    BY ControlOperators
  <2>2. u.queue = (IF fc.status = "waiting" THEN <<>> ELSE fc.queue) /\ KeepsRecord(fc, u)
        /\ (fc.status = "waiting" => Queued(fc) \subseteq u.abandoned)
    BY DEF CloseUnheld, KeepsRecord, Control, OutputFileType, FAILED
  <2>3. c.queue = u.queue /\ c.status = u.status /\ c.dropped = u.dropped /\ c.abandoned = u.abandoned
    BY <2>1, ForNewKeeps
  <2>4. KeepsRecord(fc, c)
    BY <2>2, <2>3 DEF KeepsRecord
  <2> HIDE DEF c, u
  <2>5. files' = [files EXCEPT ![f] = c] /\ worker' = Onward(f)
    BY <1>2 DEF c, u
  <2>6. CASE fc.status = "waiting"
    BY <2>1, <2>2, <2>3, <2>4, <2>5, <2>6 DEF Takes
  <2>7. CASE fc.status # "waiting"
    <3>1. c.queue = fc.queue /\ fc.queue = <<>>
      BY <1>2, <2>2, <2>3, <2>7
    <3>2. QED
      BY <2>1, <2>4, <2>5, <3>1 DEF Takes
  <2>8. QED
    BY <2>6, <2>7
<1>3. QED
  BY <1>1, <1>2 DEF close

LEMMA FailsTakes ==
  ASSUME NEW f \in Files, NEW st \in FAILED, files[f] \in Control,
         worker.message \in {0} \cup Write, FileFails(f, st)
  PROVE  \E fc \in Control :
           /\ Takes(f, fc, {worker.message} \ {0})
           /\ fc.queue = files[f].queue /\ KeepsRecord(files[f], fc)
<1> DEFINE lost == {worker.message} \ {0}
           fc == [files[f] EXCEPT !.dropped = @ \cup lost]
           c == ForNew(fail(fc, st))
<1>1. fc \in Control /\ fc.queue = files[f].queue /\ KeepsRecord(files[f], fc) /\ lost \subseteq fc.dropped
  BY DEF Control, OutputFileType, KeepsRecord
<1>2. fail(fc, st) \in Control /\ c \in Control
  BY <1>1, ControlOperators
<1>3. /\ fail(fc, st).queue = <<>> /\ fail(fc, st).status \in FAILED
      /\ fc.dropped \cup Queued(fc) \subseteq fail(fc, st).dropped
      /\ fail(fc, st).abandoned = fc.abandoned
  BY <1>1 DEF fail, discard, Queued, Control, OutputFileType, FAILED
<1>4. /\ c.queue = <<>> /\ c.status \in FAILED /\ fc.dropped \cup Queued(fc) \subseteq c.dropped
      /\ c.abandoned = fc.abandoned
  BY <1>2, <1>3, ForNewKeeps
<1>5. files' = [files EXCEPT ![f] = c] /\ worker' = Onward(f)
  BY DEF FileFails
<1> HIDE DEF c, fc
<1>6. Takes(f, fc, lost)
  BY <1>1, <1>2, <1>4, <1>5 DEF Takes, KeepsRecord
<1>7. QED
  BY <1>1, <1>6

(* A step of the worker on one file: the writes that were in the file's queue or in
   the worker's hands are queued in fc, lost, or the one that is stored. *)
FileStep(f, fc, lost) ==
  /\ Takes(f, fc, lost)
  /\ UNCHANGED <<input_queue, dest, abandoned, errors, told, answer, caller>>
  /\ QueueOf(f, fc.queue)
  /\ KeepsRecord(files[f], fc)
  /\ \/ worker.at = "visit"
     \/ worker.at = "resolve" /\ worker.left = {} /\ f = Resolve[worker.name]
     \/ worker.at \in {"open", "write", "flush", "close"} /\ worker.name = f
  /\ \/ stored' = stored /\ InQueue(f) \cup ({worker.message} \ {0}) = Queued(fc) \cup lost
     \/ /\ worker.at \in {"write", "flush"} /\ stored' = stored \cup {worker.message}
        /\ Queued(fc) = InQueue(f) /\ lost \subseteq {worker.message}

Typing == worker \in WorkerState /\ worker \in WorkerRecord /\ files \in [Files -> Control]

LEMMA TypingIs ==
  ASSUME TypeOK
  PROVE  Typing
BY DEF TypeOK, Control, WorkerState, Typing

LEMMA SameQueue ==
  ASSUME WhereInv, NEW f \in Files, NEW fc, fc.queue = files[f].queue
  PROVE  QueueOf(f, fc.queue) /\ Queued(fc) = InQueue(f)
BY DEF WhereInv, QueuesPlaced, InQueue, Queued

LEMMA CallSteps ==
  ASSUME TypeOK, WhereInv,
         \/ OpenSucceeds \/ OpenLocked \/ NeverOpens \/ FlushSucceeds
         \/ WriteFails \/ CloseSucceeds \/ CloseFails
  PROVE  \E f \in Files, fc \in Control : \E lost : FileStep(f, fc, lost)
<1> DEFINE f == worker.name
<1>1. Typing
  BY TypingIs
<1>2. worker.at \in {"open", "write", "flush", "close"}
  BY DEF OpenSucceeds, OpenLocked, NeverOpens, FlushSucceeds, WriteFails, CloseSucceeds, CloseFails,
     Ended
<1>3. f \in Files /\ files[f] \in Control /\ worker.message \in {0} \cup Write
      /\ (worker.at \in {"write", "flush"} => worker.message \in Write)
  BY <1>1, <1>2 DEF Typing, WorkerState, WorkerRecord, Stage, IoStage
<1>4. UNCHANGED <<input_queue, dest, abandoned, errors, told, answer, caller>>
  BY DEF OpenSucceeds, OpenLocked, NeverOpens, FlushSucceeds, WriteFails, CloseSucceeds, CloseFails,
     ioRest, callVars
<1>5. QueueOf(f, files[f].queue) /\ Queued(files[f]) = InQueue(f)
  BY <1>3, SameQueue
<1>6. worker.at \in {"open", "close"} => {worker.message} \ {0} = {}
  BY DEF WhereInv, MessagePlaced
<1>7. Write \subseteq Nat \ {0}
  BY DEF Write
<1>8. ASSUME NEW fc \in Control, Takes(f, fc, {}), fc.queue = files[f].queue,
             KeepsRecord(files[f], fc), worker.at \in {"open", "close"}, stored' = stored
      PROVE  FileStep(f, fc, {})
  <2>1. QueueOf(f, fc.queue) /\ Queued(fc) = InQueue(f)
    BY <1>3, <1>8, SameQueue
  <2>2. QED
    BY <1>4, <1>6, <1>8, <2>1 DEF FileStep
<1>9. KeepsRecord(files[f], files[f])
  BY DEF KeepsRecord
<1>10. CASE OpenSucceeds
  <2>1. /\ Opened(files[f]) \in Control /\ Opened(files[f]).status = "open"
        /\ Opened(files[f]).queue = files[f].queue
    <3>1. Opened(files[f]) \in Control
      BY <1>3, ControlOperators
    <3>2. Opened(files[f]).status = "open" /\ Opened(files[f]).queue = files[f].queue
      BY <1>3 DEF Opened, Control, OutputFileType
    <3>3. QED
      BY <3>1, <3>2
  <2>2. files[f].status \notin FAILED
    BY <1>10 DEF OpenSucceeds, Ended, WhereInv, StageInv, FAILED
  <2>3. KeepsRecord(files[f], Opened(files[f]))
    BY <1>3, <2>2 DEF KeepsRecord, Opened, Control, OutputFileType
  <2>4. Takes(f, Opened(files[f]), {})
    BY <1>3, <1>10, <2>1, DrainTakes DEF OpenSucceeds
  <2>5. QED
    BY <1>3, <1>8, <1>10, <2>1, <2>3, <2>4 DEF OpenSucceeds, Ended
<1>11. CASE OpenLocked
  <2> DEFINE c == [files[f] EXCEPT !.status = "waiting"]
  <2>1. files[f].status \notin FAILED
    BY <1>11 DEF OpenLocked, Ended, WhereInv, StageInv, FAILED
  <2>2. c \in Control /\ c.queue = files[f].queue /\ c.status = "waiting" /\ KeepsRecord(files[f], c)
    BY <1>3, <2>1 DEF Control, OutputFileType, Status, KeepsRecord
  <2>3. files' = [files EXCEPT ![f] = c]
    BY <1>11 DEF OpenLocked
  <2> HIDE DEF c
  <2>4. Takes(f, files[f], {})
    BY <1>11, <2>2, <2>3 DEF OpenLocked, Takes
  <2>5. QED
    BY <1>3, <1>8, <1>9, <1>11, <2>4 DEF OpenLocked, Ended
<1>12. CASE NeverOpens \/ CloseFails
  <2>1. PICK st \in FAILED : FileFails(f, st)
    BY <1>12 DEF NeverOpens, CloseFails, FAILED
  <2>2. PICK fc \in Control : /\ Takes(f, fc, {worker.message} \ {0})
                              /\ fc.queue = files[f].queue /\ KeepsRecord(files[f], fc)
    BY <1>3, <2>1, FailsTakes
  <2>3. QED
    BY <1>3, <1>6, <1>8, <1>12, <2>2 DEF NeverOpens, CloseFails, Ended
<1>13. CASE FlushSucceeds
  <2>1. files[f].status = "open" /\ worker.at = "flush"
    BY <1>13 DEF FlushSucceeds, Ended, WhereInv, StageInv
  <2>2. Takes(f, files[f], {})
    BY <1>3, <1>13, <2>1, DrainTakes DEF FlushSucceeds
  <2>3. stored' = stored \cup {worker.message}
    BY <1>13 DEF FlushSucceeds, OnDisk
  <2>4. FileStep(f, files[f], {})
    BY <1>4, <1>5, <1>9, <2>1, <2>2, <2>3 DEF FileStep
  <2>5. QED
    BY <1>3, <2>4
<1>14. CASE WriteFails
  <2> DEFINE lost == {worker.message} \ {0}
  <2>1. FileFails(f, "writefailure") /\ worker.at \in {"write", "flush"}
    BY <1>14 DEF WriteFails, Ended
  <2>2. PICK fc \in Control : /\ Takes(f, fc, lost)
                              /\ fc.queue = files[f].queue /\ KeepsRecord(files[f], fc)
    BY <1>3, <2>1, FailsTakes DEF FAILED
  <2>3. QueueOf(f, fc.queue) /\ Queued(fc) = InQueue(f)
    BY <1>3, <2>2, SameQueue
  <2>4. stored' = stored \/ stored' = stored \cup {worker.message}
    BY <1>14 DEF WriteFails, OnDisk
  <2>5. FileStep(f, fc, lost)
    BY <1>4, <2>1, <2>2, <2>3, <2>4 DEF FileStep
  <2>6. QED
    BY <1>3, <2>2, <2>5
<1>15. CASE CloseSucceeds
  <2> DEFINE u == [files[f] EXCEPT !.status = "closed", !.openmode = "a"]
             c == ForNew(u)
  <2>1. files[f].status = "open" /\ files[f].queue = <<>> /\ worker.at = "close"
    BY <1>15 DEF CloseSucceeds, Ended, WhereInv, StageInv
  <2>2. u \in Control /\ u.queue = <<>> /\ u.abandoned = files[f].abandoned
    BY <1>3, <2>1 DEF Control, OutputFileType, Status
  <2> HIDE DEF u
  <2>3. c \in Control /\ c.queue = <<>> /\ c.abandoned = files[f].abandoned
    BY <2>2, ForNewKeeps, ControlOperators
  <2>4. KeepsRecord(files[f], c)
    BY <2>1, <2>3 DEF KeepsRecord, FAILED
  <2>5. files' = [files EXCEPT ![f] = c] /\ worker' = Onward(f)
    BY <1>15 DEF CloseSucceeds, u
  <2> HIDE DEF c
  <2>6. Takes(f, files[f], {})
    BY <2>1, <2>3, <2>4, <2>5 DEF Takes
  <2>7. QED
    BY <1>3, <1>8, <1>9, <1>15, <2>1, <2>6 DEF CloseSucceeds
<1>16. QED
  BY <1>10, <1>11, <1>12, <1>13, <1>14, <1>15

(* A write that is queued last, after earlier ones only. *)
LEMMA AppendAscends ==
  ASSUME NEW q \in Seq(Write), NEW w \in Write, Ascending(q), \A i \in DOMAIN q : q[i] < w
  PROVE  /\ Append(q, w) \in Seq(Write) /\ Ascending(Append(q, w))
         /\ {Append(q, w)[i] : i \in DOMAIN Append(q, w)} = {q[i] : i \in DOMAIN q} \cup {w}
<1> DEFINE N == Len(q)
           r == Append(q, w)
<1>1. /\ r \in Seq(Write) /\ Len(r) = N + 1
      /\ \A i \in 1 .. N : r[i] = q[i]
      /\ r[N + 1] = w
      /\ DOMAIN q = 1 .. N /\ N \in Nat /\ DOMAIN r = 1 .. N + 1
  BY AppendProperties, LenProperties
<1> HIDE DEF N, r
<1>2. \A i \in DOMAIN r : i = N + 1 \/ i \in DOMAIN q
  BY <1>1
<1>3. Ascending(r)
  <2> SUFFICES ASSUME NEW i \in DOMAIN r, NEW j \in DOMAIN r, i < j PROVE r[i] < r[j]
    BY DEF Ascending
  <2>1. i \in DOMAIN q
    BY <1>1
  <2>2. CASE j = N + 1
    BY <1>1, <2>1, <2>2
  <2>3. CASE j \in DOMAIN q
    BY <1>1, <2>1, <2>3 DEF Ascending
  <2>4. QED
    BY <1>2, <2>2, <2>3
<1>4. \A v : (\E i \in DOMAIN r : v = r[i]) <=> (v = w \/ \E i \in DOMAIN q : v = q[i])
  <2>1. ASSUME NEW i \in DOMAIN r PROVE r[i] = w \/ \E j \in DOMAIN q : r[i] = q[j]
    BY <1>1, <1>2
  <2>2. \A i \in DOMAIN q : i \in DOMAIN r /\ r[i] = q[i]
    BY <1>1
  <2>3. N + 1 \in DOMAIN r /\ r[N + 1] = w
    BY <1>1
  <2>4. QED
    BY <2>1, <2>2, <2>3
<1>5. {r[i] : i \in DOMAIN r} = {q[i] : i \in DOMAIN q} \cup {w}
  BY <1>4
<1>6. QED
  BY <1>1, <1>3, <1>5 DEF r

LEMMA NamedSteps ==
  ASSUME TypeOK, WhereInv, write \/ close_if_open \/ open_as_new \/ status
  PROVE  \E f \in Files, fc \in Control : \E lost : FileStep(f, fc, lost)
<1> DEFINE f == Resolve[worker.name]
           w == worker.command.write
<1>1. Typing /\ Write \subseteq Nat \ {0}
  BY TypingIs DEF Write
<1>2. /\ worker.at = "resolve" /\ worker.left = {} /\ ~abandoned
      /\ worker.message = worker.command.write
      /\ worker.command \in Command /\ worker.name \in Names
  <2>1. worker.at = "resolve" /\ ~abandoned
    BY DEF write, close_if_open, open_as_new, status, Resolved, Ended
  <2>2. worker.command \in Command /\ worker.command.cmd \in Named /\ worker.name = worker.command.name
    BY <1>1, <2>1 DEF Typing, WorkerState, WorkerRecord, Stage
  <2>3. worker.name \in Names
    BY <2>2 DEF Command, Named, Global
  <2>4. QED
    BY <2>1, <2>2, <2>3 DEF WhereInv, StageInv, MessagePlaced
<1>3. f \in Files /\ files[f] \in Control
  BY <1>1, <1>2, FileWriterAssumption DEF Typing
<1>4. UNCHANGED <<input_queue, dest, abandoned, errors, told, answer, caller, stored>>
  BY DEF write, close_if_open, open_as_new, status, ioRest, callVars, fileVars
<1>5. QueueOf(f, files[f].queue) /\ Queued(files[f]) = InQueue(f)
  BY <1>3, SameQueue
<1>6. /\ w \in {0} \cup Write /\ (worker.command.cmd = "write" => w \in Write)
      /\ (worker.command.cmd # "write" => w = 0)
  BY <1>2 DEF Command, Global
<1>7. /\ files[f].queue # <<>> => files[f].status = "waiting"
      /\ FileControl(files[f]) \in Control
      /\ FileControl(files[f]).queue = files[f].queue
      /\ KeepsRecord(files[f], FileControl(files[f])) /\ KeepsRecord(files[f], files[f])
      /\ FileControl(files[f]).status = IF files[f].status = "absent" THEN "unopened" ELSE files[f].status
  <2>1. files[f].queue # <<>> => files[f].status = "waiting"
    BY <1>2, <1>3 DEF WhereInv, StageInv
  <2>2. QED
    BY <1>3, <2>1, ControlOperators DEF FileControl, KeepsRecord, Control, OutputFileType, FAILED
<1>8. worker.command.cmd # "retry" => worker.command # Retry
  BY DEF Retry
<1>9. worker.command.cmd \in Named => Onward(f) = Done
  BY <1>2, <1>8 DEF Onward, Named
<1>10. ASSUME NEW fc \in Control, Takes(f, fc, {}), fc.queue = files[f].queue,
              KeepsRecord(files[f], fc), w = 0
       PROVE  FileStep(f, fc, {})
  <2>1. QueueOf(f, fc.queue) /\ Queued(fc) = InQueue(f)
    BY <1>3, <1>10, SameQueue
  <2>2. QED
    BY <1>2, <1>4, <1>10, <2>1 DEF FileStep
<1>11. ASSUME worker' = Done, files' = files, worker.command.cmd \in Named, w = 0
       PROVE  \E fc \in Control : \E lost : FileStep(f, fc, lost)
  <2>1. files' = [files EXCEPT ![f] = files[f]]
    BY <1>1, <1>3, <1>11 DEF Typing
  <2>2. Takes(f, files[f], {})
    BY <1>3, <1>7, <1>9, <1>11, <2>1 DEF Takes
  <2>3. QED
    BY <1>3, <1>7, <1>10, <1>11, <2>2
<1>12. CASE write /\ FileControl(files[f]).status \in FAILED
  <2> DEFINE c == [files[f] EXCEPT !.dropped = @ \cup {w}]
  <2>1. worker.command.cmd = "write" /\ w \in Write
    BY <1>6, <1>12 DEF write, Resolved
  <2>2. files[f].status \in FAILED /\ files[f].queue = <<>>
    BY <1>3, <1>7, <1>12 DEF FAILED, Control, OutputFileType
  <2>3. c \in Control /\ c.queue = <<>> /\ c.status \in FAILED /\ w \in c.dropped
        /\ KeepsRecord(files[f], c)
    BY <1>3, <2>1, <2>2 DEF Control, OutputFileType, KeepsRecord
  <2>4. files' = [files EXCEPT ![f] = c] /\ worker' = Done
    BY <1>12 DEF write
  <2> HIDE DEF c
  <2>5. Takes(f, files[f], {w})
    BY <1>9, <2>1, <2>2, <2>3, <2>4 DEF Takes, Named
  <2>6. {worker.message} \ {0} = {w}
    BY <1>1, <1>2, <2>1
  <2>7. FileStep(f, files[f], {w})
    BY <1>2, <1>4, <1>5, <1>7, <2>5, <2>6 DEF FileStep
  <2>8. QED
    BY <1>3, <2>7
<1>13. CASE write /\ FileControl(files[f]).status \notin FAILED
  <2> DEFINE fc == FileControl(files[f])
             c == [fc EXCEPT !.queue = Append(@, w)]
  <2>1. w \in Write
    BY <1>6, <1>13 DEF write, Resolved
  <2>2. fc \in Control /\ fc.queue \in Seq(Write)
    BY <1>7 DEF Control, OutputFileType
  <2>3. /\ Append(fc.queue, w) \in Seq(Write) /\ Ascending(Append(fc.queue, w))
        /\ {Append(fc.queue, w)[i] : i \in DOMAIN Append(fc.queue, w)} = InQueue(f) \cup {w}
    <3>1. fc.queue = files[f].queue /\ Ascending(fc.queue)
      BY <1>5, <1>7 DEF QueueOf
    <3>2. \A i \in DOMAIN fc.queue : fc.queue[i] < w
      <4>1. \A v \in InQueue(f) : v < w
        BY <1>1, <1>2, <1>3, <2>1 DEF WhereInv, MessagePlaced
      <4>2. \A i \in DOMAIN fc.queue : fc.queue[i] \in InQueue(f)
        BY <3>1 DEF InQueue, Queued
      <4>3. QED
        BY <4>1, <4>2
    <3> HIDE DEF fc
    <3>3. InQueue(f) = {fc.queue[i] : i \in DOMAIN fc.queue}
      BY <3>1 DEF InQueue, Queued
    <3>4. QED
      BY <2>1, <2>2, <3>1, <3>2, <3>3, AppendAscends
  <2>4. c \in Control /\ c.queue = Append(fc.queue, w) /\ c.status = fc.status
        /\ KeepsRecord(files[f], c)
    BY <1>7, <2>2, <2>3 DEF Control, OutputFileType, KeepsRecord
  <2>5. Takes(f, c, {})
    <3>1. fc.status \in {"unopened", "waiting", "open", "closed"}
      BY <1>3, <1>7, <1>13 DEF Control, OutputFileType, Status, FAILED
    <3>2. \E p : try_open(f, c, p)
      BY <1>13 DEF write
    <3> HIDE DEF c, fc
    <3>3. QED
      BY <1>3, <2>4, <3>1, <3>2, TryOpenTakes
  <2> HIDE DEF c, fc
  <2>6. {c.queue[i] : i \in DOMAIN c.queue} = InQueue(f) \cup {w} /\ Queued(c) = InQueue(f) \cup {w}
    BY <2>3, <2>4 DEF Queued
  <2>7. QueueOf(f, c.queue)
    <3>1. w \in DOMAIN dest /\ FileOf(w) = f /\ \A v \in InInput : w < v
      BY <1>1, <1>2, <2>1 DEF WhereInv, MessagePlaced, FileOf
    <3>2. \A v \in InQueue(f) : v \in DOMAIN dest /\ FileOf(v) = f /\ \A u \in InInput : v < u
      BY <1>5 DEF QueueOf, InQueue, Queued
    <3>3. QED
      BY <2>3, <2>4, <2>6, <3>1, <3>2 DEF QueueOf
  <2>8. {worker.message} \ {0} = {w}
    BY <1>1, <1>2, <2>1
  <2>9. FileStep(f, c, {})
    BY <1>2, <1>4, <2>4, <2>5, <2>6, <2>7, <2>8 DEF FileStep
  <2>10. QED
    BY <1>3, <2>4, <2>9
<1>14. CASE close_if_open
  <2>1. worker.command.cmd = "close_if_open" /\ w = 0
    BY <1>6, <1>14 DEF close_if_open, Resolved
  <2>2. CASE close(f, files[f])
    BY <1>3, <1>7, <1>10, <2>1, <2>2, CloseTakes
  <2>3. QED
    BY <1>3, <1>11, <1>14, <2>1, <2>2 DEF close_if_open, Named
<1>15. CASE open_as_new
  <2>1. worker.command.cmd = "open_as_new" /\ w = 0 /\ close(f, FileControl(files[f]))
    BY <1>6, <1>15 DEF open_as_new, Resolved
  <2>2. FileControl(files[f]).queue # <<>> => FileControl(files[f]).status = "waiting"
    BY <1>7
  <2>3. QED
    BY <1>3, <1>7, <1>10, <2>1, <2>2, CloseTakes
<1>16. CASE status
  BY <1>3, <1>6, <1>11, <1>16 DEF status, Resolved, fileVars, Named
<1>17. QED
  BY <1>12, <1>13, <1>14, <1>15, <1>16

LEMMA VisitSteps ==
  ASSUME TypeOK, WhereInv, Visit
  PROVE  \E f \in Files, fc \in Control : \E lost : FileStep(f, fc, lost)
<1>1. Typing /\ worker.at = "visit" /\ ~abandoned
  BY TypingIs DEF Visit
<1>2. PICK f \in worker.left :
        \/ worker.command = Retry /\ try_open(f, files[f], pending)
        \/ /\ files[f].status = "waiting" /\ worker' = Onward(f)
           /\ files' = [files EXCEPT ![f].close_after_write = TRUE]
        \/ close(f, files[f])
  BY DEF Visit
<1>3. f \in Files /\ files[f] \in Control
  BY <1>1, <1>2 DEF Typing, WorkerRecord, Stage
<1>4. UNCHANGED <<input_queue, dest, abandoned, errors, told, answer, caller, stored>>
  BY DEF Visit, ioRest, callVars
<1>5. QueueOf(f, files[f].queue) /\ Queued(files[f]) = InQueue(f) /\ KeepsRecord(files[f], files[f])
  BY <1>3, SameQueue DEF KeepsRecord
<1>6. files[f].queue # <<>> => files[f].status = "waiting"
  BY <1>1, <1>3 DEF WhereInv, StageInv
<1>7. Takes(f, files[f], {})
  <2>1. CASE worker.command = Retry /\ try_open(f, files[f], pending)
    <3>1. files[f].status = "waiting"
      BY <1>1, <1>2, <2>1 DEF WhereInv, StageInv
    <3>2. QED
      BY <1>3, <2>1, <3>1, TryOpenTakes
  <2>2. CASE close(f, files[f])
    BY <1>3, <1>6, <2>2, CloseTakes
  <2>3. CASE /\ files[f].status = "waiting" /\ worker' = Onward(f)
             /\ files' = [files EXCEPT ![f].close_after_write = TRUE]
    <3> DEFINE c == [files[f] EXCEPT !.close_after_write = TRUE]
    <3>1. c \in Control /\ c.queue = files[f].queue /\ c.status = "waiting" /\ KeepsRecord(files[f], c)
      BY <1>3, <2>3 DEF Control, OutputFileType, KeepsRecord
    <3>2. files' = [files EXCEPT ![f] = c]
      BY <2>3
    <3> HIDE DEF c
    <3>3. QED
      BY <2>3, <3>1, <3>2 DEF Takes
  <2>4. QED
    BY <1>2, <2>1, <2>2, <2>3
<1>8. {worker.message} \ {0} = {}
  BY <1>1 DEF WhereInv, MessagePlaced
<1>9. FileStep(f, files[f], {})
  BY <1>1, <1>4, <1>5, <1>7, <1>8 DEF FileStep
<1>10. QED
  BY <1>3, <1>9

----------------------------------------------------------------------------
(* What every step of the worker does to the writes in flight. *)

(* That a write is lost is on record, with its file or as an error. *)
Recorded(w) ==
  \/ files[FileOf(w)].status \in FAILED /\ w \in files[FileOf(w)].dropped
  \/ w \in files[FileOf(w)].abandoned
  \/ \E r \in errors : w \in r.writes

(* At most the text in the worker's hands is stored; none joins those in flight. *)
Effect ==
  /\ UNCHANGED <<dest, told, answer, caller, abandoned>>
  /\ InFlight' \subseteq InFlight
  /\ \/ stored' = stored
     \/ /\ worker.at \in {"write", "flush"}
        /\ stored' = stored \cup {worker.message} /\ worker.message \notin InFlight'

(* What is lost is on record, and nothing is taken off the record. *)
Accounted ==
  /\ \A w \in InFlight : w \notin InFlight' /\ w \notin stored' => Recorded(w)'
  /\ \A w \in DOMAIN dest : Recorded(w) => Recorded(w)'

LEMMA FlightIs ==
  \A w : w \in InFlight <=> \/ w \in InInput
                            \/ \E g \in Files : w \in InQueue(g)
                            \/ w = worker.message /\ w # 0
<1> DEFINE U == UNION {InQueue(f) : f \in Files}
<1>1. \A w : w \in U <=> \E g \in Files : w \in InQueue(g)
  OBVIOUS
<1>2. InFlight = InInput \cup ({worker.message} \ {0}) \cup U
  BY DEF InFlight
<1> HIDE DEF U
<1>3. QED
  BY <1>1, <1>2

LEMMA FlightIsNext ==
  \A w : w \in InFlight' <=> \/ w \in InInput'
                             \/ \E g \in Files : w \in InQueue(g)'
                             \/ w = worker'.message /\ w # 0
<1> DEFINE U == UNION {InQueue(f)' : f \in Files}
<1>1. \A w : w \in U <=> \E g \in Files : w \in InQueue(g)'
  OBVIOUS
<1>2. InFlight' = InInput' \cup ({worker'.message} \ {0}) \cup U
  BY DEF InFlight
<1> HIDE DEF U
<1>3. QED
  BY <1>1, <1>2

LEMMA MoveFields ==
  ASSUME worker \in WorkerRecord
  PROVE  /\ \A stage, n, w : /\ At(stage, n, w).at = stage /\ At(stage, n, w).name = n
                             /\ At(stage, n, w).message = w
                             /\ At(stage, n, w).command = worker.command
                             /\ At(stage, n, w).left = worker.left
         /\ Done.at = "timer" /\ Done.name = None /\ Done.message = 0
         /\ Done.command = worker.command /\ Done.left = {}
<1>1. \A stage, n, w : /\ At(stage, n, w).at = stage /\ At(stage, n, w).name = n
                       /\ At(stage, n, w).message = w
                       /\ At(stage, n, w).command = worker.command
                       /\ At(stage, n, w).left = worker.left
  BY DEF At, WorkerRecord, Stage
<1>2. Done.at = "timer" /\ Done.name = None /\ Done.message = 0
      /\ Done.command = worker.command /\ Done.left = {}
  BY DEF Done, At, WorkerRecord, Stage
<1>3. QED
  BY <1>1, <1>2

LEMMA OnwardIs ==
  ASSUME worker \in WorkerRecord, NEW f
  PROVE  /\ Onward(f).message = 0 /\ Onward(f).command = worker.command
         /\ \/ Onward(f).at = "visit" /\ Onward(f).left = worker.left \ {f}
            \/ Onward(f).at \in {"timer", "loop"} /\ Onward(f).left = {}
<1> DEFINE v == [At("visit", None, 0) EXCEPT !.left = @ \ {f}]
           l == [Done EXCEPT !.at = "loop"]
<1>1. v.message = 0 /\ v.command = worker.command /\ v.at = "visit" /\ v.left = worker.left \ {f}
  BY DEF At, WorkerRecord, Stage
<1>2. l.message = 0 /\ l.command = worker.command /\ l.at = "loop" /\ l.left = {}
  BY DEF Done, At, WorkerRecord, Stage
<1>3. Onward(f) \in {v, l, Done}
  BY DEF Onward
<1>4. QED
  BY <1>1, <1>2, <1>3, MoveFields

(* Taking the head off an ascending queue leaves it ascending, all after the head. *)
LEMMA TailAscends ==
  ASSUME NEW q \in Seq(Write), q # <<>>, Ascending(q)
  PROVE  /\ Ascending(Tail(q))
         /\ Head(q) \in {q[i] : i \in DOMAIN q}
         /\ \A i \in DOMAIN Tail(q) : /\ Tail(q)[i] \in {q[j] : j \in DOMAIN q}
                                      /\ Head(q) < Tail(q)[i]
         /\ \A i \in DOMAIN q : q[i] = Head(q) \/ q[i] \in {Tail(q)[j] : j \in DOMAIN Tail(q)}
<1>1. /\ Len(q) \in Nat \ {0} /\ DOMAIN q = 1 .. Len(q)
      /\ Head(q) = q[1] /\ Tail(q) \in Seq(Write) /\ Len(Tail(q)) = Len(q) - 1
      /\ \A i \in 1 .. Len(Tail(q)) : Tail(q)[i] = q[i + 1]
  BY HeadTailProperties, LenProperties, EmptySeq
<1>2. DOMAIN Tail(q) = 1 .. Len(q) - 1
  BY <1>1, LenProperties
<1>3. Ascending(Tail(q)) /\ \A i \in DOMAIN Tail(q) : Head(q) < Tail(q)[i]
  BY <1>1, <1>2 DEF Ascending
<1>4. \A i \in DOMAIN q : q[i] = Head(q) \/ q[i] \in {Tail(q)[j] : j \in DOMAIN Tail(q)}
  <2> SUFFICES ASSUME NEW i \in DOMAIN q, i # 1 PROVE \E j \in DOMAIN Tail(q) : q[i] = Tail(q)[j]
    BY <1>1
  <2>1. i - 1 \in DOMAIN Tail(q) /\ q[i] = Tail(q)[i - 1]
    BY <1>1, <1>2
  <2>2. QED
    BY <2>1
<1>5. QED
  BY <1>1, <1>2, <1>3, <1>4

(* What a step on file f makes of the writes queued in fc. *)
LEMMA TakesIs ==
  ASSUME Typing, NEW f \in Files, NEW fc \in Control, NEW lost, Takes(f, fc, lost),
         Ascending(fc.queue)
  PROVE  /\ worker' \in WorkerState /\ worker' \in WorkerRecord /\ files' \in [Files -> Control]
         /\ \A g \in Files \ {f} : files'[g] = files[g]
         /\ KeepsRecord(fc, files'[f])
         /\ lost \subseteq files'[f].dropped /\ (lost # {} => files'[f].status \in FAILED)
         /\ Ascending(files'[f].queue)
         /\ \A w \in Queued(files'[f]) : w \in Queued(fc) /\ (worker'.message # 0 => worker'.message < w)
         /\ worker'.message # 0 => /\ worker'.at = "write" /\ worker'.message \in Queued(fc)
         /\ \A w \in Queued(fc) :
              \/ w \in Queued(files'[f])
              \/ w = worker'.message
              \/ w \in files'[f].dropped /\ files'[f].status \in FAILED
              \/ w \in files'[f].abandoned
         /\ worker'.command = worker.command
         /\ \/ worker'.at \in {"open", "write", "close"} /\ worker'.name = f /\ worker'.left = worker.left
            \/ worker'.at = "visit" /\ worker'.left = worker.left \ {f}
            \/ worker'.at \in {"timer", "loop"} /\ worker'.left = {}
         /\ worker'.at = "open" => files'[f].status \in {"unopened", "waiting", "closed"}
         /\ worker'.at \in {"write", "close"} => files'[f].status = "open"
         /\ worker'.at = "close" => files'[f].queue = <<>>
         /\ files'[f].queue # <<>> => files'[f].status = "waiting" \/ worker'.at \in {"open", "write"}
<1>1. PICK c \in Control :
        /\ files' = [files EXCEPT ![f] = c]
        /\ KeepsRecord(fc, c)
        /\ lost \subseteq c.dropped /\ (lost # {} => c.status \in FAILED)
        /\ \/ /\ worker' = At("open", f, 0)
              /\ c.queue = fc.queue /\ c.status \in {"unopened", "waiting", "closed"}
           \/ /\ fc.queue # <<>> /\ worker' = At("write", f, Head(fc.queue))
              /\ c.queue = Tail(fc.queue) /\ c.status = "open"
           \/ /\ worker' = At("close", f, 0)
              /\ fc.queue = <<>> /\ c.queue = <<>> /\ c.status = "open"
           \/ /\ worker' = Onward(f)
              /\ c.queue = fc.queue /\ (c.queue # <<>> => c.status = "waiting")
           \/ /\ worker' = Onward(f)
              /\ c.queue = <<>>
              /\ \/ Queued(fc) \subseteq c.dropped /\ c.status \in FAILED
                 \/ Queued(fc) \subseteq c.abandoned
  BY DEF Takes
<1>2. files'[f] = c /\ files' \in [Files -> Control] /\ \A g \in Files \ {f} : files'[g] = files[g]
  BY <1>1 DEF Typing
<1>3. fc.queue \in Seq(Write)
  BY DEF Control, OutputFileType
<1>4. CASE worker' = At("open", f, 0) \/ worker' = At("close", f, 0)
  <2>1. worker' \in WorkerState /\ worker' \in WorkerRecord
    BY <1>4, Moves DEF Typing, WorkerState
  <2>2. worker'.message = 0 /\ worker'.name = f /\ worker'.left = worker.left
        /\ worker'.command = worker.command /\ worker'.at \in {"open", "close"}
    BY <1>4, MoveFields DEF Typing
  <2>3. c.queue = fc.queue /\ Queued(c) = Queued(fc)
        /\ (worker'.at = "open" => c.status \in {"unopened", "waiting", "closed"})
        /\ (worker'.at = "close" => c.status = "open" /\ c.queue = <<>>)
    <3>1. \A n : /\ At("open", f, 0).at = "open" /\ At("close", f, 0).at = "close"
                 /\ At("write", f, n).at = "write" /\ Onward(f).at \in {"visit", "timer", "loop"}
      BY MoveFields, OnwardIs DEF Typing
    <3>2. c.queue = fc.queue
          /\ (worker'.at = "open" => c.status \in {"unopened", "waiting", "closed"})
          /\ (worker'.at = "close" => c.status = "open" /\ c.queue = <<>>)
      BY <1>1, <1>4, <3>1
    <3>3. QED
      BY <3>2 DEF Queued
  <2>4. QED
    BY <1>1, <1>2, <2>1, <2>2, <2>3
<1>5. CASE /\ fc.queue # <<>> /\ worker' = At("write", f, Head(fc.queue))
           /\ c.queue = Tail(fc.queue) /\ c.status = "open"
  <2>1. Head(fc.queue) \in Write
    BY <1>3, <1>5, HeadTail
  <2>2. worker' \in WorkerState /\ worker' \in WorkerRecord
    BY <1>5, <2>1, Moves DEF Typing, WorkerState
  <2>3. worker'.message = Head(fc.queue) /\ worker'.name = f /\ worker'.left = worker.left
        /\ worker'.command = worker.command /\ worker'.at = "write"
    BY <1>5, MoveFields DEF Typing
  <2>4. Ascending(c.queue)
    BY <1>3, <1>5, TailAscends
  <2>5. \A w \in Queued(c) : w \in Queued(fc) /\ worker'.message < w
    BY <1>3, <1>5, <2>3, TailAscends DEF Queued
  <2>6. \A w \in Queued(fc) : w \in Queued(c) \/ w = worker'.message
    BY <1>3, <1>5, <2>3, TailAscends DEF Queued
  <2>7. worker'.message \in Queued(fc)
    BY <1>3, <1>5, <2>3, TailAscends DEF Queued
  <2>8. QED
    BY <1>1, <1>2, <1>5, <2>2, <2>3, <2>4, <2>5, <2>6, <2>7
<1>6. CASE /\ worker' = Onward(f)
           /\ \/ c.queue = fc.queue /\ (c.queue # <<>> => c.status = "waiting")
              \/ /\ c.queue = <<>>
                 /\ \/ Queued(fc) \subseteq c.dropped /\ c.status \in FAILED
                    \/ Queued(fc) \subseteq c.abandoned
  <2>1. worker' \in WorkerState /\ worker' \in WorkerRecord
    BY <1>6, Moves DEF Typing, WorkerState
  <2>2. /\ worker'.message = 0 /\ worker'.command = worker.command
        /\ \/ worker'.at = "visit" /\ worker'.left = worker.left \ {f}
           \/ worker'.at \in {"timer", "loop"} /\ worker'.left = {}
    BY <1>6, OnwardIs DEF Typing
  <2>3. Ascending(c.queue)
    BY <1>6 DEF Ascending
  <2>4. \A w \in Queued(c) : w \in Queued(fc)
    BY <1>6 DEF Queued
  <2>5. \A w \in Queued(fc) :
          \/ w \in Queued(c)
          \/ w \in c.dropped /\ c.status \in FAILED
          \/ w \in c.abandoned
    BY <1>6 DEF Queued
  <2>6. QED
    BY <1>1, <1>2, <1>6, <2>1, <2>2, <2>3, <2>4, <2>5
<1>7. QED
  BY <1>1, <1>4, <1>5, <1>6

(* A step of the worker on one file keeps every write in its place, stores none but
   the one in the worker's hands, and puts on record what it loses. *)
LEMMA FileStepIs ==
  ASSUME TypeOK, WhereInv, NEW f \in Files, NEW fc \in Control, NEW lost, FileStep(f, fc, lost)
  PROVE  WhereInv' /\ Effect /\ Accounted
<1> DEFINE m == worker.message
<1>1. Typing /\ worker' \in WorkerRecord /\ m \in {0} \cup Write
      /\ (worker.at \in {"write", "flush"} => m \in Write) /\ 0 \notin Write
  BY TypingIs, TakesIs DEF FileStep, QueueOf, Typing, WorkerState, WorkerRecord, Stage, Write
<1>2. UNCHANGED <<input_queue, dest, abandoned, errors, told, answer, caller>>
  BY DEF FileStep
<1>3. Ascending(fc.queue)
      /\ \A w \in Queued(fc) : w \in DOMAIN dest /\ FileOf(w) = f /\ \A v \in InInput : w < v
  BY DEF FileStep, QueueOf, Queued
<1> DEFINE c == files'[f]
<1>4. /\ \A g \in Files \ {f} : files'[g] = files[g]
      /\ KeepsRecord(fc, c)
      /\ lost \subseteq c.dropped /\ (lost # {} => c.status \in FAILED)
      /\ Ascending(c.queue)
      /\ \A w \in Queued(c) : w \in Queued(fc) /\ (worker'.message # 0 => worker'.message < w)
      /\ worker'.message # 0 => worker'.at = "write" /\ worker'.message \in Queued(fc)
      /\ \A w \in Queued(fc) :
           \/ w \in Queued(c)
           \/ w = worker'.message
           \/ w \in c.dropped /\ c.status \in FAILED
           \/ w \in c.abandoned
  BY <1>1, <1>3, TakesIs DEF FileStep
<1>5. /\ worker'.command = worker.command
      /\ \/ worker'.at \in {"open", "write", "close"} /\ worker'.name = f /\ worker'.left = worker.left
         \/ worker'.at = "visit" /\ worker'.left = worker.left \ {f}
         \/ worker'.at \in {"timer", "loop"} /\ worker'.left = {}
      /\ worker'.at = "open" => c.status \in {"unopened", "waiting", "closed"}
      /\ worker'.at \in {"write", "close"} => c.status = "open"
      /\ worker'.at = "close" => c.queue = <<>>
      /\ c.queue # <<>> => c.status = "waiting" \/ worker'.at \in {"open", "write"}
  BY <1>1, <1>3, TakesIs DEF FileStep
<1>6. \/ worker.at = "visit"
      \/ worker.at = "resolve" /\ worker.left = {} /\ f = Resolve[worker.name]
      \/ worker.at \in {"open", "write", "flush", "close"} /\ worker.name = f
  BY DEF FileStep
<1>7. \/ stored' = stored /\ InQueue(f) \cup ({m} \ {0}) = Queued(fc) \cup lost
      \/ /\ worker.at \in {"write", "flush"} /\ stored' = stored \cup {m}
         /\ Queued(fc) = InQueue(f) /\ lost \subseteq {m}
  BY DEF FileStep
<1>8. KeepsRecord(files[f], c)
  BY <1>4 DEF FileStep, KeepsRecord
<1> HIDE DEF c, m
<1>9. InInput' = InInput /\ \A w : FileOf(w)' = FileOf(w)
  BY <1>2 DEF InInput, FileOf
<1>10. \A g \in Files \ {f} : InQueue(g)' = InQueue(g)
  BY <1>4 DEF InQueue
<1>11. InQueue(f)' = Queued(c)
  BY DEF InQueue, c
<1>12. \A w : w \in InFlight' <=> \/ w \in InInput
                                  \/ \E g \in Files \ {f} : w \in InQueue(g)
                                  \/ w \in Queued(c)
                                  \/ w = worker'.message /\ w # 0
  <2>1. \A w : w \in InFlight' <=> \/ w \in InInput'
                                   \/ \E g \in Files : w \in InQueue(g)'
                                   \/ w = worker'.message /\ w # 0
    BY FlightIsNext
  <2>2. QED
    BY <1>9, <1>10, <1>11, <2>1
<1>13. \A w : w \in InFlight <=> \/ w \in InInput
                                 \/ \E g \in Files \ {f} : w \in InQueue(g)
                                 \/ w \in InQueue(f)
                                 \/ w = m /\ w # 0
  BY FlightIs DEF m
<1>14. InFlight' \subseteq InFlight
  <2>1. \A w \in Queued(fc) : w \in InQueue(f) \/ (w = m /\ w # 0)
    BY <1>7
  <2>2. QED
    BY <1>4, <1>12, <1>13, <2>1
<1>15. worker.at \in {"write", "flush"} /\ stored' = stored \cup {m} => m \notin InFlight'
  <2> SUFFICES ASSUME worker.at \in {"write", "flush"}, m \in InFlight' PROVE stored' # stored \cup {m}
    OBVIOUS
  <2>1. m \in Write /\ m # 0 /\ m \in Nat /\ worker.name = f /\ FileOf(m) = f
    BY <1>1, <1>6 DEF WhereInv, MessagePlaced, m, Write
  <2>2. (\A v \in InInput : m < v) /\ \A w \in InQueue(f) : m < w
    BY <1>1, <2>1 DEF WhereInv, MessagePlaced, m
  <2>3. m \notin InInput /\ m \notin InQueue(f)
    BY <2>1, <2>2
  <2>4. \A g \in Files \ {f} : m \notin InQueue(g)
    BY <2>1 DEF WhereInv, QueuesPlaced, QueueOf, InQueue, Queued
  <2>5. m \in Queued(fc)
    BY <1>4, <1>12, <2>3, <2>4
  <2>6. m \notin stored
    BY <1>13, <2>1 DEF WhereInv, NotStored
  <2>7. QED
    BY <1>7, <2>3, <2>5, <2>6
<1>16. Effect
  BY <1>2, <1>7, <1>14, <1>15 DEF Effect, m
<1>17. \A w \in InQueue(f) \cup ({m} \ {0}) : FileOf(w) = f
  <2>1. \A w \in InQueue(f) : FileOf(w) = f
    BY DEF WhereInv, QueuesPlaced, QueueOf, InQueue, Queued
  <2>2. m # 0 => FileOf(m) = f
    <3>1. m # 0 => worker.at \in {"resolve", "write", "flush"}
      BY DEF WhereInv, MessagePlaced, m
    <3>2. QED
      BY <1>6, <3>1 DEF WhereInv, MessagePlaced, FileOf, m
  <2>3. QED
    BY <2>1, <2>2
<1>18. Accounted
  <2>1. ASSUME NEW w \in InFlight, w \notin InFlight', w \notin stored'
        PROVE  Recorded(w)'
    <3>1. w \in InQueue(f) \cup ({m} \ {0})
      BY <1>12, <1>13, <2>1
    <3>2. FileOf(w)' = f
      BY <1>9, <1>17, <3>1
    <3>3. w \in Queued(fc) \cup lost
      BY <1>7, <2>1, <3>1
    <3>4. CASE w \in lost
      BY <1>4, <3>2, <3>4 DEF Recorded, c
    <3>5. CASE w \in Queued(fc)
      <4>1. w # 0
        BY <1>1, <3>5 DEF Queued, Control, OutputFileType
      <4>2. \/ w \in c.dropped /\ c.status \in FAILED
            \/ w \in c.abandoned
        BY <1>4, <1>12, <2>1, <3>5, <4>1
      <4>3. QED
        BY <3>2, <4>2 DEF Recorded, c
    <3>6. QED
      BY <3>3, <3>4, <3>5
  <2>2. ASSUME NEW w \in DOMAIN dest, Recorded(w)
        PROVE  Recorded(w)'
    <3>1. FileOf(w)' = FileOf(w) /\ errors' = errors
      BY <1>2, <1>9
    <3>2. FileOf(w) \in Files
      BY FileWriterAssumption, ElementOfSeq, LenProperties DEF FileOf, TypeOK
    <3>3. CASE FileOf(w) = f
      BY <1>8, <2>2, <3>1, <3>3 DEF Recorded, KeepsRecord, c
    <3>4. CASE FileOf(w) # f
      BY <1>4, <2>2, <3>1, <3>2, <3>4 DEF Recorded
    <3>5. QED
      BY <3>3, <3>4
  <2>3. QED
    BY <2>1, <2>2 DEF Accounted
<1>19. InputPlaced'
  BY <1>2 DEF WhereInv, InputPlaced
<1>20. QueuesPlaced'
  <2>1. ASSUME NEW g \in Files PROVE QueueOf(g, files[g].queue)'
    <3>1. CASE g # f
      BY <1>2, <1>4, <1>9, <3>1 DEF WhereInv, QueuesPlaced, QueueOf, Ascending
    <3>2. CASE g = f
      <4>1. \A w \in Queued(c) : w \in DOMAIN dest' /\ FileOf(w)' = f /\ \A v \in InInput' : w < v
        BY <1>2, <1>3, <1>4, <1>9
      <4>2. QED
        BY <1>4, <3>2, <4>1 DEF QueueOf, Ascending, Queued, c
    <3>3. QED
      BY <3>1, <3>2
  <2>2. QED
    BY <2>1 DEF QueuesPlaced
<1>21. MessagePlaced'
  <2>1. CASE worker'.message # 0
    <3>1. worker'.at = "write" /\ worker'.message \in Queued(fc) /\ worker'.name = f
      BY <1>4, <1>5, <2>1
    <3>2. /\ worker'.message \in DOMAIN dest' /\ FileOf(worker'.message) = f
          /\ \A v \in InInput' : worker'.message < v
      BY <1>2, <1>3, <1>9, <3>1
    <3>3. FileOf(worker.message)' = f
      BY <1>2, <3>2 DEF FileOf
    <3>4. \A w \in InQueue(worker.name)' : worker'.message < w
      <4>1. InQueue(worker.name)' = InQueue(f)'
        BY <3>1 DEF InQueue
      <4>2. QED
        BY <1>4, <1>11, <2>1, <4>1
    <3>5. QED
      BY <3>1, <3>2, <3>3, <3>4 DEF MessagePlaced
  <2>2. CASE worker'.message = 0
    <3>1. worker'.at \notin {"resolve", "flush"}
      BY <1>5
    <3>2. worker'.at # "write"
      <4>1. worker' \in WorkerState
        BY <1>1, <1>3, TakesIs DEF FileStep
      <4>2. QED
        BY <1>1, <2>2, <4>1 DEF WorkerState
    <3>3. QED
      BY <2>2, <3>1, <3>2 DEF MessagePlaced
  <2>3. QED
    BY <2>1, <2>2
<1>22. NotStored'
  <2>1. stored \subseteq DOMAIN dest /\ InFlight \cap stored = {}
    BY DEF WhereInv, NotStored
  <2>2. worker.at \in {"write", "flush"} => m \in DOMAIN dest
    BY <1>1 DEF WhereInv, MessagePlaced, m
  <2>3. stored' \subseteq DOMAIN dest'
    BY <1>2, <1>7, <2>1, <2>2
  <2>4. InFlight' \cap stored' = {}
    BY <1>7, <1>14, <1>15, <2>1
  <2>5. QED
    BY <2>3, <2>4 DEF NotStored
<1>23. StageInv'
  <2>1. worker'.at \in {"loop", "timer", "ended", "resolve"} => worker'.left = {}
    BY <1>5
  <2>2. worker'.at = "open" => files'[worker'.name].status \in {"unopened", "waiting", "closed"}
    BY <1>5 DEF c
  <2>3. worker'.at \in {"write", "flush", "close"} => files'[worker'.name].status = "open"
    BY <1>5 DEF c
  <2>4. worker'.at = "close" => files'[worker'.name].queue = <<>>
    BY <1>5 DEF c
  <2>5. ASSUME worker'.command = Retry, NEW g \in worker'.left
        PROVE  \/ files'[g].status = "waiting"
               \/ g = worker'.name /\ worker'.at \in {"open", "write", "flush", "close"}
    <3>1. g \in worker.left /\ g \in Files
      BY <1>1, <1>5, <2>5 DEF Typing, WorkerRecord, Stage
    <3>2. CASE g = f
      BY <1>5, <2>5, <3>2
    <3>3. CASE g # f
      <4>1. files[g].status = "waiting"
        BY <1>5, <1>6, <2>5, <3>1, <3>3 DEF WhereInv, StageInv
      <4>2. QED
        BY <1>4, <3>1, <3>3, <4>1
    <3>4. QED
      BY <3>2, <3>3
  <2>6. ASSUME ~abandoned', NEW g \in Files, files'[g].queue # <<>>
        PROVE  \/ files'[g].status = "waiting"
               \/ g = worker'.name /\ worker'.at \in {"open", "write", "flush"}
    <3>1. CASE g = f
      BY <1>5, <2>6, <3>1 DEF c
    <3>2. CASE g # f
      <4>1. files[g].status = "waiting"
        BY <1>2, <1>4, <1>6, <2>6, <3>2 DEF WhereInv, StageInv
      <4>2. QED
        BY <1>4, <3>2, <4>1
    <3>3. QED
      BY <3>1, <3>2
  <2>7. QED
    BY <2>1, <2>2, <2>3, <2>4, <2>5, <2>6 DEF StageInv, Retry
<1>24. QED
  BY <1>16, <1>18, <1>19, <1>20, <1>21, <1>22, <1>23 DEF WhereInv

(* A step that stores nothing and queues nothing anew. *)
LEMMA QuietStep ==
  ASSUME TypeOK, WhereInv, UNCHANGED <<dest, stored, told, answer, caller, abandoned>>,
         InInput' \subseteq InInput,
         \A g \in Files : files'[g].queue = files[g].queue \/ files'[g].queue = <<>>,
         worker'.message = 0 \/ worker'.message \in InFlight
  PROVE  QueuesPlaced' /\ NotStored' /\ Effect
<1>1. \A w : FileOf(w)' = FileOf(w)
  BY DEF FileOf
<1>2. \A g \in Files : InQueue(g)' \subseteq InQueue(g)
  BY DEF InQueue, Queued
<1>3. InFlight' \subseteq InFlight
  BY <1>2, FlightIs, FlightIsNext
<1>4. QueuesPlaced'
  <2>1. ASSUME NEW g \in Files PROVE QueueOf(g, files[g].queue)'
    <3>1. CASE files'[g].queue = files[g].queue
      BY <1>1, <3>1 DEF WhereInv, QueuesPlaced, QueueOf, Ascending
    <3>2. CASE files'[g].queue = <<>>
      BY <3>2 DEF QueueOf, Ascending
    <3>3. QED
      BY <3>1, <3>2
  <2>2. QED
    BY <2>1 DEF QueuesPlaced
<1>5. QED
  BY <1>3, <1>4 DEF WhereInv, NotStored, Effect

(* What taking a command makes of the input queue. *)
LEMMA TakeIs ==
  ASSUME TypeOK, InputPlaced, NEW cmd, Take(cmd), dest' = dest
  PROVE  /\ Head(input_queue) \in Command /\ Head(input_queue).cmd = cmd
         /\ InputPlaced' /\ InInput' \subseteq InInput
         /\ \A v \in InInput : v \in InInput' \/ v = Head(input_queue).write
         /\ LET w == Head(input_queue).write IN
            w # 0 => /\ w \in InInput /\ w \in DOMAIN dest /\ dest[w] = Head(input_queue).name
                     /\ \A v \in InInput' : w < v
<1> DEFINE q == input_queue
           h == Head(q)
<1>1. q \in Seq(Command) /\ q # <<>> /\ input_queue' = Tail(q)
  BY DEF TypeOK, Take
<1>2. /\ Len(q) \in Nat \ {0} /\ DOMAIN q = 1 .. Len(q)
      /\ h = q[1] /\ Tail(q) \in Seq(Command) /\ Len(Tail(q)) = Len(q) - 1
      /\ \A i \in 1 .. Len(Tail(q)) : Tail(q)[i] = q[i + 1]
  BY <1>1, HeadTailProperties, LenProperties, EmptySeq
<1>3. DOMAIN input_queue' = 1 .. Len(q) - 1 /\ \A i \in 1 .. Len(q) - 1 : input_queue'[i] = q[i + 1]
  BY <1>1, <1>2, LenProperties
<1>4. h \in Command /\ h.cmd = cmd
  BY TakeTyped
<1>5. \A v : v \in InInput <=> v # 0 /\ \E i \in 1 .. Len(q) : v = q[i].write
  BY <1>2 DEF InInput
<1>6. \A v : v \in InInput' <=> v # 0 /\ \E i \in 1 .. Len(q) - 1 : v = q[i + 1].write
  <2> DEFINE r == input_queue'
             S == {r[i].write : i \in DOMAIN r}
             D == 1 .. Len(q) - 1
  <2>1. InInput' = S \ {0}
    BY DEF InInput
  <2>2. DOMAIN r = D /\ \A i \in D : r[i] = q[i + 1]
    BY <1>3
  <2> HIDE DEF r, q, D
  <2>3. \A v : v \in S <=> \E i \in DOMAIN r : v = r[i].write
    OBVIOUS
  <2> HIDE DEF S
  <2>4. \A v : v \in S <=> \E i \in D : v = q[i + 1].write
    BY <2>2, <2>3
  <2>5. QED
    BY <2>1, <2>4 DEF D
<1> HIDE DEF h
<1>7. InInput' \subseteq InInput
  BY <1>2, <1>5, <1>6
<1>8. \A v \in InInput : v \in InInput' \/ v = h.write
  <2> SUFFICES ASSUME NEW v \in InInput, v # h.write PROVE v \in InInput'
    OBVIOUS
  <2>1. PICK i \in 1 .. Len(q) : v = q[i].write
    BY <1>5
  <2>2. i # 1
    BY <1>2, <2>1
  <2>3. i - 1 \in 1 .. Len(q) - 1 /\ q[(i - 1) + 1] = q[i]
    BY <1>2, <2>2
  <2>4. QED
    BY <1>5, <1>6, <2>1, <2>3
<1>9. h.write # 0 => /\ h.write \in InInput /\ h.write \in DOMAIN dest /\ dest[h.write] = h.name
                     /\ \A v \in InInput' : h.write < v
  BY <1>2, <1>5, <1>6 DEF InputPlaced
<1>10. InputPlaced'
  <2> DEFINE r == input_queue'
  <2>1. \A i \in DOMAIN r : i + 1 \in DOMAIN q /\ r[i] = q[i + 1] /\ i \in Nat
    BY <1>2, <1>3
  <2>2. \A i \in DOMAIN q : q[i].write # 0 =>
          q[i].write \in DOMAIN dest /\ dest[q[i].write] = q[i].name
    BY DEF InputPlaced
  <2>3. \A i, j \in DOMAIN q :
          i < j /\ q[i].write # 0 /\ q[j].write # 0 => q[i].write < q[j].write
    BY DEF InputPlaced
  <2> HIDE DEF r, q
  <2>4. \A i \in DOMAIN r : r[i].write # 0 =>
          r[i].write \in DOMAIN dest /\ dest[r[i].write] = r[i].name
    BY <2>1, <2>2
  <2>5. \A i, j \in DOMAIN r :
          i < j /\ r[i].write # 0 /\ r[j].write # 0 => r[i].write < r[j].write
    <3> SUFFICES ASSUME NEW i \in DOMAIN r, NEW j \in DOMAIN r, i < j,
                        r[i].write # 0, r[j].write # 0
                 PROVE  r[i].write < r[j].write
      OBVIOUS
    <3>1. i + 1 < j + 1
      BY <2>1
    <3>2. QED
      BY <2>1, <2>3, <3>1
  <2>6. QED
    BY <2>4, <2>5 DEF InputPlaced, r
<1>11. QED
  BY <1>4, <1>7, <1>8, <1>9, <1>10 DEF h

VisitingIs(v, h) ==
  /\ v.message = 0 /\ v.at \in {"visit", "timer"} /\ v.command = h
  /\ v.at = "timer" => v.left = {}

LEMMA VisitingFields ==
  ASSUME worker \in WorkerRecord, NEW S
  PROVE  /\ VisitingIs(Visiting(S), Head(input_queue))
         /\ VisitingIs([Visiting(S) EXCEPT !.active = FALSE], Head(input_queue))
<1> DEFINE h == Head(input_queue)
           w == IF S = {} THEN Done ELSE At("visit", None, 0)
           v == [w EXCEPT !.command = h, !.left = S]
<1>1. w.message = 0 /\ w.at = (IF S = {} THEN "timer" ELSE "visit")
      /\ DOMAIN w = {"at", "io", "command", "name", "left", "message", "active"}
  BY DEF Done, At, WorkerRecord, Stage
<1>2. Visiting(S) = v
  BY DEF Visiting
<1> HIDE DEF h, w
<1>3. v.message = 0 /\ v.at = w.at /\ v.command = h /\ v.left = S
  BY <1>1
<1>4. /\ [v EXCEPT !.active = FALSE].message = v.message /\ [v EXCEPT !.active = FALSE].at = v.at
      /\ [v EXCEPT !.active = FALSE].command = v.command /\ [v EXCEPT !.active = FALSE].left = v.left
  BY <1>1
<1>5. QED
  BY <1>1, <1>2, <1>3, <1>4 DEF VisitingIs, h

(* The steps of the worker that touch no file keep every write in its place. *)
LEMMA TakeSteps ==
  ASSUME TypeOK, WhereInv,
         TakeNamed \/ close_all_after_write \/ shutdown \/ closed_status \/ open_failures
  PROVE  /\ WhereInv' /\ Effect
         /\ InFlight' = InFlight
         /\ ~open_failures => Accounted
<1> DEFINE h == Head(input_queue)
<1>1. Typing /\ 0 \notin Write
  BY TypingIs DEF Write
<1>2. PICK cmd \in Named \cup {"close_all_after_write", "shutdown", "closed_status", "open_failures"} :
        Take(cmd)
  BY DEF TakeNamed, close_all_after_write, shutdown, closed_status, open_failures
<1>3. /\ worker.at = "loop" /\ ~abandoned /\ worker.message = 0 /\ worker.left = {}
      /\ \A g \in Files : files[g].queue # <<>> => files[g].status = "waiting"
  BY <1>2 DEF Take, WhereInv, MessagePlaced, StageInv
<1>4. UNCHANGED <<dest, stored, told, answer, caller, abandoned>>
  BY DEF TakeNamed, close_all_after_write, shutdown, closed_status, open_failures, fileVars, callVars
<1>5. /\ h \in Command /\ h.cmd = cmd /\ InputPlaced' /\ InInput' \subseteq InInput
      /\ \A v \in InInput : v \in InInput' \/ v = h.write
      /\ h.write # 0 => /\ h.write \in InInput /\ h.write \in DOMAIN dest /\ dest[h.write] = h.name
                        /\ \A v \in InInput' : h.write < v
  BY <1>2, <1>4, TakeIs DEF WhereInv
<1>6. \A v \in InInput : v # 0
  BY DEF InInput
<1>7. h # Retry
  BY <1>5 DEF Retry, Named
<1>8. CASE TakeNamed
  <2>1. /\ worker'.at = "resolve" /\ worker'.message = h.write /\ worker'.name = h.name
        /\ worker'.command = h /\ worker'.left = {}
    <3>1. worker' = [At("resolve", h.name, h.write) EXCEPT !.command = h]
      BY <1>8 DEF TakeNamed
    <3>2. worker \in WorkerRecord
      BY <1>1 DEF Typing
    <3>3. QED
      BY <1>3, <3>1, <3>2 DEF At, WorkerRecord, Stage
  <2>2. files' = files /\ errors' = errors
    BY <1>8 DEF TakeNamed, fileVars
  <2>3. QueuesPlaced' /\ NotStored' /\ Effect
    BY <1>4, <1>5, <2>1, <2>2, FlightIs, QuietStep
  <2>4. InFlight' = InFlight
    <3>1. \A g : InQueue(g)' = InQueue(g)
      BY <2>2 DEF InQueue
    <3>2. QED
      BY <1>3, <1>5, <1>6, <2>1, <3>1, FlightIs, FlightIsNext
  <2>5. MessagePlaced'
    <3>1. \A f \in Files : \A w \in InQueue(f)' : h.write # 0 => w < h.write
      BY <1>5, <2>2 DEF WhereInv, QueuesPlaced, QueueOf, InQueue, Queued
    <3>2. QED
      BY <1>4, <1>5, <2>1, <3>1 DEF MessagePlaced
  <2>6. StageInv'
    BY <1>3, <1>7, <2>1, <2>2 DEF StageInv, Retry
  <2>7. Accounted
    BY <1>4, <2>2, <2>4 DEF Accounted, Recorded, FileOf
  <2>8. QED
    BY <1>5, <2>3, <2>4, <2>5, <2>6, <2>7 DEF WhereInv
<1>9. CASE ~TakeNamed
  <2>1. /\ worker'.message = 0 /\ worker'.at \in {"visit", "timer"} /\ worker'.command = h
        /\ worker'.at = "timer" => worker'.left = {}
    <3>1. \/ \E S : worker' = Visiting(S) \/ worker' = [Visiting(S) EXCEPT !.active = FALSE]
          \/ worker' = [Done EXCEPT !.command = h]
      BY <1>9 DEF close_all_after_write, shutdown, closed_status, open_failures
    <3>2. worker \in WorkerRecord
      BY <1>1 DEF Typing
    <3>3. /\ [Done EXCEPT !.command = h].message = 0 /\ [Done EXCEPT !.command = h].at = "timer"
          /\ [Done EXCEPT !.command = h].command = h /\ [Done EXCEPT !.command = h].left = {}
      BY <3>2 DEF Done, At, WorkerRecord, Stage
    <3>4. \A S : VisitingIs(Visiting(S), h) /\ VisitingIs([Visiting(S) EXCEPT !.active = FALSE], h)
      BY <3>2, VisitingFields
    <3> HIDE DEF h
    <3>5. QED
      BY <3>1, <3>3, <3>4 DEF VisitingIs
  <2>2. h.write = 0
    BY <1>5, <1>9 DEF Command, Named, Take, TakeNamed, close_all_after_write, shutdown, closed_status,
       open_failures
  <2>3. InInput' = InInput
    BY <1>5, <1>6, <2>2
  <2>4. /\ \A g \in Files : files'[g].queue = files[g].queue
        /\ \A g \in Files : files[g].status = "waiting" => files'[g].status = "waiting"
    <3>1. CASE open_failures
      <4>1. \A g \in Files : files'[g] = IF files[g].status \in FAILED THEN Absent
                                         ELSE [files[g] EXCEPT !.abandoned = {}]
        BY <3>1 DEF open_failures
      <4>2. \A g \in Files : files[g].status \in FAILED => files[g].queue = <<>>
        BY <1>3 DEF FAILED
      <4>3. Absent.queue = <<>>
        BY DEF Absent
      <4>4. \A g \in Files : /\ [files[g] EXCEPT !.abandoned = {}].queue = files[g].queue
                            /\ [files[g] EXCEPT !.abandoned = {}].status = files[g].status
        BY <1>1 DEF Typing, Control, OutputFileType
      <4>5. "waiting" \notin FAILED
        BY DEF FAILED
      <4>6. QED
        BY <4>1, <4>2, <4>3, <4>4, <4>5
    <3>2. CASE ~open_failures
      BY <1>9, <3>2 DEF close_all_after_write, shutdown, closed_status, fileVars
    <3>3. QED
      BY <3>1, <3>2
  <2>5. QueuesPlaced' /\ NotStored' /\ Effect
    BY <1>4, <2>1, <2>3, <2>4, QuietStep
  <2>6. \A g \in Files : InQueue(g)' = InQueue(g)
    BY <2>4 DEF InQueue, Queued
  <2>7. InFlight' = InFlight
    <3>1. \A w : w \in InFlight' <=> w \in InFlight
      BY <1>3, <2>1, <2>3, <2>6, FlightIs, FlightIsNext
    <3>2. QED
      BY <3>1 DEF InFlight
  <2>8. MessagePlaced'
    BY <2>1 DEF MessagePlaced
  <2>9. StageInv'
    BY <1>3, <1>4, <1>7, <2>1, <2>4 DEF StageInv, Retry
  <2>10. ~open_failures => Accounted
    BY <1>4, <1>9, <2>7
    DEF Accounted, Recorded, FileOf, close_all_after_write, shutdown, closed_status, fileVars
  <2>11. QED
    BY <1>5, <2>5, <2>7, <2>8, <2>9, <2>10 DEF WhereInv
<1>10. QED
  BY <1>8, <1>9

(* A step that leaves the worker with no text, and outside its calls. *)
LEMMA IdleStep ==
  ASSUME worker'.message = 0,
         \/ /\ worker'.at \in {"loop", "timer", "ended"}
            /\ worker'.left = {}
         \/ /\ worker'.at = "visit" /\ worker'.command = Retry
            /\ \A g \in worker'.left : files'[g].status = "waiting",
         ~abandoned' => \A g \in Files : files'[g].queue # <<>> => files'[g].status = "waiting"
  PROVE  MessagePlaced' /\ StageInv'
<1>1. MessagePlaced'
  BY DEF MessagePlaced
<1>2. StageInv'
  BY DEF StageInv, Retry
<1>3. QED
  BY <1>1, <1>2

(* A step that changes neither the files nor what is in flight loses nothing. *)
LEMMA SameRecord ==
  ASSUME UNCHANGED <<dest, files, errors>>, InFlight' = InFlight
  PROVE  Accounted
<1>1. \A w : Recorded(w)' <=> Recorded(w)
  BY DEF Recorded, FileOf
<1>2. QED
  BY <1>1 DEF Accounted

(* The worker comes nearer a call, or has written a text that is not flushed yet. *)
LEMMA NearerSteps ==
  ASSUME TypeOK, WhereInv, Publish \/ Reserve \/ (WriteSucceeds /\ ~abandoned)
  PROVE  WhereInv' /\ Effect /\ Accounted
<1>1. Typing
  BY TypingIs
<1>2. UNCHANGED <<input_queue, dest, abandoned, told, answer, caller, stored, files, errors>>
  BY DEF Publish, Reserve, WriteSucceeds, ioRest, callVars, fileVars
<1>3. /\ worker'.name = worker.name /\ worker'.message = worker.message
      /\ worker'.left = worker.left /\ worker'.command = worker.command
      /\ worker'.at = worker.at \/ (worker.at = "write" /\ worker'.at = "flush")
  <2>1. \A v : LET u == [worker EXCEPT !.io = v] IN
                 /\ u.name = worker.name /\ u.message = worker.message /\ u.left = worker.left
                 /\ u.command = worker.command /\ u.at = worker.at
    BY <1>1 DEF Typing, WorkerRecord, Stage
  <2>2. WriteSucceeds /\ ~abandoned => worker.at = "write" /\ worker' = At("flush", worker.name, worker.message)
    BY DEF WriteSucceeds, Ended
  <2>3. CASE Publish \/ Reserve
    <3>1. PICK v : worker' = [worker EXCEPT !.io = v]
      BY <2>3 DEF Publish, Reserve
    <3>2. QED
      BY <2>1, <3>1
  <2>4. CASE WriteSucceeds /\ ~abandoned
    BY <1>1, <2>2, <2>4, MoveFields DEF Typing
  <2>5. QED
    BY <2>3, <2>4
<1>4. InInput' = InInput /\ \A g : InQueue(g)' = InQueue(g) /\ \A w : FileOf(w)' = FileOf(w)
  BY <1>2 DEF InInput, InQueue, FileOf
<1>5. InFlight' = InFlight
  <2>1. \A w : w \in InFlight' <=> w \in InFlight
    BY <1>3, <1>4, FlightIs, FlightIsNext
  <2>2. QED
    BY <2>1 DEF InFlight
<1>6. Accounted
  BY <1>2, <1>5, SameRecord
<1>7. QueuesPlaced' /\ NotStored' /\ Effect
  <2>1. worker'.message = 0 \/ worker'.message \in InFlight
    BY <1>3, FlightIs
  <2>2. QED
    BY <1>2, <1>4, <2>1, QuietStep
<1>8. InputPlaced'
  BY <1>2 DEF WhereInv, InputPlaced
<1>9. MessagePlaced'
  <2>1. MessagePlaced
    BY DEF WhereInv
  <2>2. FileOf(worker.message)' = FileOf(worker.message) /\ InQueue(worker.name)' = InQueue(worker.name)
    BY <1>2, <1>3 DEF FileOf, InQueue
  <2>3. /\ worker'.message # 0 => /\ worker'.at \in {"resolve", "write", "flush"}
                                  /\ worker'.message \in DOMAIN dest'
                                  /\ \A v \in InInput' : worker'.message < v
    BY <1>2, <1>3, <1>4, <2>1 DEF MessagePlaced
  <2>4. worker'.at = "resolve" =>
          /\ worker'.message = worker'.command.write
          /\ worker'.message # 0 => /\ dest'[worker'.message] = worker'.name
                                    /\ \A f \in Files : \A w \in InQueue(f)' : w < worker'.message
    BY <1>2, <1>3, <1>4, <2>1 DEF MessagePlaced
  <2>5. worker'.at \in {"write", "flush"} =>
          /\ FileOf(worker.message)' = worker'.name
          /\ \A w \in InQueue(worker.name)' : worker'.message < w
    BY <1>3, <2>1, <2>2 DEF MessagePlaced
  <2>6. QED
    BY <2>3, <2>4, <2>5 DEF MessagePlaced
<1>10. StageInv'
  BY <1>2, <1>3 DEF WhereInv, StageInv, Retry
<1>11. QED
  BY <1>6, <1>7, <1>8, <1>9, <1>10 DEF WhereInv

(* The worker stops at the abandonment, or turns to its loop, or ends. *)
LEMMA TurnSteps ==
  ASSUME TypeOK, WhereInv,
         \/ Stop \/ (WriteSucceeds /\ abandoned) \/ GetTimesOut \/ CheckTimer \/ retry_waiting
         \/ WorkerEnds
  PROVE  WhereInv' /\ Effect /\ (~abandoned => Accounted)
<1>1. Typing
  BY TypingIs
<1>2. UNCHANGED <<dest, abandoned, told, answer, caller, stored, errors>>
  BY DEF Stop, WriteSucceeds, GetTimesOut, CheckTimer, retry_waiting, Retries, WorkerEnds,
     ioRest, callVars, fileVars, loopRest
<1>3. ~abandoned => /\ worker.message = 0 /\ worker.at \in {"loop", "timer"}
                    /\ \A g \in Files : files[g].queue # <<>> => files[g].status = "waiting"
  BY DEF WhereInv, MessagePlaced, StageInv, Stop, WriteSucceeds, GetTimesOut, CheckTimer,
     retry_waiting, Retries, WorkerEnds
<1>4. worker.at \in {"loop", "timer"} => worker.left = {}
  BY DEF WhereInv, StageInv
<1>5. /\ \/ input_queue' = input_queue
         \/ abandoned /\ input_queue' = <<>>
      /\ \A g \in Files : files'[g].queue = files[g].queue \/ files'[g].queue = <<>>
      /\ ~abandoned => files' = files
  <2>1. CASE WorkerEnds
    <3>1. \A g \in Files : files'[g] = IF abandoned /\ files[g].status # "absent"
                                       THEN discard(files[g]) ELSE files[g]
      BY <2>1 DEF WorkerEnds
    <3>2. \A g \in Files : discard(files[g]).queue = <<>>
      BY <1>1 DEF Typing, discard, Control, OutputFileType
    <3>3. ~abandoned => files' = files
      BY <1>1, <2>1 DEF WorkerEnds, Typing
    <3>4. QED
      BY <2>1, <3>1, <3>2, <3>3 DEF WorkerEnds
  <2>2. CASE ~WorkerEnds
    BY <2>2 DEF Stop, WriteSucceeds, GetTimesOut, CheckTimer, retry_waiting, Retries,
       ioRest, fileVars, loopRest
  <2>3. QED
    BY <2>1, <2>2
<1>6. /\ worker'.message = 0
      /\ \/ worker'.at \in {"loop", "timer", "ended"} /\ worker'.left = {}
         \/ /\ worker'.at = "visit" /\ worker'.command = Retry
            /\ \A g \in worker'.left : files'[g].status = "waiting"
  <2>1. CASE Stop \/ (WriteSucceeds /\ abandoned)
    <3>1. worker' = Done
      BY <2>1 DEF Stop, WriteSucceeds
    <3>2. QED
      BY <1>1, <3>1, MoveFields DEF Typing
  <2>2. CASE GetTimesOut \/ CheckTimer
    <3>1. worker' \in {At("timer", None, 0), At("loop", None, 0)} /\ worker.at \in {"loop", "timer"}
      BY <2>2 DEF GetTimesOut, CheckTimer
    <3>2. QED
      BY <1>1, <1>4, <3>1, MoveFields DEF Typing
  <2>3. CASE retry_waiting
    <3> DEFINE waiting == {g \in Files : files[g].status = "waiting"}
               u == [At("visit", None, 0) EXCEPT !.command = Retry, !.left = waiting]
    <3>1. u.message = 0 /\ u.at = "visit" /\ u.command = Retry /\ u.left = waiting
      BY <1>1 DEF Typing, At, WorkerRecord, Stage
    <3>2. worker' = u /\ files' = files
      BY <2>3 DEF retry_waiting, Retries
    <3> HIDE DEF u
    <3>3. QED
      BY <3>1, <3>2
  <2>4. CASE WorkerEnds
    <3> DEFINE u == [At("ended", None, 0) EXCEPT !.active = FALSE]
    <3>1. u.message = 0 /\ u.at = "ended" /\ u.left = worker.left
      BY <1>1 DEF Typing, At, WorkerRecord, Stage
    <3>2. worker' = u /\ worker.at \in {"loop", "timer"}
      BY <2>4 DEF WorkerEnds
    <3> HIDE DEF u
    <3>3. QED
      BY <1>4, <3>1, <3>2
  <2>5. QED
    BY <2>1, <2>2, <2>3, <2>4
<1>7. InInput' \subseteq InInput /\ (~abandoned => InInput' = InInput)
  <2>1. input_queue' = input_queue => InInput' = InInput
    BY DEF InInput
  <2>2. input_queue' = <<>> => InInput' = {}
    BY DEF InInput
  <2>3. QED
    BY <1>5, <2>1, <2>2
<1>8. MessagePlaced' /\ StageInv'
  <2>1. ~abandoned' => \A g \in Files : files'[g].queue # <<>> => files'[g].status = "waiting"
    BY <1>2, <1>3, <1>5
  <2>2. QED
    BY <1>6, <2>1, IdleStep
<1>9. QueuesPlaced' /\ NotStored' /\ Effect
  BY <1>2, <1>5, <1>6, <1>7, QuietStep
<1>10. InputPlaced'
  <2>1. input_queue' = input_queue => InputPlaced'
    BY <1>2 DEF WhereInv, InputPlaced
  <2>2. input_queue' = <<>> => InputPlaced'
    BY DEF InputPlaced
  <2>3. QED
    BY <1>5, <2>1, <2>2
<1>11. ~abandoned => Accounted
  <2> SUFFICES ASSUME ~abandoned PROVE Accounted
    OBVIOUS
  <2>1. \A g : InQueue(g)' = InQueue(g)
    BY <1>5 DEF InQueue
  <2>2. \A w : w \in InFlight' <=> w \in InFlight
    BY <1>3, <1>6, <1>7, <2>1, FlightIs, FlightIsNext
  <2>3. InFlight' = InFlight
    BY <2>2 DEF InFlight
  <2>4. QED
    BY <1>2, <1>5, <2>3, SameRecord
<1>12. QED
  BY <1>8, <1>9, <1>10, <1>11 DEF WhereInv

(* A command whose path does not resolve is put down as an error. *)
LEMMA RaiseStep ==
  ASSUME TypeOK, WhereInv, ResolveRaises
  PROVE  WhereInv' /\ Effect /\ Accounted
<1> DEFINE w == worker.command.write
<1>1. Typing
  BY TypingIs
<1>2. UNCHANGED <<input_queue, dest, abandoned, told, answer, caller, stored, files>>
  BY DEF ResolveRaises, ioRest, callVars
<1>3. /\ worker.at = "resolve" /\ ~abandoned /\ worker.message = w
      /\ \A g \in Files : files[g].queue # <<>> => files[g].status = "waiting"
  BY DEF ResolveRaises, Ended, WhereInv, MessagePlaced, StageInv
<1>4. worker' = Done /\ worker'.message = 0 /\ worker'.at = "timer" /\ worker'.left = {}
  BY <1>1, MoveFields DEF ResolveRaises, Typing
<1>5. errors' = errors \cup {[subject |-> worker.name, writes |-> {w} \ {0}]}
  BY DEF ResolveRaises
<1>6. InInput' = InInput /\ \A g : InQueue(g)' = InQueue(g) /\ \A v : FileOf(v)' = FileOf(v)
  BY <1>2 DEF InInput, InQueue, FileOf
<1>7. MessagePlaced' /\ StageInv'
  <2>1. ~abandoned' => \A g \in Files : files'[g].queue # <<>> => files'[g].status = "waiting"
    BY <1>2, <1>3
  <2>2. QED
    BY <1>4, <2>1, IdleStep
<1>8. QueuesPlaced' /\ NotStored' /\ Effect
  BY <1>2, <1>4, <1>6, QuietStep
<1>9. InputPlaced'
  BY <1>2 DEF WhereInv, InputPlaced
<1> HIDE DEF w
<1>10. Accounted
  <2>1. \A v : Recorded(v) => Recorded(v)'
    BY <1>2, <1>5, <1>6 DEF Recorded
  <2>2. ASSUME NEW v \in InFlight, v \notin InFlight'
        PROVE  Recorded(v)'
    <3>1. v = w /\ v # 0
      BY <1>3, <1>6, <2>2, FlightIs, FlightIsNext
    <3>2. \E r \in errors' : v \in r.writes
      <4> DEFINE r == [subject |-> worker.name, writes |-> {w} \ {0}]
      <4>1. r \in errors' /\ v \in r.writes
        BY <1>5, <3>1
      <4>2. QED
        BY <4>1
    <3>3. QED
      BY <3>2 DEF Recorded
  <2>3. QED
    BY <2>1, <2>2 DEF Accounted
<1>11. QED
  BY <1>7, <1>8, <1>9, <1>10 DEF WhereInv

(* So every step of the worker keeps every write in its place, stores at most the
   text in its hands, and, while the writer is not abandoned, records its losses. *)
LEMMA WorkerIs ==
  ASSUME TypeOK, WhereInv, Worker
  PROVE  /\ WhereInv' /\ Effect
         /\ ~abandoned /\ ~open_failures => Accounted
         /\ open_failures => InFlight' = InFlight
<1>1. CASE TakeNamed \/ close_all_after_write \/ shutdown \/ closed_status \/ open_failures
  BY <1>1, TakeSteps
<1>2. CASE \E f \in Files, fc \in Control : \E lost : FileStep(f, fc, lost)
  <2>1. ~open_failures
    BY <1>2 DEF open_failures, Take, FileStep
  <2>2. QED
    BY <1>2, <2>1, FileStepIs
<1>3. CASE Publish \/ Reserve \/ (WriteSucceeds /\ ~abandoned)
  <2>1. ~open_failures
    BY <1>3 DEF Publish, Reserve, WriteSucceeds, open_failures, Take, Ended, IoStage, TypeOK
  <2>2. QED
    BY <1>3, <2>1, NearerSteps
<1>4. CASE ResolveRaises
  <2>1. ~open_failures
    BY <1>4 DEF ResolveRaises, Ended, open_failures, Take
  <2>2. QED
    BY <1>4, <2>1, RaiseStep
<1>5. CASE \/ Stop \/ (WriteSucceeds /\ abandoned) \/ GetTimesOut \/ CheckTimer \/ retry_waiting
           \/ WorkerEnds
  <2>1. open_failures => worker.at = "loop" /\ worker.active /\ ~abandoned /\ input_queue # <<>>
    BY DEF open_failures, Take
  <2>2. ~open_failures
    BY <1>5, <2>1 DEF Stop, WriteSucceeds, Ended, GetTimesOut, CheckTimer, retry_waiting, Retries,
       WorkerEnds
  <2>3. QED
    BY <1>5, <2>2, TurnSteps
<1>6. CASE \/ OpenSucceeds \/ OpenLocked \/ NeverOpens \/ FlushSucceeds
           \/ WriteFails \/ CloseSucceeds \/ CloseFails
  BY <1>2, <1>6, CallSteps
<1>7. CASE write \/ close_if_open \/ open_as_new \/ status
  BY <1>2, <1>7, NamedSteps
<1>8. CASE Visit
  BY <1>2, <1>8, VisitSteps
<1>9. QED
  BY <1>1, <1>3, <1>4, <1>5, <1>6, <1>7, <1>8 DEF Worker

----------------------------------------------------------------------------
(* What the steps of the script's thread do to the writes in flight. *)

(* A queue with one more command has the writes it had and the command's. *)
LEMMA SubmitIs ==
  ASSUME TypeOK, NEW c \in Command, input_queue' = Append(input_queue, c)
  PROVE  /\ DOMAIN input_queue = 1 .. Len(input_queue) /\ Len(input_queue) \in Nat
         /\ DOMAIN input_queue' = 1 .. Len(input_queue) + 1
         /\ \A i \in 1 .. Len(input_queue) : input_queue'[i] = input_queue[i]
         /\ input_queue'[Len(input_queue) + 1] = c
         /\ InInput' = InInput \cup ({c.write} \ {0})
<1> DEFINE q == input_queue
           N == Len(q)
           r == input_queue'
<1>1. /\ q \in Seq(Command) /\ N \in Nat /\ DOMAIN q = 1 .. N
      /\ r \in Seq(Command) /\ Len(r) = N + 1 /\ DOMAIN r = 1 .. N + 1
      /\ \A i \in 1 .. N : r[i] = q[i]
      /\ r[N + 1] = c
  BY AppendProperties, LenProperties DEF TypeOK
<1>2. InInput = {q[i].write : i \in DOMAIN q} \ {0}
  BY DEF InInput
<1>3. InInput' = {r[i].write : i \in DOMAIN r} \ {0}
  BY DEF InInput
<1> HIDE DEF q, N, r
<1>4. {r[i].write : i \in DOMAIN r} = {q[i].write : i \in DOMAIN q} \cup {c.write}
  BY <1>1
<1>5. InInput' = InInput \cup ({c.write} \ {0})
  BY <1>2, <1>3, <1>4
<1>6. QED
  BY <1>1, <1>5 DEF q, N, r

(* The writes in flight were all accepted. *)
LEMMA FlightAccepted ==
  ASSUME WhereInv
  PROVE  InFlight \subseteq DOMAIN dest
<1>1. InInput \subseteq DOMAIN dest
  BY DEF WhereInv, InputPlaced, InInput
<1>2. \A g \in Files : InQueue(g) \subseteq DOMAIN dest
  BY DEF WhereInv, QueuesPlaced, QueueOf, InQueue, Queued
<1>3. worker.message # 0 => worker.message \in DOMAIN dest
  BY DEF WhereInv, MessagePlaced
<1>4. QED
  BY <1>1, <1>2, <1>3, FlightIs

(* A step that moves no write. *)
LEMMA SamePlaces ==
  ASSUME WhereInv, UNCHANGED <<dest, worker, stored>>, abandoned => abandoned',
         \A g \in Files : /\ files'[g].queue = files[g].queue
                          /\ files'[g].status = files[g].status,
         worker \in WorkerState,
         InputPlaced', InInput' = InInput
  PROVE  WhereInv' /\ InFlight' = InFlight /\ LostWrites' = LostWrites
<1>1. /\ \A w : FileOf(w)' = FileOf(w)
      /\ \A g \in Files : InQueue(g)' = InQueue(g)
  BY DEF FileOf, InQueue, Queued
<1>2. InFlight' = InFlight
  <2>1. \A w : w \in InFlight' <=> w \in InFlight
    BY <1>1, FlightIs, FlightIsNext
  <2>2. QED
    BY <2>1 DEF InFlight
<1>3. QueuesPlaced'
  BY <1>1 DEF WhereInv, QueuesPlaced, QueueOf, Ascending
<1>4. MessagePlaced'
  <2>1. MessagePlaced
    BY DEF WhereInv
  <2>2. worker.at \in {"write", "flush"} => worker.name \in Files
    BY DEF WorkerState, IoStage
  <2>3. /\ FileOf(worker.message)' = FileOf(worker.message)
        /\ worker.at \in {"write", "flush"} => InQueue(worker.name)' = InQueue(worker.name)
    <3>1. InQueue(worker.name)' = Queued(files'[worker.name]) /\ InQueue(worker.name) = Queued(files[worker.name])
      BY DEF InQueue
    <3>2. \A g \in Files : Queued(files'[g]) = Queued(files[g])
      BY DEF Queued
    <3>3. QED
      BY <2>2, <3>1, <3>2 DEF FileOf
  <2>4. /\ worker'.message # 0 => /\ worker'.at \in {"resolve", "write", "flush"}
                                  /\ worker'.message \in DOMAIN dest'
                                  /\ \A v \in InInput' : worker'.message < v
        /\ worker'.at = "resolve" =>
             /\ worker'.message = worker'.command.write
             /\ worker'.message # 0 => /\ dest'[worker'.message] = worker'.name
                                       /\ \A f \in Files : \A w \in InQueue(f)' : w < worker'.message
    BY <1>1, <2>1 DEF MessagePlaced
  <2>5. worker'.at \in {"write", "flush"} =>
          /\ FileOf(worker.message)' = worker'.name
          /\ \A w \in InQueue(worker.name)' : worker'.message < w
    BY <2>1, <2>3 DEF MessagePlaced
  <2>6. QED
    BY <2>4, <2>5 DEF MessagePlaced
<1>5. NotStored'
  BY <1>2 DEF WhereInv, NotStored
<1>6. StageInv'
  <2>1. worker.at \in {"open", "write", "flush", "close"} => worker.name \in Files
    BY DEF WorkerState, IoStage
  <2>2. worker.left \subseteq Files
    BY DEF WorkerState, WorkerRecord, Stage
  <2>3. QED
    BY <2>1, <2>2 DEF WhereInv, StageInv, Retry
<1>7. QED
  BY <1>2, <1>3, <1>4, <1>5, <1>6 DEF WhereInv, LostWrites

(* A write that the script hands over comes after all that there are. *)
LEMMA AcceptStep ==
  ASSUME TypeOK, WhereInv, NEW n \in Names, filewriter_write(n)
  PROVE  /\ WhereInv' /\ LostWrites' = LostWrites
         /\ DOMAIN dest \subseteq DOMAIN dest' /\ \A w \in DOMAIN dest : FileOf(w)' = FileOf(w)
<1> DEFINE N == Len(dest)
           new == N + 1
           c == [cmd |-> "write", name |-> n, write |-> new]
<1>1. /\ N \in Nat /\ DOMAIN dest = 1 .. N /\ DOMAIN dest' = 1 .. N + 1
      /\ \A w \in 1 .. N : dest'[w] = dest[w]
      /\ dest'[new] = n
  BY AppendProperties, LenProperties DEF filewriter_write, TypeOK
<1>2. c \in Command /\ input_queue' = Append(input_queue, c)
  <2>1. new \in Write
    BY <1>1, FileWriterAssumption DEF filewriter_write, Write
  <2>2. QED
    BY <2>1 DEF filewriter_write, Submit, Command
<1>3. UNCHANGED <<files, worker, stored, abandoned>>
  BY DEF filewriter_write, callRest, fileVars
<1>4. c.write = new /\ c.name = n /\ new # 0
  BY <1>1
<1> HIDE DEF c, N, new
<1>5. /\ DOMAIN input_queue = 1 .. Len(input_queue) /\ Len(input_queue) \in Nat
      /\ DOMAIN input_queue' = 1 .. Len(input_queue) + 1
      /\ \A i \in 1 .. Len(input_queue) : input_queue'[i] = input_queue[i]
      /\ input_queue'[Len(input_queue) + 1] = c
      /\ InInput' = InInput \cup {new}
  BY <1>2, <1>4, SubmitIs
<1>6. \A w \in DOMAIN dest : /\ w \in DOMAIN dest' /\ w < new /\ w # new
                             /\ dest'[w] = dest[w] /\ FileOf(w)' = FileOf(w)
  <2>1. \A w \in DOMAIN dest : w \in DOMAIN dest' /\ w < new /\ w # new /\ dest'[w] = dest[w]
    BY <1>1 DEF new
  <2>2. QED
    BY <2>1 DEF FileOf
<1>7. \A g : InQueue(g)' = InQueue(g)
  BY <1>3 DEF InQueue
<1>8. InFlight \subseteq DOMAIN dest /\ InInput \subseteq InFlight
      /\ (\A g \in Files : InQueue(g) \subseteq InFlight)
      /\ (worker.message # 0 => worker.message \in InFlight)
  BY FlightAccepted, FlightIs
<1>9. InFlight' = InFlight \cup {new}
  <2>1. \A w : w \in InFlight' <=> w \in InFlight \cup {new}
    BY <1>3, <1>4, <1>5, <1>7, FlightIs, FlightIsNext
  <2>2. QED
    BY <2>1 DEF InFlight
<1>10. InputPlaced'
  <2> DEFINE r == input_queue'
             M == Len(input_queue)
  <2>1. /\ \A i \in 1 .. M : r[i].write # 0 => /\ r[i].write \in DOMAIN dest
                                              /\ dest[r[i].write] = r[i].name
        /\ \A i, j \in 1 .. M :
             i < j /\ r[i].write # 0 /\ r[j].write # 0 => r[i].write < r[j].write
    BY <1>5 DEF WhereInv, InputPlaced
  <2>2. M \in Nat /\ DOMAIN r = 1 .. M + 1 /\ r[M + 1].write = new /\ r[M + 1].name = n
    BY <1>4, <1>5
  <2>3. new \in DOMAIN dest' /\ dest'[new] = n
    BY <1>1 DEF new
  <2> HIDE DEF r, M
  <2>4. \A i \in DOMAIN r : i \in 1 .. M \/ i = M + 1
    BY <2>2
  <2>5. \A i \in DOMAIN r : r[i].write # 0 => r[i].write \in DOMAIN dest' /\ dest'[r[i].write] = r[i].name
    BY <1>6, <2>1, <2>2, <2>3, <2>4
  <2>6. \A i, j \in DOMAIN r :
          i < j /\ r[i].write # 0 /\ r[j].write # 0 => r[i].write < r[j].write
    <3> SUFFICES ASSUME NEW i \in DOMAIN r, NEW j \in DOMAIN r, i < j,
                        r[i].write # 0, r[j].write # 0
                 PROVE  r[i].write < r[j].write
      OBVIOUS
    <3>1. i \in 1 .. M
      BY <2>2, <2>4
    <3>2. QED
      BY <1>6, <2>1, <2>2, <2>4, <3>1
  <2>7. QED
    BY <2>5, <2>6 DEF InputPlaced, r
<1>11. QueuesPlaced'
  <2> SUFFICES ASSUME NEW g \in Files PROVE QueueOf(g, files[g].queue)'
    BY DEF QueuesPlaced
  <2>1. /\ Ascending(files[g].queue)
        /\ \A w \in InQueue(g) : w \in DOMAIN dest /\ FileOf(w) = g /\ \A v \in InInput : w < v
    BY DEF WhereInv, QueuesPlaced, QueueOf, InQueue, Queued
  <2>2. \A w \in InQueue(g)' : w \in DOMAIN dest' /\ FileOf(w)' = g /\ \A v \in InInput' : w < v
    BY <1>5, <1>6, <1>7, <2>1
  <2>3. InQueue(g)' = {files'[g].queue[i] : i \in DOMAIN files'[g].queue}
    BY DEF InQueue, Queued
  <2>4. Ascending(files[g].queue)'
    BY <1>3, <2>1 DEF Ascending
  <2>5. QED
    BY <2>2, <2>3, <2>4 DEF QueueOf
<1>12. MessagePlaced'
  <2>1. MessagePlaced
    BY DEF WhereInv
  <2>2. worker.message # 0 => /\ worker.message \in DOMAIN dest
                              /\ FileOf(worker.message)' = FileOf(worker.message)
                              /\ \A v \in InInput' : worker.message < v
    BY <1>3, <1>5, <1>6, <2>1 DEF MessagePlaced, FileOf
  <2>3. worker.at \in {"write", "flush"} => worker.message # 0
    BY TypingIs DEF Typing, WorkerState, Write
  <2>4. InQueue(worker.name)' = InQueue(worker.name)
    BY <1>3 DEF InQueue
  <2>5. /\ worker'.message # 0 => /\ worker'.at \in {"resolve", "write", "flush"}
                                  /\ worker'.message \in DOMAIN dest'
                                  /\ \A v \in InInput' : worker'.message < v
        /\ worker'.at = "resolve" =>
             /\ worker'.message = worker'.command.write
             /\ worker'.message # 0 => /\ dest'[worker'.message] = worker'.name
                                       /\ \A f \in Files : \A w \in InQueue(f)' : w < worker'.message
    BY <1>3, <1>6, <1>7, <2>1, <2>2 DEF MessagePlaced
  <2>6. worker'.at \in {"write", "flush"} =>
          /\ FileOf(worker.message)' = worker'.name
          /\ \A w \in InQueue(worker.name)' : worker'.message < w
    BY <1>3, <2>1, <2>2, <2>3, <2>4 DEF MessagePlaced
  <2>7. QED
    BY <2>5, <2>6 DEF MessagePlaced
<1>13. NotStored'
  BY <1>3, <1>6, <1>9 DEF WhereInv, NotStored
<1>14. StageInv'
  BY <1>3 DEF WhereInv, StageInv, Retry
<1>15. LostWrites' = LostWrites
  <2>1. DOMAIN dest' = DOMAIN dest \cup {new} /\ stored' = stored
    BY <1>1, <1>3 DEF new
  <2>2. new \notin DOMAIN dest
    BY <1>6
  <2>3. QED
    BY <1>9, <2>1, <2>2 DEF LostWrites
<1>16. QED
  BY <1>6, <1>10, <1>11, <1>12, <1>13, <1>14, <1>15 DEF WhereInv

(* A command that is no write. *)
LEMMA AskPlaced ==
  ASSUME TypeOK, InputPlaced, NEW c \in Command, c.write = 0, dest' = dest,
         input_queue' = Append(input_queue, c)
  PROVE  InputPlaced' /\ InInput' = InInput
<1> DEFINE q == input_queue
           r == input_queue'
           M == Len(q)
<1>1. /\ DOMAIN q = 1 .. M /\ M \in Nat /\ DOMAIN r = 1 .. M + 1
      /\ \A i \in 1 .. M : r[i] = q[i]
      /\ r[M + 1] = c /\ InInput' = InInput \cup ({c.write} \ {0})
  BY SubmitIs
<1>2. /\ \A i \in 1 .. M : r[i].write # 0 => /\ r[i].write \in DOMAIN dest
                                            /\ dest[r[i].write] = r[i].name
      /\ \A i, j \in 1 .. M :
           i < j /\ r[i].write # 0 /\ r[j].write # 0 => r[i].write < r[j].write
  BY <1>1 DEF InputPlaced
<1> HIDE DEF q, r, M
<1>3. \A i \in DOMAIN r : r[i].write # 0 => i \in 1 .. M
  BY <1>1
<1>4. InputPlaced'
  BY <1>2, <1>3 DEF InputPlaced, r
<1>5. QED
  BY <1>1, <1>4

(* The script's other steps, and time, move no write. *)
Elsewhere ==
  \/ \E n \in Names : filewriter_open_as_new(n) \/ filewriter_close(n)
  \/ filewriter_close_all_after_write \/ filewriter_end
  \/ Waiting \/ ClockExpires \/ Interrupt \/ UNCHANGED vars

LEMMA ElsewhereIs ==
  ASSUME TypeOK, WhereInv, Elsewhere
  PROVE  /\ WhereInv' /\ InFlight' = InFlight /\ LostWrites' = LostWrites
         /\ UNCHANGED <<dest, stored, errors, worker>> /\ (abandoned => abandoned')
         /\ InInput' = InInput
         /\ \A g \in Files : /\ files'[g].queue = files[g].queue
                             /\ files'[g].status = files[g].status
                             /\ files'[g].dropped = files[g].dropped
                             /\ files'[g].abandoned = files[g].abandoned
<1>1. Typing
  BY TypingIs
<1>2. /\ UNCHANGED <<dest, worker, stored, errors>> /\ (abandoned => abandoned')
      /\ \/ files' = files
         \/ \E f \in Files : files' = [files EXCEPT ![f].clock = "expired"]
  <2>1. CASE Waiting \/ Interrupt
    BY <2>1 DEF Waiting, Ask, TakeStatus, TakeFailures, TimesOut, NotesCall, Joined, Interrupt,
       Abandon, callRest, fileVars
  <2>2. CASE \/ \E n \in Names : filewriter_open_as_new(n) \/ filewriter_close(n)
             \/ filewriter_close_all_after_write \/ filewriter_end
    BY <2>2 DEF filewriter_open_as_new, filewriter_close, filewriter_close_all_after_write,
       filewriter_end, callRest, fileVars
  <2>3. CASE ClockExpires
    BY <2>3 DEF ClockExpires, loopRest
  <2>4. CASE UNCHANGED vars
    BY <2>4 DEF vars, fileVars
  <2>5. QED
    BY <2>1, <2>2, <2>3, <2>4 DEF Elsewhere
<1>3. \A g \in Files : /\ files'[g].queue = files[g].queue
                       /\ files'[g].status = files[g].status
                       /\ files'[g].dropped = files[g].dropped
                       /\ files'[g].abandoned = files[g].abandoned
  <2>1. \A f, g \in Files :
          LET c == [files EXCEPT ![f].clock = "expired"][g] IN
            /\ c.queue = files[g].queue /\ c.status = files[g].status
            /\ c.dropped = files[g].dropped /\ c.abandoned = files[g].abandoned
    BY <1>1 DEF Typing, Control, OutputFileType
  <2>2. ASSUME NEW f \in Files, files' = [files EXCEPT ![f].clock = "expired"], NEW g \in Files
        PROVE  /\ files'[g].queue = files[g].queue
               /\ files'[g].status = files[g].status
               /\ files'[g].dropped = files[g].dropped
               /\ files'[g].abandoned = files[g].abandoned
    BY <2>1, <2>2
  <2>3. QED
    BY <1>2, <2>2
<1>4. \/ input_queue' = input_queue
      \/ \E c \in Command : c.write = 0 /\ input_queue' = Append(input_queue, c)
  <2>1. ASSUME NEW cmd, NEW n, Submit(cmd, n, 0),
               \/ cmd \in Named \ {"write"} /\ n \in Names
               \/ cmd \in Global /\ n = None
        PROVE  \E c \in Command : c.write = 0 /\ input_queue' = Append(input_queue, c)
    <3> DEFINE c == [cmd |-> cmd, name |-> n, write |-> 0]
    <3>1. c \in Command /\ c.write = 0 /\ input_queue' = Append(input_queue, c)
      BY <2>1 DEF Command, Submit
    <3>2. QED
      BY <3>1
  <2>2. ASSUME NEW n \in Names, filewriter_open_as_new(n) \/ filewriter_close(n)
        PROVE  \E c \in Command : c.write = 0 /\ input_queue' = Append(input_queue, c)
    BY <2>1, <2>2 DEF filewriter_open_as_new, filewriter_close, Named
  <2>3. CASE filewriter_close_all_after_write \/ filewriter_end
    BY <2>1, <2>3 DEF filewriter_close_all_after_write, filewriter_end, Global
  <2>4. CASE Ask
    <3>1. caller.op = "close" => caller.name \in Names
      BY DEF TypeOK, CallerState
    <3>2. QED
      BY <2>1, <2>4, <3>1 DEF Ask, Named, Global
  <2>5. CASE \/ TakeStatus \/ TakeFailures \/ TimesOut \/ Abandon \/ Joined \/ Interrupt
             \/ ClockExpires \/ UNCHANGED vars
    BY <2>5 DEF TakeStatus, TakeFailures, TimesOut, Abandon, Joined, Interrupt, ClockExpires, vars
  <2>6. QED
    BY <2>2, <2>3, <2>4, <2>5 DEF Elsewhere, Waiting
<1>5. InputPlaced' /\ InInput' = InInput
  <2>1. input_queue' = input_queue => InputPlaced' /\ InInput' = InInput
    BY <1>2 DEF WhereInv, InputPlaced, InInput
  <2>2. QED
    BY <1>2, <1>4, <2>1, AskPlaced DEF WhereInv
<1>6. worker \in WorkerState
  BY <1>1 DEF Typing
<1>7. WhereInv' /\ InFlight' = InFlight /\ LostWrites' = LostWrites
  BY <1>2, <1>3, <1>5, <1>6, SamePlaces
<1>8. QED
  BY <1>2, <1>3, <1>5, <1>7

(* The disjuncts of a step, by what they do to the writes. *)
LEMMA StepIs ==
  ASSUME [Next]_vars
  PROVE  Worker \/ (\E n \in Names : filewriter_write(n)) \/ Elsewhere
BY DEF Next, Calls, Over, Elsewhere

----------------------------------------------------------------------------
(* Every write is settled once and in order, whatever the script is told. *)

ToldAreLost == told \subseteq LostWrites

DataInv == TypeOK /\ WhereInv /\ ToldAreLost

LEMMA UnsettledIs ==
  ASSUME WhereInv
  PROVE  Promise!Unsettled = InFlight
<1>1. InFlight \subseteq DOMAIN dest /\ InFlight \cap stored = {}
  BY FlightAccepted DEF WhereInv, NotStored
<1>2. Promise!Unsettled = DOMAIN dest \ (stored \cup LostWrites)
  BY DEF Promise!Unsettled
<1>3. QED
  BY <1>1, <1>2 DEF LostWrites

(* The text in the worker's hands is the first in flight to its file. *)
LEMMA MessageIsFirst ==
  ASSUME TypeOK, WhereInv, worker.at \in {"write", "flush"}
  PROVE  /\ worker.message \in InFlight
         /\ \A v \in InFlight : v < worker.message => FileOf(v) # FileOf(worker.message)
<1> DEFINE m == worker.message
<1>1. m \in Write /\ m \in Nat /\ m # 0 /\ worker.name \in Files
  BY TypingIs DEF Typing, WorkerState, Write, IoStage
<1>2. m \in InFlight
  BY <1>1, FlightIs
<1>3. /\ FileOf(m) = worker.name
      /\ \A v \in InInput : m < v
      /\ \A v \in InQueue(worker.name) : m < v
  BY <1>1 DEF WhereInv, MessagePlaced
<1>4. \A g \in Files : \A v \in InQueue(g) : FileOf(v) = g
  BY DEF WhereInv, QueuesPlaced, QueueOf, InQueue, Queued
<1>5. InFlight \subseteq Nat
  BY FlightAccepted, LenProperties DEF TypeOK
<1>6. ASSUME NEW v \in InFlight, v < m
      PROVE  FileOf(v) # FileOf(m)
  <2>1. v \in Nat /\ ~(m < v) /\ v # m
    BY <1>1, <1>5, <1>6
  <2>2. PICK g \in Files : v \in InQueue(g)
    BY <1>3, <2>1, FlightIs
  <2>3. QED
    BY <1>3, <1>4, <2>1, <2>2
<1>7. QED
  BY <1>2, <1>6

(* A step of the worker stores one write, or loses some, or both, or neither. *)
LEMMA WorkerSettles ==
  ASSUME TypeOK, WhereInv, Effect
  PROVE  /\ Promise!Lose \/ Promise!StoreAndLose
         /\ LostWrites' = LostWrites \cup ((InFlight \ InFlight') \ stored')
<1> DEFINE m == worker.message
           L == (InFlight \ InFlight') \ stored'
<1>1. /\ UNCHANGED <<dest, told, answer>> /\ InFlight' \subseteq InFlight
      /\ \/ stored' = stored
         \/ /\ worker.at \in {"write", "flush"}
            /\ stored' = stored \cup {m} /\ m \notin InFlight'
  BY DEF Effect
<1>2. InFlight \subseteq DOMAIN dest /\ InFlight \cap stored = {}
  BY FlightAccepted DEF WhereInv, NotStored
<1>3. worker.at \in {"write", "flush"} =>
        m \in InFlight /\ \A v \in InFlight : v < m => FileOf(v) # FileOf(m)
  BY MessageIsFirst
<1>4. LostWrites = (DOMAIN dest \ stored) \ InFlight
      /\ LostWrites' = (DOMAIN dest \ stored') \ InFlight'
  BY <1>1 DEF LostWrites
<1> HIDE DEF m
<1>5. LostWrites' = LostWrites \cup L
  BY <1>1, <1>2, <1>3, <1>4
<1>6. Promise!Unsettled = InFlight
  BY UnsettledIs
<1>7. CASE stored' = stored
  <2>1. L \in SUBSET Promise!Unsettled
    BY <1>6
  <2>2. Promise!Lose
    BY <1>1, <1>5, <1>7, <2>1 DEF Promise!Lose
  <2>3. QED
    BY <1>5, <2>2
<1>8. CASE worker.at \in {"write", "flush"} /\ stored' = stored \cup {m}
  <2>1. m \in Promise!Unsettled /\ L \in SUBSET Promise!Unsettled /\ m \notin L
    BY <1>3, <1>6, <1>8
  <2>2. \A v \in Promise!Unsettled : v < m => Resolve[dest[v]] # Resolve[dest[m]]
    BY <1>3, <1>6, <1>8 DEF FileOf
  <2> HIDE DEF L
  <2>3. Promise!StoreAndLose
    BY <1>1, <1>5, <1>8, <2>1, <2>2 DEF Promise!StoreAndLose
  <2>4. QED
    BY <1>5, <2>3 DEF L
<1>9. QED
  BY <1>1, <1>7, <1>8

(* What each step settles, and that what an error has told of is lost. *)
LEMMA StepSettles ==
  ASSUME DataInv, [Next]_vars
  PROVE  /\ DataInv'
         /\ \/ Promise!Accept \/ Promise!Lose \/ Promise!StoreAndLose
            \/ UNCHANGED <<dest, stored, LostWrites>>
<1>1. TypeOK /\ WhereInv /\ ToldAreLost /\ TypeOK'
  BY NextTyped DEF DataInv
<1>2. CASE Worker
  <2>1. WhereInv' /\ Effect
    BY <1>1, <1>2, WorkerIs
  <2>2. (Promise!Lose \/ Promise!StoreAndLose) /\ LostWrites \subseteq LostWrites'
    BY <1>1, <2>1, WorkerSettles
  <2>3. ToldAreLost'
    BY <1>1, <2>1, <2>2 DEF ToldAreLost, Effect
  <2>4. QED
    BY <1>1, <2>1, <2>2, <2>3 DEF DataInv
<1>3. ASSUME NEW n \in Names, filewriter_write(n)
      PROVE  Promise!Accept /\ WhereInv' /\ ToldAreLost'
  <2>1. WhereInv' /\ LostWrites' = LostWrites
    BY <1>1, <1>3, AcceptStep
  <2>2. /\ Len(dest) < MaxWrites /\ dest' = Append(dest, n) /\ answer' = "none"
        /\ stored' = stored /\ told' = told
    BY <1>3 DEF filewriter_write, callRest, fileVars
  <2>3. Promise!Accept
    BY <2>1, <2>2 DEF Promise!Accept
  <2>4. QED
    BY <1>1, <2>1, <2>2, <2>3 DEF ToldAreLost
<1>4. CASE Elsewhere
  <2>1. WhereInv' /\ LostWrites' = LostWrites /\ UNCHANGED <<dest, stored>>
    BY <1>1, <1>4, ElsewhereIs
  <2>2. told' \subseteq told \cup LostWrites
    BY <1>4 DEF Elsewhere, filewriter_open_as_new, filewriter_close, filewriter_close_all_after_write,
       filewriter_end, Waiting, Ask, TakeStatus, TakeFailures, TimesOut, Abandon, Joined, Interrupt,
       ClockExpires, loopRest, vars
  <2>3. QED
    BY <1>1, <2>1, <2>2 DEF DataInv, ToldAreLost
<1>5. QED
  BY <1>1, <1>2, <1>3, <1>4, StepIs DEF DataInv

LEMMA InitPlaced ==
  ASSUME Init
  PROVE  DataInv /\ InFlight = {} /\ LostWrites = {}
<1>1. /\ input_queue = <<>> /\ dest = <<>> /\ stored = {} /\ told = {}
      /\ worker.message = 0 /\ worker.at = "loop" /\ worker.left = {}
      /\ \A g \in Files : files[g].queue = <<>>
  BY DEF Init, Absent
<1>2. InInput = {} /\ \A g \in Files : InQueue(g) = {}
  BY <1>1 DEF InInput, InQueue, Queued
<1>3. InFlight = {}
  BY <1>1, <1>2, FlightIs
<1>4. LostWrites = {}
  BY <1>1, <1>3 DEF LostWrites
<1>5. WhereInv
  BY <1>1, <1>2, <1>3
  DEF WhereInv, InputPlaced, QueuesPlaced, QueueOf, Ascending, MessagePlaced, NotStored, StageInv
<1>6. QED
  BY <1>1, <1>3, <1>4, <1>5, InitTyped DEF DataInv, ToldAreLost

(* Each step accepts a write, or settles writes: it stores one, the first in flight
   to its file, or loses some, or both; what is stored stays so, and what is lost. *)
SettlesInOrder ==
  [][\/ Promise!Accept \/ Promise!Lose \/ Promise!StoreAndLose]_<<dest, stored, LostWrites>>

(* Whatever fails and whenever the writer is abandoned or a wait interrupted, every
   write handed to it is stored once, in the order of its file's writes, or lost
   for good, and what an error has told of is lost (submit, write_queue, discard). *)
THEOREM WritesAreSettledInOrder == Spec => SettlesInOrder /\ []ToldAreLost
<1>1. Init => DataInv
  BY InitPlaced
<1>2. DataInv /\ [Next]_vars => DataInv'
  BY StepSettles
<1>3. DataInv /\ [Next]_vars =>
        [\/ Promise!Accept \/ Promise!Lose \/ Promise!StoreAndLose]_<<dest, stored, LostWrites>>
  BY StepSettles
<1>4. DataInv => ToldAreLost
  BY DEF DataInv
<1>5. QED
  BY <1>1, <1>2, <1>3, <1>4, PTL DEF Spec, SettlesInOrder

----------------------------------------------------------------------------
(* What the script's thread asks, and what it is answered, as long as none of its
   waits is interrupted: the reply to its last question, and to no other. *)

Asks(c) == c.cmd \in {"status", "closed_status", "open_failures"}

(* The reply that the script's thread waits for is that of cmd. *)
Expects(cmd) ==
  \/ caller.op = "close" /\ caller.at = "await" /\ cmd = "status"
  \/ caller.op = "flush" /\ caller.at = "await" /\ cmd = "closed_status"
  \/ caller.op = "flush" /\ caller.at = "gather" /\ cmd = "open_failures"

Resolving == worker.at = "resolve" /\ worker.command.cmd = "status"

CallerInv ==
  /\ abandoned => caller.at = "idle"
  /\ caller.at \in {"ask", "await"} => caller.op \in {"close", "flush"}
  /\ caller.at \in {"collect", "gather"} => caller.op = "flush"
  /\ caller.at = "join" => caller.op = "end"
  /\ caller.at = "blame" => caller.op \in {"close", "flush", "end"}

(* No abandonment has begun. *)
Serving == ~abandoned /\ caller.at # "blame"

(* Nothing is asked. *)
NoQuestion ==
  /\ \A i \in DOMAIN input_queue : ~Asks(input_queue[i])
  /\ ~Resolving /\ return_msg_queue = <<>>

(* A question is queued, and last; or its path is being resolved; or it has its
   reply. *)
Queues ==
  /\ \A i \in DOMAIN input_queue :
       Asks(input_queue[i]) => i = Len(input_queue) /\ Expects(input_queue[i].cmd)
  /\ ~Resolving /\ return_msg_queue = <<>>

Resolves == Resolving /\ Expects("status") /\ input_queue = <<>> /\ return_msg_queue = <<>>

Replied ==
  /\ input_queue = <<>> /\ ~Resolving
  /\ return_msg_queue # <<>> /\ Tail(return_msg_queue) = <<>>
  /\ \/ Received.status = "none" /\ Expects("open_failures")
     \/ Received.status # "none" /\ (Expects("status") \/ Expects("closed_status"))

AskInv == Serving => Queues \/ Resolves \/ Replied

LEMMA CallerStep ==
  ASSUME TypeOK, CallerInv, Elsewhere
  PROVE  CallerInv'
<1>1. \A a : LET c == [caller EXCEPT !.at = a] IN c.at = a /\ c.op = caller.op
  BY DEF TypeOK, CallerState
<1>2. CASE \E n \in Names : filewriter_open_as_new(n) \/ filewriter_close(n)
  BY <1>2 DEF filewriter_open_as_new, filewriter_close, Active, Waits, CallerInv
<1>3. CASE filewriter_close_all_after_write \/ filewriter_end
  BY <1>3 DEF filewriter_close_all_after_write, filewriter_end, Active, Waits, CallerInv
<1>4. CASE Ask
  <2>1. /\ caller.at \in {"ask", "collect"} /\ ~abandoned /\ abandoned' = abandoned
        /\ caller' = [caller EXCEPT !.at = IF caller.at = "ask" THEN "await" ELSE "gather"]
    BY <1>4 DEF Ask, CallerInv
  <2>2. /\ caller'.op = caller.op /\ caller'.at = IF caller.at = "ask" THEN "await" ELSE "gather"
    BY <1>1, <2>1
  <2>3. QED
    BY <2>1, <2>2 DEF CallerInv
<1>5. CASE TakeStatus
  <2>1. CASE NotesCall
    <3>1. caller'.at = "blame" /\ caller'.op = caller.op
      BY <1>1, <2>1 DEF NotesCall
    <3>2. caller.op \in {"close", "flush"} /\ ~abandoned /\ abandoned' = abandoned
      BY <1>5, <2>1 DEF NotesCall, TakeStatus, CallerInv
    <3>3. QED
      BY <3>1, <3>2 DEF CallerInv
  <2>2. CASE /\ abandoned' = abandoned
             /\ \/ caller' = [caller EXCEPT !.at = "ask"]
                \/ caller.op = "flush" /\ caller' = [caller EXCEPT !.at = "collect"]
                \/ Returns("released")
    <3>1. caller.at = "await" /\ ~abandoned
      BY <1>5 DEF TakeStatus, CallerInv
    <3>2. caller.op \in {"close", "flush"}
      BY <3>1 DEF CallerInv
    <3>3. CASE caller' = [caller EXCEPT !.at = "ask"]
      <4>1. caller'.at = "ask" /\ caller'.op = caller.op
        BY <1>1, <3>3
      <4>2. QED
        BY <2>2, <3>1, <3>2, <4>1 DEF CallerInv
    <3>4. CASE caller.op = "flush" /\ caller' = [caller EXCEPT !.at = "collect"]
      <4>1. caller'.at = "collect" /\ caller'.op = "flush"
        BY <1>1, <3>4
      <4>2. QED
        BY <2>2, <3>1, <4>1 DEF CallerInv
    <3>5. CASE Returns("released")
      BY <3>5 DEF CallerInv, Returns, Waits
    <3>6. QED
      BY <2>2, <3>3, <3>4, <3>5
  <2>3. QED
    BY <1>5, <2>1, <2>2 DEF TakeStatus
<1>6. CASE TakeFailures \/ Joined \/ Interrupt
  BY <1>6 DEF TakeFailures, Joined, Interrupt, Returns, Waits, CallerInv
<1>7. CASE TimesOut
  <2>1. caller'.at = "blame" /\ caller'.op = caller.op
    BY <1>1, <1>7 DEF TimesOut, NotesCall
  <2>2. caller.op \in {"close", "flush", "end"} /\ ~abandoned /\ abandoned' = abandoned
    BY <1>7 DEF TimesOut, NotesCall, CallerInv
  <2>3. QED
    BY <2>1, <2>2 DEF CallerInv
<1>8. CASE Abandon
  BY <1>8 DEF Abandon, Waits, CallerInv
<1>9. CASE ClockExpires \/ UNCHANGED vars
  BY <1>9 DEF ClockExpires, loopRest, vars, callVars, CallerInv
<1>10. QED
  BY <1>2, <1>3, <1>4, <1>5, <1>6, <1>7, <1>8, <1>9 DEF Elsewhere, Waiting

(* Where no abandonment has begun after a step, none had before it. *)
LEMMA ServingBefore ==
  ASSUME TypeOK, CallerInv, Elsewhere, ~Interrupt, Serving'
  PROVE  Serving
<1>1. abandoned => abandoned'
  BY DEF Elsewhere, Waiting, filewriter_open_as_new, filewriter_close, filewriter_close_all_after_write,
     filewriter_end, Ask, TakeStatus, NotesCall, TakeFailures, TimesOut, Abandon, Joined, ClockExpires,
     loopRest, vars
<1>2. ASSUME caller.at = "blame" PROVE FALSE
  <2>1. caller.op \in {"close", "flush", "end"}
    BY <1>2 DEF CallerInv
  <2>2. Abandon \/ ClockExpires \/ UNCHANGED vars
    BY <1>2, <2>1
    DEF Elsewhere, Waiting, filewriter_open_as_new, filewriter_close, Active,
        filewriter_close_all_after_write, filewriter_end, Ask, TakeStatus, TakeFailures, TimesOut, Joined
  <2>3. QED
    BY <1>2, <2>2 DEF Abandon, ClockExpires, loopRest, callVars, vars, Serving
<1>3. QED
  BY <1>1, <1>2 DEF Serving

(* Outside its waits for a reply, the script's thread has asked nothing. *)
LEMMA NotAsked ==
  ASSUME CallerInv, AskInv, Serving, caller.at \notin {"await", "gather"}
  PROVE  NoQuestion
BY DEF AskInv, Queues, Resolves, Replied, Expects, NoQuestion

LEMMA IdleHasNotAsked ==
  ASSUME CallerInv, AskInv, Serving, caller.op \notin {"close", "flush"}
  PROVE  NoQuestion /\ caller.at \notin {"await", "gather"}
BY NotAsked DEF CallerInv

LEMMA NoQuestionIsFine ==
  ASSUME NoQuestion'
  PROVE  AskInv'
BY DEF NoQuestion, AskInv, Queues

(* A command that asks nothing. *)
LEMMA StillNotAsked ==
  ASSUME TypeOK, NoQuestion, NEW c \in Command, ~Asks(c),
         input_queue' = Append(input_queue, c), UNCHANGED <<worker, return_msg_queue>>
  PROVE  NoQuestion'
<1>1. /\ DOMAIN input_queue = 1 .. Len(input_queue) /\ Len(input_queue) \in Nat
      /\ DOMAIN input_queue' = 1 .. Len(input_queue) + 1
      /\ \A i \in 1 .. Len(input_queue) : input_queue'[i] = input_queue[i]
      /\ input_queue'[Len(input_queue) + 1] = c
  BY SubmitIs
<1>2. \A i \in DOMAIN input_queue' : i \in 1 .. Len(input_queue) \/ i = Len(input_queue) + 1
  BY <1>1
<1>3. \A i \in DOMAIN input_queue' : ~Asks(input_queue'[i])
  BY <1>1, <1>2 DEF NoQuestion
<1>4. QED
  BY <1>3 DEF NoQuestion, Resolving, Asks

LEMMA ElsewhereAsks ==
  ASSUME TypeOK, CallerInv, AskInv, Elsewhere, ~Interrupt
  PROVE  AskInv'
<1>1. UNCHANGED worker
  BY DEF Elsewhere, Waiting, filewriter_open_as_new, filewriter_close, filewriter_close_all_after_write,
     filewriter_end, Ask, TakeStatus, TakeFailures, TimesOut, Abandon, Joined, ClockExpires, callRest,
     vars
<1>2. ASSUME NEW cmd, NEW n, Submit(cmd, n, 0), caller.op = "idle", ~abandoned,
             \/ cmd \in {"open_as_new", "close_if_open"} /\ n \in Names
             \/ cmd \in {"close_all_after_write", "shutdown"} /\ n = None,
             UNCHANGED return_msg_queue
      PROVE  AskInv'
  <2> DEFINE c == [cmd |-> cmd, name |-> n, write |-> 0]
  <2>1. c \in Command /\ ~Asks(c) /\ input_queue' = Append(input_queue, c)
    BY <1>2 DEF Command, Named, Global, Asks, Submit
  <2>2. NoQuestion
    BY <1>2, IdleHasNotAsked DEF CallerInv, Serving
  <2> HIDE DEF c
  <2>3. NoQuestion'
    BY <1>1, <1>2, <2>1, <2>2, StillNotAsked
  <2>4. QED
    BY <2>3, NoQuestionIsFine
<1>3. CASE \E n \in Names : filewriter_open_as_new(n) \/ filewriter_close(n)
  BY <1>2, <1>3 DEF filewriter_open_as_new, filewriter_close, Active
<1>4. CASE filewriter_close_all_after_write
  BY <1>2, <1>4 DEF filewriter_close_all_after_write, Active
<1>5. CASE filewriter_end
  <2>1. CASE abandoned
    BY <1>5, <2>1 DEF filewriter_end, AskInv, Serving
  <2>2. CASE ~abandoned
    BY <1>2, <1>5, <2>2 DEF filewriter_end
  <2>3. QED
    BY <2>1, <2>2
<1>6. CASE Ask
  <2>1. caller.at \in {"ask", "collect"} /\ ~abandoned /\ UNCHANGED return_msg_queue
    BY <1>6 DEF Ask, CallerInv
  <2>2. NoQuestion
    BY <2>1, NotAsked DEF Serving
  <2>3. PICK c \in Command :
          /\ input_queue' = Append(input_queue, c)
          /\ \/ caller.at = "ask" /\ caller.op = "close" /\ c.cmd = "status"
             \/ caller.at = "ask" /\ caller.op = "flush" /\ c.cmd = "closed_status"
             \/ caller.at = "collect" /\ c.cmd = "open_failures"
    <3>1. ASSUME NEW cmd, NEW n, (cmd \in Named \ {"write"} /\ n \in Names) \/ (cmd \in Global /\ n = None)
          PROVE  /\ [cmd |-> cmd, name |-> n, write |-> 0] \in Command
                 /\ [cmd |-> cmd, name |-> n, write |-> 0].cmd = cmd
      BY <3>1 DEF Command
    <3>2. caller.op = "close" => caller.name \in Names
      BY DEF TypeOK, CallerState
    <3>3. CASE caller.at = "ask" /\ caller.op = "close" /\ Submit("status", caller.name, 0)
      BY <3>1, <3>2, <3>3 DEF Submit, Named
    <3>4. CASE caller.at = "ask" /\ caller.op = "flush" /\ Submit("closed_status", None, 0)
      BY <3>1, <3>4 DEF Submit, Global
    <3>5. CASE caller.at = "collect" /\ Submit("open_failures", None, 0)
      BY <3>1, <3>5 DEF Submit, Global
    <3>6. QED
      BY <1>6, <3>3, <3>4, <3>5 DEF Ask
  <2>4. caller'.op = caller.op /\ caller'.at = IF caller.at = "ask" THEN "await" ELSE "gather"
    <3>1. caller' = [caller EXCEPT !.at = IF caller.at = "ask" THEN "await" ELSE "gather"]
      BY <1>6 DEF Ask
    <3>2. QED
      BY <3>1 DEF TypeOK, CallerState
  <2>5. Expects(c.cmd)'
    BY <2>3, <2>4 DEF Expects, CallerInv
  <2>6. /\ DOMAIN input_queue' = 1 .. Len(input_queue) + 1 /\ Len(input_queue) \in Nat
        /\ DOMAIN input_queue = 1 .. Len(input_queue)
        /\ \A i \in 1 .. Len(input_queue) : input_queue'[i] = input_queue[i]
        /\ input_queue'[Len(input_queue) + 1] = c
    BY <2>3, SubmitIs
  <2>7. Len(input_queue') = Len(input_queue) + 1
    BY <2>3, AppendProperties DEF TypeOK
  <2>8. \A i \in DOMAIN input_queue' :
          Asks(input_queue'[i]) => i = Len(input_queue') /\ input_queue'[i] = c
    <3>1. \A i \in DOMAIN input_queue' : i \in 1 .. Len(input_queue) \/ i = Len(input_queue) + 1
      BY <2>6
    <3>2. QED
      BY <2>2, <2>6, <2>7, <3>1 DEF NoQuestion
  <2>9. \A i \in DOMAIN input_queue' : Asks(input_queue'[i]) => Expects(input_queue[i].cmd)'
    <3> DEFINE d == c.cmd
    <3>1. \A i \in DOMAIN input_queue' : Asks(input_queue'[i]) => input_queue'[i].cmd = d
      BY <2>8
    <3>2. Expects(d)'
      BY <2>5
    <3> HIDE DEF d
    <3>3. QED
      BY <3>1, <3>2 DEF Expects
  <2>10. Queues'
    BY <1>1, <2>1, <2>2, <2>8, <2>9 DEF Queues, NoQuestion, Resolving, Asks
  <2>11. QED
    BY <2>10 DEF AskInv
<1>7. CASE TakeStatus \/ TakeFailures
  <2>1. /\ return_msg_queue # <<>> /\ return_msg_queue' = Tail(return_msg_queue)
        /\ input_queue' = input_queue /\ Serving
    BY <1>7 DEF TakeStatus, TakeFailures, CallerInv, Serving
  <2>2. input_queue = <<>> /\ ~Resolving /\ Tail(return_msg_queue) = <<>>
    BY <2>1 DEF AskInv, Queues, Resolves, Replied
  <2>3. NoQuestion'
    BY <1>1, <2>1, <2>2 DEF NoQuestion, Resolving
  <2>4. QED
    BY <2>3, NoQuestionIsFine
<1>8. CASE TimesOut \/ Abandon
  BY <1>8 DEF TimesOut, NotesCall, Abandon, AskInv, Serving, TypeOK, CallerState
<1>9. CASE Joined
  <2>1. abandoned' = abandoned /\ (~abandoned => NoQuestion)
    BY <1>9, NotAsked DEF Joined, Serving
  <2>2. NoQuestion => NoQuestion'
    BY <1>1, <1>9 DEF NoQuestion, Resolving, Joined, Asks
  <2>3. QED
    BY <2>1, <2>2, NoQuestionIsFine DEF AskInv, Serving
<1>10. CASE ClockExpires \/ UNCHANGED vars
  <2>1. UNCHANGED <<input_queue, return_msg_queue, abandoned, worker, caller>>
    BY <1>1, <1>10 DEF ClockExpires, loopRest, vars, callVars
  <2>2. QED
    BY <2>1 DEF AskInv, Serving, Queues, Resolves, Replied, Resolving, Expects, Asks, Received
<1>11. QED
  BY <1>3, <1>4, <1>5, <1>6, <1>7, <1>8, <1>9, <1>10 DEF Elsewhere, Waiting

(* The reply to a question, where there was none. *)
LEMMA OneReply ==
  ASSUME NEW r \in Reply, return_msg_queue = <<>>,
         return_msg_queue' = Append(return_msg_queue, r)
  PROVE  /\ return_msg_queue' # <<>> /\ Tail(return_msg_queue') = <<>>
         /\ Head(return_msg_queue') = r
<1> DEFINE s == Append(<<>>, r)
<1>1. <<>> \in Seq(Reply) /\ Len(<<>>) = 0
  OBVIOUS
<1>2. s \in Seq(Reply) /\ s # <<>> /\ Len(s) = 1 /\ s[1] = r
  BY <1>1, AppendProperties
<1> HIDE DEF s
<1>3. Head(s) = r /\ Tail(s) \in Seq(Reply) /\ Len(Tail(s)) = 0
  BY <1>2, HeadTailProperties
<1>4. Tail(s) = <<>>
  BY <1>3, EmptySeq
<1>5. QED
  BY <1>2, <1>3, <1>4 DEF s

Taking == TakeNamed \/ close_all_after_write \/ shutdown \/ closed_status \/ open_failures

(* The worker with the command that it has just taken. *)
LEMMA TakingIs ==
  ASSUME TypeOK, Taking
  PROVE  /\ worker'.command = Head(input_queue)
         /\ worker'.at = "resolve" <=> TakeNamed
         /\ worker.at = "loop" /\ ~abandoned /\ input_queue # <<>> /\ input_queue' = Tail(input_queue)
         /\ TakeNamed => Head(input_queue).cmd \in Named
         /\ close_all_after_write => Head(input_queue).cmd = "close_all_after_write"
         /\ shutdown => Head(input_queue).cmd = "shutdown"
         /\ closed_status => Head(input_queue).cmd = "closed_status"
         /\ open_failures => Head(input_queue).cmd = "open_failures"
<1> DEFINE h == Head(input_queue)
<1>1. worker \in WorkerRecord
  BY TypingIs DEF Typing
<1>2. CASE TakeNamed
  <2>1. worker' = [At("resolve", h.name, h.write) EXCEPT !.command = h]
    BY <1>2 DEF TakeNamed
  <2>2. worker'.at = "resolve" /\ worker'.command = h
    BY <1>1, <2>1 DEF At, WorkerRecord, Stage
  <2>3. QED
    BY <1>2, <2>2 DEF TakeNamed, Take, close_all_after_write, shutdown, closed_status, open_failures, Named
<1>3. CASE ~TakeNamed
  <2>1. \/ \E S : worker' = Visiting(S) \/ worker' = [Visiting(S) EXCEPT !.active = FALSE]
        \/ worker' = [Done EXCEPT !.command = h]
    BY <1>3 DEF Taking, close_all_after_write, shutdown, closed_status, open_failures
  <2>2. [Done EXCEPT !.command = h].at = "timer" /\ [Done EXCEPT !.command = h].command = h
    BY <1>1 DEF Done, At, WorkerRecord, Stage
  <2>3. \A S : VisitingIs(Visiting(S), h) /\ VisitingIs([Visiting(S) EXCEPT !.active = FALSE], h)
    BY <1>1, VisitingFields
  <2> HIDE DEF h
  <2>4. worker'.at # "resolve" /\ worker'.command = h
    BY <2>1, <2>2, <2>3 DEF VisitingIs
  <2>5. QED
    BY <1>3, <2>4
    DEF Taking, Take, close_all_after_write, shutdown, closed_status, open_failures, h
<1>4. QED
  BY <1>2, <1>3

(* Every other step of the worker leaves its queues alone, but for the reply about
   a path. *)
LEMMA OtherWorkerSteps ==
  ASSUME TypeOK, WhereInv, Worker, ~Taking, ~abandoned
  PROVE  /\ input_queue' = input_queue
         /\ Resolving' => Resolving
         /\ \/ return_msg_queue' = return_msg_queue
            \/ /\ Resolving /\ ~Resolving'
               /\ \E r \in Reply : /\ r.status # "none"
                                   /\ return_msg_queue' = Append(return_msg_queue, r)
<1>1. Typing
  BY TypingIs
<1>2. ASSUME NEW f \in Files, NEW fc \in Control, NEW lost, FileStep(f, fc, lost)
      PROVE  worker'.at # "resolve" /\ input_queue' = input_queue
  <2>1. Takes(f, fc, lost) /\ Ascending(fc.queue) /\ input_queue' = input_queue
    BY <1>2 DEF FileStep, QueueOf
  <2>2. \/ worker'.at \in {"open", "write", "close"} \/ worker'.at = "visit"
        \/ worker'.at \in {"timer", "loop"}
    BY <1>1, <2>1, TakesIs
  <2>3. QED
    BY <2>1, <2>2
<1>3. CASE \/ OpenSucceeds \/ OpenLocked \/ NeverOpens \/ FlushSucceeds
           \/ WriteFails \/ CloseSucceeds \/ CloseFails
  <2>1. worker'.at # "resolve" /\ input_queue' = input_queue
    BY <1>2, <1>3, CallSteps
  <2>2. return_msg_queue' = return_msg_queue
    BY <1>3 DEF OpenSucceeds, OpenLocked, NeverOpens, FlushSucceeds, WriteFails, CloseSucceeds, CloseFails
  <2>3. QED
    BY <2>1, <2>2 DEF Resolving
<1>4. CASE write \/ close_if_open \/ open_as_new \/ Visit
  <2>1. worker'.at # "resolve" /\ input_queue' = input_queue
    BY <1>2, <1>4, NamedSteps, VisitSteps
  <2>2. return_msg_queue' = return_msg_queue
    BY <1>4 DEF write, close_if_open, open_as_new, Visit
  <2>3. QED
    BY <2>1, <2>2 DEF Resolving
<1>5. CASE status
  <2> DEFINE st == files[Resolve[worker.name]].status
             r == [status |-> IF st = "absent" THEN "unopened" ELSE st, failures |-> {}]
  <2>1. worker'.at # "resolve" /\ input_queue' = input_queue
    BY <1>2, <1>5, NamedSteps
  <2>2. Resolving
    BY <1>5 DEF status, Resolved, Ended, Resolving
  <2>3. worker.name \in Names
    BY <1>1, <2>2 DEF Resolving, Typing, WorkerState, WorkerRecord, Stage, Command, Named, Global
  <2>4. st \in Status
    BY <1>1, <2>3, FileWriterAssumption DEF Typing, Control, OutputFileType
  <2>5. r \in Reply /\ r.status # "none"
    BY <2>4 DEF Reply, Status
  <2>6. return_msg_queue' = Append(return_msg_queue, r)
    BY <1>5 DEF status
  <2>7. QED
    BY <2>1, <2>2, <2>5, <2>6 DEF Resolving
<1>6. CASE ResolveRaises
  <2> DEFINE r == [status |-> "closed", failures |-> {}]
  <2>1. worker'.at = "timer" /\ input_queue' = input_queue /\ worker.at = "resolve"
    BY <1>1, <1>6, MoveFields DEF ResolveRaises, Ended, ioRest, Typing
  <2>2. r \in Reply /\ r.status # "none"
    BY DEF Reply, Status
  <2>3. return_msg_queue' = IF worker.command.cmd = "status"
                            THEN Append(return_msg_queue, r) ELSE return_msg_queue
    BY <1>6 DEF ResolveRaises
  <2> HIDE DEF r
  <2>4. QED
    BY <2>1, <2>2, <2>3 DEF Resolving
<1>7. CASE Publish \/ Reserve
  <2>1. \A v : LET u == [worker EXCEPT !.io = v] IN u.at = worker.at /\ u.command = worker.command
    BY <1>1 DEF Typing, WorkerRecord, Stage
  <2>2. /\ worker'.at = worker.at /\ worker'.command = worker.command
        /\ UNCHANGED <<input_queue, return_msg_queue>>
    BY <1>7, <2>1 DEF Publish, Reserve, ioRest
  <2>3. QED
    BY <2>2 DEF Resolving
<1>8. CASE WriteSucceeds \/ GetTimesOut \/ CheckTimer
  <2>1. worker' \in {At("flush", worker.name, worker.message), At("timer", None, 0), At("loop", None, 0)}
    BY <1>8 DEF WriteSucceeds, GetTimesOut, CheckTimer
  <2>2. worker'.at # "resolve"
    BY <1>1, <2>1, MoveFields DEF Typing
  <2>3. UNCHANGED <<input_queue, return_msg_queue>>
    BY <1>8 DEF WriteSucceeds, GetTimesOut, CheckTimer, ioRest, loopRest
  <2>4. QED
    BY <2>2, <2>3 DEF Resolving
<1>9. CASE retry_waiting
  <2>1. \A S : [At("visit", None, 0) EXCEPT !.command = Retry, !.left = S].at = "visit"
    BY <1>1 DEF Typing, At, WorkerRecord, Stage
  <2>2. worker'.at = "visit" /\ UNCHANGED <<input_queue, return_msg_queue>>
    BY <1>9, <2>1 DEF retry_waiting, Retries, loopRest
  <2>3. QED
    BY <2>2 DEF Resolving
<1>10. CASE WorkerEnds
  <2>1. [At("ended", None, 0) EXCEPT !.active = FALSE].at = "ended"
    BY <1>1 DEF Typing, At, WorkerRecord, Stage
  <2>2. worker'.at = "ended" /\ UNCHANGED <<input_queue, return_msg_queue>>
    BY <1>10, <2>1 DEF WorkerEnds, loopRest
  <2>3. QED
    BY <2>2 DEF Resolving
<1>11. ~Stop
  BY DEF Stop
<1>12. QED
  BY <1>3, <1>4, <1>5, <1>6, <1>7, <1>8, <1>9, <1>10, <1>11 DEF Worker, Taking

(* The worker answers the question that is asked, once; while there is a reply, or
   none is asked, it adds none. *)
LEMMA WorkerAnswers ==
  ASSUME TypeOK, WhereInv, AskInv, Worker, Serving
  PROVE  /\ AskInv'
         /\ \/ return_msg_queue' = return_msg_queue
            \/ /\ return_msg_queue = <<>>
               /\ \/ closed_status /\ Expects("closed_status")
                  \/ open_failures /\ Expects("open_failures")
                  \/ Expects("status")
         /\ open_failures => return_msg_queue = <<>> /\ Expects("open_failures")
<1>1. \A cmd : Expects(cmd)' <=> Expects(cmd)
  BY WorkerIs DEF Effect, Expects
<1>2. Queues \/ Resolves \/ Replied
  BY DEF AskInv
<1>3. CASE Taking
  <2> DEFINE q == input_queue
             h == Head(q)
  <2>1. /\ worker'.command = h /\ (worker'.at = "resolve" <=> TakeNamed)
        /\ worker.at = "loop" /\ q # <<>> /\ input_queue' = Tail(q)
        /\ TakeNamed => h.cmd \in Named
        /\ close_all_after_write => h.cmd = "close_all_after_write"
        /\ shutdown => h.cmd = "shutdown"
        /\ closed_status => h.cmd = "closed_status"
        /\ open_failures => h.cmd = "open_failures"
    BY <1>3, TakingIs
  <2>2. Queues
    BY <1>2, <2>1 DEF Resolves, Replied
  <2>3. /\ q \in Seq(Command) /\ Len(q) \in Nat \ {0} /\ DOMAIN q = 1 .. Len(q)
        /\ h = q[1] /\ Tail(q) \in Seq(Command) /\ Len(Tail(q)) = Len(q) - 1
        /\ DOMAIN Tail(q) = 1 .. Len(q) - 1
        /\ \A i \in 1 .. Len(q) - 1 : Tail(q)[i] = q[i + 1]
    BY <2>1, HeadTailProperties, LenProperties, EmptySeq DEF TypeOK
  <2>4. return_msg_queue = <<>> /\ (Asks(h) => Len(q) = 1 /\ Expects(h.cmd))
    BY <2>2, <2>3 DEF Queues
  <2>5. Asks(h) => input_queue' = <<>>
    BY <2>1, <2>3, <2>4, EmptySeq
  <2>6. CASE ~Asks(h)
    <3>1. ~closed_status /\ ~open_failures /\ return_msg_queue' = return_msg_queue
      BY <1>3, <2>1, <2>6 DEF Asks, Taking, TakeNamed, close_all_after_write, shutdown
    <3>2. ~Resolving'
      BY <2>1, <2>6 DEF Resolving, Asks
    <3>3. \A i \in DOMAIN input_queue' :
            Asks(input_queue'[i]) => i = Len(input_queue') /\ Expects(input_queue'[i].cmd)
      <4> DEFINE r == input_queue'
      <4>1. /\ DOMAIN r = 1 .. Len(q) - 1 /\ Len(r) = Len(q) - 1
            /\ \A i \in 1 .. Len(q) - 1 : r[i] = q[i + 1] /\ i \in Nat /\ i + 1 \in DOMAIN q
        BY <2>1, <2>3
      <4>2. \A i \in DOMAIN q : Asks(q[i]) => i = Len(q) /\ Expects(q[i].cmd)
        BY <2>2 DEF Queues
      <4> HIDE DEF r, q
      <4>3. SUFFICES ASSUME NEW i \in DOMAIN r, Asks(r[i])
                     PROVE  i = Len(r) /\ Expects(r[i].cmd)
        BY DEF r
      <4>4. i \in Nat /\ i + 1 \in DOMAIN q /\ r[i] = q[i + 1]
        BY <4>1
      <4>5. i + 1 = Len(q) /\ Expects(q[i + 1].cmd)
        BY <4>2, <4>3, <4>4
      <4>6. QED
        BY <2>3, <4>1, <4>4, <4>5
    <3>4. Queues'
      <4>1. \A i \in DOMAIN input_queue' :
              Asks(input_queue[i])' => i = Len(input_queue') /\ Expects(input_queue[i].cmd)'
        BY <1>1, <3>3 DEF Asks, Expects
      <4>2. QED
        BY <2>4, <3>1, <3>2, <4>1 DEF Queues
    <3>5. QED
      BY <3>1, <3>4 DEF AskInv
  <2>7. CASE Asks(h) /\ TakeNamed
    <3>1. h.cmd = "status" /\ ~closed_status /\ ~open_failures
      BY <2>1, <2>7 DEF Asks, Named
    <3>2. return_msg_queue' = return_msg_queue
      BY <2>7 DEF TakeNamed
    <3>3. Resolves'
      BY <1>1, <2>1, <2>4, <2>5, <2>7, <3>1, <3>2 DEF Resolves, Resolving, Expects
    <3>4. QED
      BY <3>1, <3>2, <3>3 DEF AskInv
  <2>8. CASE closed_status
    <3>1. h.cmd = "closed_status" /\ Asks(h) /\ ~TakeNamed /\ ~open_failures
      BY <2>1, <2>8 DEF Asks, Named
    <3>2. PICK st \in Status : return_msg_queue' = Append(return_msg_queue, [status |-> st, failures |-> {}])
      <4>1. \A S : S \cap {"open", "waiting"} \subseteq Status /\ "closed" \in Status
        BY DEF Status
      <4>2. QED
        BY <2>8, <4>1 DEF closed_status
    <3>3. [status |-> st, failures |-> {}] \in Reply /\ st # "none"
      BY DEF Reply, Status
    <3>4. /\ return_msg_queue' # <<>> /\ Tail(return_msg_queue') = <<>>
          /\ Head(return_msg_queue').status = st
      BY <2>4, <3>2, <3>3, OneReply
    <3>5. Expects("closed_status") /\ input_queue' = <<>> /\ ~Resolving'
      BY <2>1, <2>4, <2>5, <3>1 DEF Resolving
    <3>6. Replied'
      BY <1>1, <3>3, <3>4, <3>5 DEF Replied, Received
    <3>7. QED
      BY <2>4, <2>8, <3>1, <3>5, <3>6 DEF AskInv
  <2>9. CASE open_failures
    <3>1. h.cmd = "open_failures" /\ Asks(h) /\ ~TakeNamed /\ ~closed_status
      BY <2>1, <2>9 DEF Asks, Named
    <3>2. PICK fs : return_msg_queue' = Append(return_msg_queue, [status |-> "none", failures |-> fs])
      BY <2>9 DEF open_failures
    <3>4. Append(<<>>, [status |-> "none", failures |-> fs]) = <<[status |-> "none", failures |-> fs]>>
      OBVIOUS
    <3>5. /\ return_msg_queue' # <<>> /\ Tail(return_msg_queue') = <<>>
          /\ Head(return_msg_queue').status = "none"
      BY <2>4, <3>2, <3>4
    <3>6. Expects("open_failures") /\ input_queue' = <<>> /\ ~Resolving'
      BY <2>1, <2>4, <2>5, <3>1 DEF Resolving
    <3>7. Replied'
      BY <1>1, <3>5, <3>6 DEF Replied, Received
    <3>8. QED
      BY <2>4, <2>9, <3>1, <3>6, <3>7 DEF AskInv
  <2>10. QED
    BY <1>3, <2>1, <2>6, <2>7, <2>8, <2>9 DEF Asks, Taking
<1>4. CASE ~Taking
  <2>1. /\ input_queue' = input_queue
        /\ Resolving' => Resolving
        /\ \/ return_msg_queue' = return_msg_queue
           \/ /\ Resolving /\ ~Resolving'
              /\ \E r \in Reply : /\ r.status # "none"
                                  /\ return_msg_queue' = Append(return_msg_queue, r)
    BY <1>4, OtherWorkerSteps DEF Serving
  <2>2. ~closed_status /\ ~open_failures
    BY <1>4 DEF Taking
  <2>3. CASE return_msg_queue' = return_msg_queue
    <3>1. Queues => Queues'
      BY <1>1, <2>1, <2>3 DEF Queues, Expects, Asks
    <3>2. Replied => Replied'
      BY <1>1, <2>1, <2>3 DEF Replied, Received
    <3>3. Resolves => Resolves' \/ Queues'
      BY <1>1, <2>1, <2>3 DEF Resolves, Queues
    <3>4. QED
      BY <1>2, <2>2, <2>3, <3>1, <3>2, <3>3 DEF AskInv
  <2>4. CASE /\ Resolving /\ ~Resolving'
             /\ \E r \in Reply : /\ r.status # "none"
                                 /\ return_msg_queue' = Append(return_msg_queue, r)
    <3>1. Resolves
      BY <1>2, <2>4 DEF Queues, Replied
    <3>2. PICK r \in Reply : r.status # "none" /\ return_msg_queue' = Append(return_msg_queue, r)
      BY <2>4
    <3>3. /\ return_msg_queue' # <<>> /\ Tail(return_msg_queue') = <<>>
          /\ Head(return_msg_queue') = r
      BY <3>1, <3>2, OneReply DEF Resolves
    <3>4. Replied'
      BY <1>1, <2>1, <2>4, <3>1, <3>2, <3>3 DEF Replied, Resolves, Received
    <3>5. QED
      BY <2>2, <3>1, <3>4 DEF AskInv, Resolves
  <2>5. QED
    BY <2>1, <2>3, <2>4
<1>5. QED
  BY <1>3, <1>4

----------------------------------------------------------------------------
(* What a flush may answer. *)

Covers(failures, w) == \E r \in failures : w \in r.writes \/ r.subject = FileOf(w)

(* A flush has been told that no file is open or waiting. *)
Settled ==
  /\ caller.op = "flush"
  /\ \/ caller.at \in {"collect", "gather"}
     \/ caller.at = "await" /\ return_msg_queue # <<>> /\ Received.status = "closed"

(* A flush has the list of losses before it. *)
Listed == caller.at = "gather" /\ return_msg_queue # <<>>

(* What is lost is on record until an error lists it, and it is listed when nothing
   is in flight any more. *)
AccountInv ==
  Serving =>
    /\ Settled => InFlight = {}
    /\ \A w \in LostWrites \ told :
         IF Listed THEN Covers(Received.failures, w) ELSE Recorded(w)

PromiseInv == DataInv /\ CallerInv /\ AskInv /\ AccountInv

(* The reply to open_failures lists all that is on record. *)
LEMMA FailuresAreListed ==
  ASSUME TypeOK, open_failures, return_msg_queue = <<>>, NEW w \in DOMAIN dest, Recorded(w)
  PROVE  Listed' => Covers(Received.failures, w)'
<1> DEFINE failed == {f \in Files : files[f].status \in FAILED}
           given_up == {f \in Files \ failed : files[f].abandoned # {}}
           fs == {[subject |-> f, writes |-> files[f].dropped] : f \in failed}
                   \cup {[subject |-> f, writes |-> files[f].abandoned] : f \in given_up}
                   \cup errors
           g == FileOf(w)
<1>1. return_msg_queue' = Append(return_msg_queue, [status |-> "none", failures |-> fs])
  BY DEF open_failures
<1>2. g \in Files
  BY FileWriterAssumption, ElementOfSeq, LenProperties DEF FileOf, TypeOK
<1>3. \E r \in fs : w \in r.writes \/ r.subject = g
  <2>1. CASE g \in failed
    <3> DEFINE r == [subject |-> g, writes |-> files[g].dropped]
    <3>1. r \in fs /\ r.subject = g
      BY <2>1
    <3>2. QED
      BY <3>1
  <2>2. CASE g \notin failed /\ w \in files[g].abandoned
    <3> DEFINE r == [subject |-> g, writes |-> files[g].abandoned]
    <3>1. g \in given_up
      BY <1>2, <2>2
    <3>2. r \in fs /\ r.subject = g
      BY <3>1
    <3>3. QED
      BY <3>2
  <2>3. CASE \E r \in errors : w \in r.writes
    BY <2>3
  <2>4. QED
    BY <1>2, <2>1, <2>2, <2>3 DEF Recorded
<1>4. FileOf(w)' = g
  BY DEF FileOf, open_failures
<1> HIDE DEF fs, g
<1>5. Head(return_msg_queue') = [status |-> "none", failures |-> fs]
  <2>1. Append(<<>>, [status |-> "none", failures |-> fs]) = <<[status |-> "none", failures |-> fs]>>
    OBVIOUS
  <2>2. QED
    BY <1>1, <2>1
<1>6. QED
  BY <1>3, <1>4, <1>5 DEF Covers, Received

(* The reply that no file is held: there is nothing in flight. *)
LEMMA ClosedIsSettled ==
  ASSUME TypeOK, WhereInv, AskInv, Serving, closed_status, return_msg_queue = <<>>,
         Head(return_msg_queue').status = "closed"
  PROVE  InFlight' = {}
<1>1. InFlight' = InFlight /\ WhereInv'
  BY TakeSteps
<1>2. /\ worker.at = "loop" /\ ~abandoned /\ input_queue # <<>> /\ input_queue' = Tail(input_queue)
      /\ Head(input_queue).cmd = "closed_status" /\ files' = files
  BY DEF closed_status, Take, fileVars
<1>3. InInput' = {}
  <2>1. Queues
    BY <1>2 DEF AskInv, Resolves, Replied
  <2>2. /\ Len(input_queue) \in Nat \ {0} /\ DOMAIN input_queue = 1 .. Len(input_queue)
        /\ Head(input_queue) = input_queue[1] /\ Tail(input_queue) \in Seq(Command)
        /\ Len(Tail(input_queue)) = Len(input_queue) - 1
    BY <1>2, HeadTailProperties, LenProperties, EmptySeq DEF TypeOK
  <2>3. Len(input_queue) = 1
    BY <1>2, <2>1, <2>2 DEF Queues, Asks
  <2>4. input_queue' = <<>>
    BY <1>2, <2>2, <2>3, EmptySeq
  <2>5. QED
    BY <2>4 DEF InInput
<1>4. \A g \in Files : files[g].status \notin {"open", "waiting"}
  <2> DEFINE held == {files[f].status : f \in Files} \cap {"open", "waiting"}
  <2>1. PICK st \in IF held = {} THEN {"closed"} ELSE held :
          return_msg_queue' = Append(return_msg_queue, [status |-> st, failures |-> {}])
    BY DEF closed_status
  <2>2. Append(<<>>, [status |-> st, failures |-> {}]) = <<[status |-> st, failures |-> {}]>>
    OBVIOUS
  <2>3. Head(return_msg_queue').status = st
    BY <2>1, <2>2
  <2>4. held = {}
    BY <2>1, <2>3
  <2>5. QED
    BY <2>4
<1>5. \A g \in Files : files[g].queue = <<>>
  BY <1>2, <1>4 DEF WhereInv, StageInv
<1>6. \A g \in Files : InQueue(g)' = {}
  BY <1>2, <1>5 DEF InQueue, Queued
<1>7. worker'.message = 0
  <2>1. worker'.at # "resolve" /\ worker'.at \notin {"write", "flush"}
    <3>1. worker' = [Done EXCEPT !.command = Head(input_queue)]
      BY DEF closed_status
    <3>2. worker \in WorkerRecord
      BY TypingIs DEF Typing
    <3>3. QED
      BY <3>1, <3>2 DEF Done, At, WorkerRecord, Stage
  <2>2. QED
    BY <1>1, <2>1 DEF WhereInv, MessagePlaced
<1>8. \A w : w \notin InFlight'
  BY <1>3, <1>6, <1>7, FlightIsNext
<1>9. QED
  BY <1>8

LEMMA WorkerAccounts ==
  ASSUME TypeOK, WhereInv, CallerInv, AskInv, AccountInv, Worker
  PROVE  AccountInv'
<1>1. /\ UNCHANGED <<dest, told, caller, abandoned>> /\ Effect /\ InFlight' \subseteq InFlight
      /\ (~abandoned /\ ~open_failures => Accounted)
      /\ (open_failures => InFlight' = InFlight)
  BY WorkerIs DEF Effect
<1>2. SUFFICES ASSUME Serving PROVE AccountInv'
  BY <1>1 DEF AccountInv, Serving
<1>3. /\ \/ return_msg_queue' = return_msg_queue
         \/ /\ return_msg_queue = <<>>
            /\ \/ closed_status /\ Expects("closed_status")
               \/ open_failures /\ Expects("open_failures")
               \/ Expects("status")
      /\ open_failures => return_msg_queue = <<>> /\ Expects("open_failures")
  BY <1>2, WorkerAnswers
<1>4. Settled' => InFlight' = {}
  <2>1. CASE return_msg_queue' = return_msg_queue
    <3>1. Settled' => Settled
      BY <1>1, <2>1 DEF Settled, Received
    <3>2. QED
      BY <1>1, <1>2, <3>1 DEF AccountInv
  <2>2. CASE return_msg_queue = <<>> /\ closed_status
    BY <1>1, <1>2, <2>2, ClosedIsSettled DEF Settled, Received, AccountInv
  <2>3. CASE open_failures /\ Expects("open_failures")
    <3>1. Settled
      BY <2>3 DEF Settled, Expects
    <3>2. QED
      BY <1>1, <1>2, <3>1 DEF AccountInv
  <2>4. CASE Expects("status")
    BY <1>1, <2>4 DEF Settled, Expects
  <2>5. QED
    BY <1>3, <2>1, <2>2, <2>3, <2>4
<1>5. LostWrites' = LostWrites \cup ((InFlight \ InFlight') \ stored')
  BY <1>1, WorkerSettles
<1>6. \A w : FileOf(w)' = FileOf(w)
  BY <1>1 DEF FileOf
<1>7. LostWrites \subseteq DOMAIN dest
  BY DEF LostWrites
<1>8. ASSUME NEW w \in LostWrites' \ told'
      PROVE  IF Listed' THEN Covers(Received.failures, w)' ELSE Recorded(w)'
  <2>1. CASE open_failures
    <3>1. return_msg_queue = <<>> /\ w \in LostWrites \ told
      BY <1>1, <1>3, <1>5, <1>8, <2>1
    <3>2. Recorded(w)
      BY <1>2, <3>1 DEF AccountInv, Listed
    <3>3. Listed'
      <4>1. caller'.at = "gather"
        BY <1>1, <1>3, <2>1 DEF Expects
      <4>2. return_msg_queue' # <<>>
        BY <2>1, <3>1 DEF open_failures
      <4>3. QED
        BY <4>1, <4>2 DEF Listed
    <3>4. QED
      BY <1>7, <2>1, <3>1, <3>2, <3>3, FailuresAreListed
  <2>2. CASE ~open_failures /\ Listed
    <3>1. InFlight = {}
      BY <1>2, <2>2 DEF AccountInv, Settled, Listed, CallerInv
    <3>2. w \in LostWrites \ told
      BY <1>1, <1>5, <1>8, <3>1
    <3>3. return_msg_queue' = return_msg_queue
      BY <1>3, <2>2 DEF Listed
    <3>4. Covers(Received.failures, w)
      BY <1>2, <2>2, <3>2 DEF AccountInv
    <3>5. Covers(Received.failures, w)' /\ Listed'
      BY <1>1, <1>6, <2>2, <3>3, <3>4 DEF Covers, Received, Listed
    <3>6. QED
      BY <3>5
  <2>3. CASE ~open_failures /\ ~Listed
    <3>1. ~Listed'
      BY <1>1, <1>3, <2>3 DEF Listed, Expects
    <3>2. Recorded(w)'
      <4>1. CASE w \in LostWrites
        <5>1. Recorded(w)
          BY <1>1, <1>2, <1>8, <2>3, <4>1 DEF AccountInv
        <5>2. QED
          BY <1>1, <1>2, <1>7, <2>3, <4>1, <5>1 DEF Accounted, Serving
      <4>2. CASE w \in (InFlight \ InFlight') \ stored'
        <5>1. Accounted
          BY <1>1, <1>2, <2>3 DEF Serving
        <5>2. QED
          BY <4>2, <5>1 DEF Accounted
      <4>3. QED
        BY <1>5, <1>8, <4>1, <4>2
    <3>3. QED
      BY <3>1, <3>2
  <2>4. QED
    BY <2>1, <2>2, <2>3
<1>9. QED
  BY <1>4, <1>8 DEF AccountInv

(* A write handed over is in flight, and loses nothing. *)
LEMMA AcceptAccounts ==
  ASSUME TypeOK, WhereInv, CallerInv, AskInv, AccountInv, NEW n \in Names, filewriter_write(n)
  PROVE  CallerInv' /\ AskInv' /\ AccountInv'
<1>1. /\ caller.op = "idle" /\ ~abandoned
      /\ UNCHANGED <<caller, abandoned, files, errors, told, worker, return_msg_queue>>
  BY DEF filewriter_write, Active, callRest, fileVars
<1>2. CallerInv'
  BY <1>1 DEF CallerInv
<1>3. Serving /\ NoQuestion /\ caller.at \notin {"await", "gather"}
  BY <1>1, IdleHasNotAsked DEF CallerInv, Serving
<1>4. AskInv'
  <2> DEFINE c == [cmd |-> "write", name |-> n, write |-> Len(dest) + 1]
  <2>1. Len(dest) + 1 \in Write
    BY FileWriterAssumption, LenProperties DEF filewriter_write, TypeOK, Write
  <2>2. c \in Command /\ ~Asks(c) /\ input_queue' = Append(input_queue, c)
    BY <2>1 DEF filewriter_write, Submit, Command, Asks
  <2> HIDE DEF c
  <2>3. QED
    BY <1>1, <1>3, <2>2, StillNotAsked, NoQuestionIsFine
<1>5. LostWrites' = LostWrites /\ \A w \in DOMAIN dest : FileOf(w)' = FileOf(w)
  BY AcceptStep
<1>6. \A w \in LostWrites : Recorded(w) => Recorded(w)'
  <2>1. LostWrites \subseteq DOMAIN dest
    BY DEF LostWrites
  <2>2. QED
    BY <1>1, <1>5, <2>1 DEF Recorded
<1>7. AccountInv'
  <2>1. ~Settled' /\ ~Listed /\ ~Listed'
    BY <1>1, <1>3 DEF Settled, Listed
  <2>2. \A w \in LostWrites' \ told' : Recorded(w)'
    BY <1>1, <1>3, <1>5, <1>6, <2>1 DEF AccountInv
  <2>3. QED
    BY <2>1, <2>2 DEF AccountInv
<1>8. QED
  BY <1>2, <1>4, <1>7

(* The list of losses accounts for every one of them. *)
LEMMA LossesAreListed ==
  ASSUME TypeOK, CallerInv, AskInv, AccountInv, ToldAreLost, TakeFailures
  PROVE  /\ InFlight = {} /\ told' = LostWrites
         /\ \/ answer' = "losses"
            \/ answer' = "saved" /\ told' = told
<1>1. caller.at = "gather" /\ return_msg_queue # <<>> /\ Serving /\ Listed /\ Settled
  BY DEF TakeFailures, CallerInv, Listed, Settled, Serving
<1>2. Received.status = "none"
  BY <1>1 DEF AskInv, Queues, Resolves, Replied, Expects
<1> DEFINE covered == {w \in LostWrites : Covers(Received.failures, w)}
<1>3. told' = told \cup covered
  BY <1>2 DEF TakeFailures, Covers
<1>4. LostWrites \ told \subseteq covered
  BY <1>1 DEF AccountInv
<1>5. told' = LostWrites
  BY <1>3, <1>4 DEF ToldAreLost
<1>6. answer' = IF Received.failures = {} THEN "saved" ELSE "losses"
  BY <1>2 DEF TakeFailures, Returns
<1>7. Received.failures = {} => covered = {}
  BY DEF Covers
<1>8. QED
  BY <1>1, <1>3, <1>5, <1>6, <1>7 DEF AccountInv

LEMMA ElsewhereAccounts ==
  ASSUME TypeOK, WhereInv, ToldAreLost, CallerInv, AskInv, AccountInv, Elsewhere, ~Interrupt
  PROVE  AccountInv'
<1>1. /\ InFlight' = InFlight /\ LostWrites' = LostWrites
      /\ UNCHANGED <<dest, stored, errors, worker>> /\ (abandoned => abandoned')
      /\ \A g \in Files : /\ files'[g].status = files[g].status
                          /\ files'[g].dropped = files[g].dropped
                          /\ files'[g].abandoned = files[g].abandoned
  BY ElsewhereIs
<1>2. \A w \in LostWrites : Recorded(w) => Recorded(w)'
  <2>1. \A w \in LostWrites : FileOf(w) \in Files
    BY FileWriterAssumption, ElementOfSeq, LenProperties DEF LostWrites, FileOf, TypeOK
  <2>2. \A w : FileOf(w)' = FileOf(w)
    BY <1>1 DEF FileOf
  <2>3. QED
    BY <1>1, <2>1, <2>2 DEF Recorded
<1>3. SUFFICES ASSUME Serving' PROVE AccountInv'
  BY DEF AccountInv
<1>4. Serving
  BY <1>3, ServingBefore
<1>5. ASSUME ~Settled' \/ Settled, ~Listed, ~Listed', told' = told
      PROVE  AccountInv'
  <2>1. Settled' => InFlight' = {}
    BY <1>1, <1>4, <1>5 DEF AccountInv
  <2>2. \A w \in LostWrites' \ told' : Recorded(w)'
    BY <1>1, <1>2, <1>4, <1>5 DEF AccountInv
  <2>3. QED
    BY <1>5, <2>1, <2>2 DEF AccountInv
<1>6. CASE \/ \E n \in Names : filewriter_open_as_new(n) \/ filewriter_close(n)
           \/ filewriter_close_all_after_write \/ filewriter_end
  <2>1. caller.op = "idle" /\ told' = told
    BY <1>6 DEF filewriter_open_as_new, filewriter_close, filewriter_close_all_after_write,
       filewriter_end, Active
  <2>2. caller' = caller \/ caller'.at \in {"ask", "idle", "join"}
    BY <1>6 DEF filewriter_open_as_new, filewriter_close, filewriter_close_all_after_write,
       filewriter_end, Waits
  <2>3. caller.at \notin {"await", "gather"}
    BY <1>4, <2>1, IdleHasNotAsked
  <2>4. ~Settled' /\ ~Listed /\ ~Listed'
    BY <2>1, <2>2, <2>3 DEF Settled, Listed
  <2>5. QED
    BY <1>5, <2>1, <2>4
<1>7. CASE Ask
  <2>1. /\ caller.at \in {"ask", "collect"} /\ told' = told /\ return_msg_queue' = return_msg_queue
        /\ caller' = [caller EXCEPT !.at = IF caller.at = "ask" THEN "await" ELSE "gather"]
    BY <1>7 DEF Ask
  <2>2. caller'.op = caller.op /\ caller'.at = IF caller.at = "ask" THEN "await" ELSE "gather"
    BY <2>1 DEF TypeOK, CallerState
  <2>3. return_msg_queue = <<>>
    BY <1>4, <2>1, NotAsked DEF NoQuestion
  <2>4. ~Listed /\ ~Listed' /\ (Settled' => Settled)
    BY <2>1, <2>2, <2>3 DEF Listed, Settled
  <2>5. QED
    BY <1>5, <2>1, <2>4
<1>8. CASE TakeStatus
  <2>1. caller.at = "await" /\ told' = told /\ ~Listed /\ return_msg_queue # <<>>
    BY <1>8 DEF TakeStatus, Listed
  <2>2. \A a : LET c == [caller EXCEPT !.at = a] IN c.at = a /\ c.op = caller.op
    BY DEF TypeOK, CallerState
  <2>3. \/ caller'.at \in {"ask", "idle"}
        \/ caller'.at = "collect" /\ caller.op = "flush" /\ Received.status = "closed"
    <3>1. \/ caller' = [caller EXCEPT !.at = "ask"]
          \/ /\ caller.op = "flush" /\ Received.status = "closed"
             /\ caller' = [caller EXCEPT !.at = "collect"]
          \/ caller' = [op |-> "idle", at |-> "idle", name |-> None]
      <4>1. ~NotesCall
        BY <1>3, <2>2 DEF NotesCall, Serving
      <4>2. QED
        BY <1>8, <4>1 DEF TakeStatus, Returns, Waits
    <3>2. CASE caller' = [caller EXCEPT !.at = "ask"]
      BY <2>2, <3>2
    <3>3. CASE caller.op = "flush" /\ caller' = [caller EXCEPT !.at = "collect"]
      BY <2>2, <3>1, <3>3
    <3>4. CASE caller' = [op |-> "idle", at |-> "idle", name |-> None]
      BY <3>4
    <3>5. QED
      BY <3>1, <3>2, <3>3, <3>4
  <2>4. ~Listed' /\ (Settled' => Settled)
    BY <2>1, <2>3 DEF Listed, Settled
  <2>5. QED
    BY <1>5, <2>1, <2>4
<1>9. CASE TakeFailures
  <2>1. told' = LostWrites /\ caller'.at = "idle"
    BY <1>9, LossesAreListed DEF TakeFailures, Returns, Waits
  <2>2. ~Settled'
    BY <2>1 DEF Settled
  <2>3. QED
    BY <1>1, <2>1, <2>2 DEF AccountInv
<1>10. CASE TimesOut \/ Abandon
  BY <1>3, <1>10 DEF TimesOut, NotesCall, Abandon, Serving, TypeOK, CallerState
<1>11. CASE Joined
  <2>1. caller.at = "join" /\ caller'.at = "idle" /\ told' = told
    BY <1>11 DEF Joined, Waits
  <2>2. QED
    BY <1>5, <2>1 DEF Settled, Listed
<1>12. CASE ClockExpires \/ UNCHANGED vars
  <2>1. UNCHANGED <<caller, return_msg_queue, told>>
    BY <1>12 DEF ClockExpires, loopRest, vars, callVars
  <2>2. (Settled' <=> Settled) /\ (Listed' <=> Listed)
    BY <2>1 DEF Settled, Listed, Received
  <2>3. CASE Listed
    <3>1. \A w \in LostWrites \ told : Covers(Received.failures, w) => Covers(Received.failures, w)'
      BY <1>1, <2>1 DEF Covers, Received, FileOf
    <3>2. QED
      BY <1>1, <1>4, <2>1, <2>2, <2>3, <3>1 DEF AccountInv
  <2>4. CASE ~Listed
    BY <1>5, <2>1, <2>2, <2>4
  <2>5. QED
    BY <2>3, <2>4
<1>13. QED
  BY <1>6, <1>7, <1>8, <1>9, <1>10, <1>11, <1>12 DEF Elsewhere, Waiting

----------------------------------------------------------------------------
(* The writer keeps its promise. *)

LEMMA StepKeepsPromise ==
  ASSUME PromiseInv, [Next]_vars, [~Interrupt]_vars
  PROVE  PromiseInv' /\ [Promise!Next]_<<dest, stored, LostWrites, told, answer>>
<1>1. TypeOK /\ WhereInv /\ ToldAreLost /\ CallerInv /\ AskInv /\ AccountInv /\ DataInv
  BY DEF PromiseInv, DataInv
<1>2. DataInv'
  BY <1>1, StepSettles
<1>3. ~Interrupt
  <2>1. ASSUME Interrupt, UNCHANGED vars PROVE FALSE
    <3>1. caller' = caller
      BY <2>1 DEF vars, callVars
    <3>2. caller.op \in {"close", "flush"} /\ caller' = [op |-> "idle", at |-> "idle", name |-> None]
      BY <2>1 DEF Interrupt, Returns, Waits
    <3>3. caller'.op = "idle"
      BY <3>2
    <3>4. QED
      BY <3>1, <3>2, <3>3
  <2>2. QED
    BY <2>1
<1>4. CASE Worker
  <2>1. Effect
    BY <1>1, <1>4, WorkerIs
  <2>2. CallerInv'
    BY <1>1, <2>1 DEF CallerInv, Effect
  <2>3. AskInv'
    <3>1. CASE ~Serving
      BY <2>1, <3>1 DEF AskInv, Serving, Effect
    <3>2. QED
      BY <1>1, <1>4, <3>1, WorkerAnswers
  <2>4. AccountInv'
    BY <1>1, <1>4, WorkerAccounts
  <2>5. Promise!Next
    BY <1>1, <2>1, WorkerSettles DEF Promise!Next
  <2>6. QED
    BY <1>2, <2>2, <2>3, <2>4, <2>5 DEF PromiseInv
<1>5. ASSUME NEW n \in Names, filewriter_write(n)
      PROVE  PromiseInv' /\ Promise!Next
  <2>1. CallerInv' /\ AskInv' /\ AccountInv'
    BY <1>1, <1>5, AcceptAccounts
  <2>2. LostWrites' = LostWrites
    BY <1>1, <1>5, AcceptStep
  <2>3. /\ Len(dest) < MaxWrites /\ dest' = Append(dest, n) /\ answer' = "none"
        /\ stored' = stored /\ told' = told
    BY <1>5 DEF filewriter_write, callRest, fileVars
  <2>4. Promise!Accept
    BY <2>2, <2>3 DEF Promise!Accept
  <2>5. QED
    BY <1>2, <2>1, <2>4 DEF PromiseInv, Promise!Next
<1>6. CASE Elsewhere
  <2>1. CallerInv' /\ AskInv' /\ AccountInv'
    BY <1>1, <1>3, <1>6, CallerStep, ElsewhereAsks, ElsewhereAccounts
  <2>2. UNCHANGED <<dest, stored, LostWrites>>
    BY <1>1, <1>6, ElsewhereIs
  <2>3. CASE TakeFailures
    <3>1. /\ InFlight = {} /\ told' = LostWrites
          /\ \/ answer' = "losses"
             \/ answer' = "saved" /\ told' = told
      BY <1>1, <2>3, LossesAreListed
    <3>2. Promise!Unsettled = {}
      BY <1>1, <3>1, UnsettledIs
    <3>3. Promise!AnswerLosses \/ Promise!AnswerSaved
      BY <2>2, <3>1, <3>2 DEF Promise!AnswerLosses, Promise!AnswerSaved
    <3>4. QED
      BY <1>2, <2>1, <3>3 DEF PromiseInv, Promise!Next
  <2>4. CASE ~TakeFailures
    <3>1. told' = told
      BY <1>6, <2>4 DEF Elsewhere, filewriter_open_as_new, filewriter_close,
         filewriter_close_all_after_write, filewriter_end, Waiting, Ask, TakeStatus, TimesOut, Abandon,
         Joined, Interrupt, ClockExpires, loopRest, vars
    <3>2. answer' = answer \/ answer' \in {"none", "released", "gave_up", "interrupted", "ended"}
      BY <1>6, <2>4 DEF Elsewhere, filewriter_open_as_new, filewriter_close,
         filewriter_close_all_after_write, filewriter_end, Waiting, Ask, TakeStatus, TimesOut, NotesCall,
         Joined, Interrupt, Abandon, Returns, ClockExpires, loopRest, vars, callVars
    <3>3. CASE answer' = answer
      BY <1>2, <2>1, <2>2, <3>1, <3>3 DEF PromiseInv
    <3>4. CASE answer' \in {"none", "released", "gave_up", "interrupted", "ended"}
      <4>1. Promise!AnswerElse
        BY <2>2, <3>1, <3>4 DEF Promise!AnswerElse
      <4>2. QED
        BY <1>2, <2>1, <4>1 DEF PromiseInv, Promise!Next
    <3>5. QED
      BY <3>2, <3>3, <3>4
  <2>5. QED
    BY <2>3, <2>4
<1>7. QED
  BY <1>4, <1>5, <1>6, StepIs

LEMMA PromiseHolds ==
  ASSUME Init
  PROVE  PromiseInv /\ Promise!Init
<1>1. DataInv /\ InFlight = {} /\ LostWrites = {}
  BY InitPlaced
<1>2. /\ dest = <<>> /\ stored = {} /\ told = {} /\ answer = "none" /\ ~abandoned
      /\ input_queue = <<>> /\ return_msg_queue = <<>> /\ worker.at = "loop"
      /\ caller.at = "idle" /\ caller.op = "idle"
  BY DEF Init
<1>3. CallerInv /\ AskInv
  BY <1>2 DEF CallerInv, AskInv, Queues, Resolving
<1>4. AccountInv
  BY <1>1 DEF AccountInv
<1>5. Promise!Init
  BY <1>1, <1>2 DEF Promise!Init
<1>6. QED
  BY <1>1, <1>3, <1>4, <1>5 DEF PromiseInv

(* As long as no wait is interrupted, every run of the writer and of the script that
   calls it is one of OutputPromise: a flush returns "saved" only when every write
   is stored or was told of, and its losses are all those there are
   (filewriter_close_all_after_write, open_failures).  After an interrupt the next
   call may take the reply that the interrupted one left: see flush_after_ctrl_c. *)
THEOREM PromiseIsKept == Spec /\ [][~Interrupt]_vars => KeepsPromise
<1>1. Init => PromiseInv /\ Promise!Init
  BY PromiseHolds
<1>2. PromiseInv /\ [Next]_vars /\ [~Interrupt]_vars =>
        PromiseInv' /\ [Promise!Next]_<<dest, stored, LostWrites, told, answer>>
  BY StepKeepsPromise
<1>3. QED
  BY <1>1, <1>2, PTL DEF Spec, KeepsPromise, Promise!Spec

----------------------------------------------------------------------------
(* What is pending under a path. *)

(* As many writes are pending under each path, where the counts are p, as the
   sets U of the writes to it have. *)
Counts(p, U) == \A n \in Names : p[n] = Cardinality(U[n])

(* The writes in flight, by the path they are pending under. *)
Places == [n \in Names |-> {w \in InFlight : PendingUnder(w) = n}]

CountInv == ~abandoned => Counts(pending, Places)

LEMMA WriteIsFinite == IsFiniteSet(Write)
<1>1. MaxWrites \in Int
  BY FileWriterAssumption
<1>2. QED
  BY <1>1, FS_Interval DEF Write

(* An ascending queue holds as many writes as it is long. *)
LEMMA QueueCount ==
  ASSUME NEW q \in Seq(Write), Ascending(q)
  PROVE  /\ IsFiniteSet({q[i] : i \in DOMAIN q})
         /\ Cardinality({q[i] : i \in DOMAIN q}) = Len(q)
<1> DEFINE D == DOMAIN q
           S == {q[i] : i \in D}
<1>1. Len(q) \in Nat /\ D = 1 .. Len(q) /\ IsFiniteSet(D) /\ Cardinality(D) = Len(q)
  <2>1. Len(q) \in Nat /\ D = 1 .. Len(q)
    BY LenProperties
  <2>2. IsFiniteSet(1 .. Len(q)) /\ Cardinality(1 .. Len(q)) = Len(q)
    BY <2>1, FS_Interval
  <2>3. QED
    BY <2>1, <2>2
<1>2. q \in [D -> S]
  BY LenProperties, <1>1
<1>3. \A i, j \in D : q[i] = q[j] => i = j
  <2> SUFFICES ASSUME NEW i \in D, NEW j \in D, i # j PROVE q[i] # q[j]
    OBVIOUS
  <2>1. i \in Nat /\ j \in Nat
    BY <1>1
  <2>2. i < j \/ j < i
    BY <2>1
  <2>3. QED
    <3>1. q[i] \in Write /\ q[j] \in Write
      BY <1>1, ElementOfSeq
    <3>2. q[i] < q[j] \/ q[j] < q[i]
      BY <2>2 DEF Ascending
    <3>3. QED
      BY <3>1, <3>2 DEF Write
<1>4. \A w \in S : \E i \in D : q[i] = w
  OBVIOUS
<1> HIDE DEF D, S
<1>5. q \in Bijection(D, S)
  BY <1>2, <1>3, <1>4 DEF Bijection, Injection, Surjection, IsInjective
<1>6. ExistsBijection(D, S)
  BY <1>5 DEF ExistsBijection
<1>7. QED
  BY <1>1, <1>6, FS_Bijection DEF D, S

(* Writes that are retired are no longer counted. *)
LEMMA RetiredCounts ==
  ASSUME NEW p \in [Names -> Nat], NEW U \in [Names -> SUBSET Write], Counts(p, U),
         NEW f \in Names, NEW R \in SUBSET U[f]
  PROVE  Counts(Retired(p, f, Cardinality(R)), [U EXCEPT ![f] = @ \ R])
<1>1. IsFiniteSet(Write) /\ IsFiniteSet(U[f])
  BY WriteIsFinite, FS_Subset
<1>2. IsFiniteSet(R) /\ Cardinality(R) \in Nat /\ Cardinality(U[f]) \in Nat /\ Cardinality(R) <= Cardinality(U[f])
  BY <1>1, FS_Subset, FS_CardinalityType
<1>3. U[f] \cap R = R
  OBVIOUS
<1>4. Cardinality(U[f] \ R) = Cardinality(U[f]) - Cardinality(R)
  BY <1>1, <1>3, FS_Difference
<1>5. p[f] = Cardinality(U[f])
  BY DEF Counts
<1> DEFINE k == IF p[f] > Cardinality(R) THEN p[f] - Cardinality(R) ELSE 0
<1>6. k = Cardinality(U[f] \ R)
  BY <1>2, <1>4, <1>5
<1>7. Retired(p, f, Cardinality(R)) = [p EXCEPT ![f] = k]
  BY DEF Retired
<1> HIDE DEF k
<1>8. QED
  BY <1>6, <1>7 DEF Counts

(* A write whose path is resolved is counted under its file. *)
LEMMA MovedCounts ==
  ASSUME pending \in [Names -> Nat], NEW U \in [Names -> SUBSET Write], Counts(pending, U),
         NEW n \in Names, NEW f \in Names, n # f, NEW w \in U[n], w \notin U[f]
  PROVE  Counts(Moved(n, f), [U EXCEPT ![n] = @ \ {w}, ![f] = @ \cup {w}])
<1>1. IsFiniteSet(Write) /\ IsFiniteSet(U[n]) /\ IsFiniteSet(U[f])
  BY WriteIsFinite, FS_Subset
<1>2. /\ Cardinality(U[n]) \in Nat /\ Cardinality(U[n]) # 0
      /\ Cardinality(U[n] \ {w}) = Cardinality(U[n]) - 1
      /\ Cardinality(U[f] \cup {w}) = Cardinality(U[f]) + 1
  BY <1>1, FS_CardinalityType, FS_EmptySet, FS_RemoveElement, FS_AddElement
<1>3. pending[n] = Cardinality(U[n]) /\ pending[f] = Cardinality(U[f])
  BY DEF Counts
<1>4. Moved(n, f) = [pending EXCEPT ![n] = @ - 1, ![f] = @ + 1]
  BY <1>2, <1>3 DEF Moved
<1>5. /\ Moved(n, f)[n] = pending[n] - 1 /\ Moved(n, f)[f] = pending[f] + 1
      /\ \A g \in Names \ {n, f} : Moved(n, f)[g] = pending[g]
  BY <1>4
<1> DEFINE V == [U EXCEPT ![n] = @ \ {w}, ![f] = @ \cup {w}]
<1>6. V[n] = U[n] \ {w} /\ V[f] = U[f] \cup {w} /\ \A g \in Names \ {n, f} : V[g] = U[g]
  OBVIOUS
<1> HIDE DEF V
<1>7. \A g \in Names : Moved(n, f)[g] = Cardinality(V[g])
  BY <1>2, <1>3, <1>5, <1>6 DEF Counts
<1>8. QED
  BY <1>7 DEF Counts, V

(* The writes to a path that no step on file f touches. *)
Others(f) ==
  [n \in Names |-> {w \in InInput : dest[w] = n}
                     \cup IF n \in Files \ {f} THEN InQueue(n) ELSE {}]

With(f, M) == [Others(f) EXCEPT ![f] = @ \cup M]

Held(f) == InQueue(f) \cup ({worker.message} \ {0})

(* Each write in flight is in one place, and pending under the path of that place. *)
PlacesSplit ==
  \A n \in Names : \A w :
    w \in Places[n] <=> \/ w \in InInput /\ dest[w] = n
                        \/ n \in Files /\ w \in InQueue(n)
                        \/ w = worker.message /\ w # 0 /\ worker.name = n

LEMMA PlacesAre == TypeOK /\ WhereInv => PlacesSplit
<1> SUFFICES ASSUME TypeOK, WhereInv, NEW n \in Names, NEW w
             PROVE  w \in Places[n] <=> \/ w \in InInput /\ dest[w] = n
                                        \/ n \in Files /\ w \in InQueue(n)
                                        \/ w = worker.message /\ w # 0 /\ worker.name = n
  BY DEF PlacesSplit
<1>1. /\ \A v \in InInput : v \in Nat
      /\ \A g \in Files : \A v \in InQueue(g) : FileOf(v) = g /\ \A u \in InInput : v < u
  <2>1. DOMAIN dest \subseteq Nat
    BY LenProperties DEF TypeOK
  <2>2. \A g \in Files : \A v \in InQueue(g) : FileOf(v) = g /\ \A u \in InInput : v < u
    BY DEF WhereInv, QueuesPlaced, QueueOf, InQueue, Queued
  <2>3. \A v \in InInput : v \in DOMAIN dest
    BY FlightAccepted, FlightIs
  <2>4. QED
    BY <2>1, <2>2, <2>3
<1>2. /\ worker.message # 0 =>
           /\ worker.at \in {"resolve", "write", "flush"}
           /\ \A u \in InInput : worker.message < u
           /\ worker.at = "resolve" => /\ dest[worker.message] = worker.name
                                       /\ \A g \in Files : \A v \in InQueue(g) : v < worker.message
           /\ worker.at # "resolve" => FileOf(worker.message) = worker.name
      /\ worker.message \in {0} \cup Write
  BY TypingIs DEF WhereInv, MessagePlaced, Typing, WorkerRecord, Stage
<1>3. w \in Places[n] <=> w \in InFlight /\ PendingUnder(w) = n
  BY DEF Places
<1>4. CASE w \in InInput
  <2>1. PendingUnder(w) = dest[w] /\ w \in InFlight
    BY <1>4, FlightIs DEF PendingUnder
  <2>2. \A g \in Files : w \notin InQueue(g)
    BY <1>1, <1>4
  <2>3. w # worker.message \/ w = 0
    BY <1>1, <1>2, <1>4 DEF Write
  <2>4. QED
    BY <1>3, <1>4, <2>1, <2>2, <2>3
<1>5. CASE w \notin InInput /\ w = worker.message /\ w # 0
  <2>1. PendingUnder(w) = worker.name
    BY <1>2, <1>5 DEF PendingUnder
  <2>2. \A g \in Files : w \in InQueue(g) => worker.at # "resolve" /\ worker.name = g
    BY <1>1, <1>2, <1>5 DEF Write
  <2>3. QED
    BY <1>3, <1>5, <2>1, <2>2, FlightIs
<1>6. CASE w \notin InInput /\ ~(w = worker.message /\ w # 0)
  <2>1. \A g \in Files : w \in InQueue(g) => PendingUnder(w) = g
    <3> SUFFICES ASSUME NEW g \in Files, w \in InQueue(g) PROVE PendingUnder(w) = g
      OBVIOUS
    <3>1. w \in DOMAIN dest
      BY FlightAccepted, FlightIs
    <3>2. w # 0
      BY <3>1, LenProperties DEF TypeOK
    <3>3. QED
      BY <1>1, <1>6, <3>2 DEF PendingUnder
  <2>2. QED
    BY <1>3, <1>6, <2>1, FlightIs
<1>7. QED
  BY <1>4, <1>5, <1>6

LEMMA FlightTyped ==
  ASSUME TypeOK, WhereInv
  PROVE  /\ InFlight \subseteq Write /\ InInput \subseteq Write
         /\ \A g \in Files : InQueue(g) \subseteq Write
<1>1. DOMAIN dest \subseteq Write
  <2>1. DOMAIN dest = 1 .. Len(dest) /\ Len(dest) \in Nat /\ Len(dest) <= MaxWrites
    BY LenProperties DEF TypeOK
  <2>2. MaxWrites \in Nat
    BY FileWriterAssumption
  <2>3. QED
    BY <2>1, <2>2 DEF Write
<1>2. InFlight \subseteq Write
  BY <1>1, FlightAccepted
<1>3. QED
  BY <1>2, FlightIs

LEMMA OthersTyped ==
  ASSUME TypeOK, WhereInv, NEW f \in Files
  PROVE  Others(f) \in [Names -> SUBSET Write]
BY FlightTyped DEF Others

(* What is not with others of file f is in its queue or in the worker's hands. *)
PlacesHeldAt ==
  \A f \in Files : TypeOK /\ WhereInv /\ (worker.message # 0 => worker.name = f) =>
    /\ Places = With(f, Held(f)) /\ Places \in [Names -> SUBSET Write]
    /\ Held(f) \in SUBSET Write

LEMMA PlacesHeld == PlacesHeldAt
<1> SUFFICES ASSUME NEW f \in Files, TypeOK, WhereInv, worker.message # 0 => worker.name = f
             PROVE  /\ Places = With(f, Held(f)) /\ Places \in [Names -> SUBSET Write]
                    /\ Held(f) \in SUBSET Write
  BY DEF PlacesHeldAt
<1>1. PlacesSplit
  BY PlacesAre
<1>2. f \in Names
  BY FileWriterAssumption
<1>3. InFlight \subseteq Write
  BY FlightTyped
<1>4. \A n \in Names : Places[n] = With(f, Held(f))[n]
  <2>1. /\ \A n \in Names \ {f} : With(f, Held(f))[n] = Others(f)[n]
        /\ With(f, Held(f))[f] = Others(f)[f] \cup Held(f)
    BY <1>2 DEF With, Others
  <2>2. \A n \in Names \ {f} : \A w : w \in Others(f)[n] <=> w \in Places[n]
    BY <1>1 DEF Others, PlacesSplit
  <2>3. \A w : w \in Others(f)[f] \cup Held(f) <=> w \in Places[f]
    BY <1>1, <1>2 DEF Others, PlacesSplit, Held
  <2>4. QED
    BY <2>1, <2>2, <2>3
<1>5. Places \in [Names -> SUBSET Write]
  BY <1>3 DEF Places
<1>6. Places = With(f, Held(f))
  <2> DEFINE W == With(f, Held(f))
  <2>1. Places = [n \in Names |-> Places[n]]
    BY <1>5
  <2>2. W = [n \in Names |-> W[n]]
    BY DEF With, Others
  <2> HIDE DEF W
  <2>3. \A n \in Names : Places[n] = W[n]
    BY <1>4 DEF W
  <2>4. Places = W
    BY <2>1, <2>2, <2>3
  <2>5. QED
    BY <2>4 DEF W
<1>7. Held(f) \in SUBSET Write
  BY <1>3, FlightIs DEF Held
<1>8. QED
  BY <1>5, <1>6, <1>7

LEMMA PlacesHeldNext == PlacesHeldAt'
BY PlacesHeld, PTL

(* A step on file f either leaves in its queue and in the worker's hands the writes
   M, and pending what p counts, or retires them all. *)
Outcome(f, M, p) ==
  /\ \A g \in Files \ {f} : files'[g] = files[g]
  /\ worker'.message # 0 => worker'.name = f
  /\ \/ Held(f)' = M /\ pending' = p
     \/ Held(f)' = {} /\ pending' = Retired(p, f, Cardinality(M))

LEMMA OutcomeCounts ==
  ASSUME TypeOK, WhereInv, TypeOK', WhereInv', NEW f \in Files,
         NEW M \in SUBSET Write, M \cap InInput = {},
         NEW p \in [Names -> Nat], Counts(p, With(f, M)), Outcome(f, M, p),
         UNCHANGED <<input_queue, dest>>
  PROVE  Counts(pending', Places')
<1> DEFINE O == Others(f)
<1>1. f \in Names
  BY FileWriterAssumption
<1>2. O \in [Names -> SUBSET Write]
  BY OthersTyped
<1>3. Places' = [Others(f)' EXCEPT ![f] = @ \cup Held(f)']
  BY PlacesHeldNext DEF PlacesHeldAt, With, Outcome
<1>4. Others(f)' = O
  <2>1. \A g \in Files \ {f} : InQueue(g)' = InQueue(g)
    BY DEF InQueue, Outcome
  <2>2. InInput' = InInput
    BY DEF InInput
  <2>3. QED
    BY <2>1, <2>2 DEF Others
<1>5. M \cap O[f] = {}
  BY <1>1 DEF Others
<1>6. With(f, M) = [O EXCEPT ![f] = @ \cup M]
  BY DEF With
<1> HIDE DEF O
<1>7. CASE Held(f)' = M /\ pending' = p
  BY <1>3, <1>4, <1>6, <1>7
<1>8. CASE Held(f)' = {} /\ pending' = Retired(p, f, Cardinality(M))
  <2> DEFINE U == [O EXCEPT ![f] = @ \cup M]
  <2>1. U \in [Names -> SUBSET Write] /\ M \in SUBSET U[f]
    BY <1>1, <1>2
  <2>2. [U EXCEPT ![f] = @ \ M] = [O EXCEPT ![f] = @ \cup {}]
    BY <1>1, <1>2, <1>5
  <2>3. Counts(p, U)
    BY <1>6
  <2> HIDE DEF U
  <2>4. Counts(Retired(p, f, Cardinality(M)), [U EXCEPT ![f] = @ \ M])
    BY <1>1, <2>1, <2>3, RetiredCounts
  <2>5. Places' = [U EXCEPT ![f] = @ \ M]
    BY <1>3, <1>4, <1>8, <2>2
  <2>6. QED
    BY <1>8, <2>4, <2>5
<1>9. QED
  BY <1>7, <1>8 DEF Outcome

(* The kinds of step on one file. *)
LEMMA KeptOutcome ==
  ASSUME NEW f, NEW q, files'[f].queue = q.queue, worker'.message = 0
  PROVE  Held(f)' = Queued(q)
BY DEF Held, InQueue, Queued

LEMMA EmptyOutcome ==
  ASSUME NEW f, files'[f].queue = <<>>, worker'.message = 0
  PROVE  Held(f)' = {}
BY DEF Held, InQueue, Queued

LEMMA DrainOutcome ==
  ASSUME Typing, NEW f \in Files, NEW fc \in Control, Ascending(fc.queue), Drain(f, fc)
  PROVE  /\ Held(f)' = Queued(fc) /\ (worker'.message # 0 => worker'.name = f)
         /\ \A g \in Files \ {f} : files'[g] = files[g]
<1>1. fc.queue \in Seq(Write)
  BY DEF Control, OutputFileType
<1>2. CASE /\ fc.queue # <<>>
           /\ files' = [files EXCEPT ![f] = [fc EXCEPT !.queue = Tail(@)]]
           /\ worker' = At("write", f, Head(fc.queue))
  <2>1. files'[f].queue = Tail(fc.queue)
    BY <1>2 DEF Typing, Control, OutputFileType
  <2>2. worker'.message = Head(fc.queue) /\ worker'.name = f /\ Head(fc.queue) \in Write
    BY <1>1, <1>2, MoveFields, HeadTail DEF Typing
  <2> DEFINE T == {Tail(fc.queue)[i] : i \in DOMAIN Tail(fc.queue)}
             h == Head(fc.queue)
  <2>3. Held(f)' = T \cup {h}
    BY <2>1, <2>2 DEF Held, InQueue, Queued, Write
  <2>4. h \in Queued(fc) /\ T \subseteq Queued(fc) /\ \A w \in Queued(fc) : w = h \/ w \in T
    BY <1>1, <1>2, TailAscends DEF Queued
  <2> HIDE DEF T, h
  <2>5. QED
    BY <1>2, <2>2, <2>3, <2>4 DEF Typing
<1>3. CASE /\ fc.queue = <<>>
           /\ files' = [files EXCEPT ![f] = [fc EXCEPT !.close_after_write = FALSE]]
           /\ worker' = IF fc.close_after_write \/ worker.command.cmd \in Closing
                        THEN At("close", f, 0) ELSE Onward(f)
  <2>1. files'[f].queue = fc.queue
    BY <1>3 DEF Typing, Control, OutputFileType
  <2>2. worker'.message = 0
    BY <1>3, MoveFields, OnwardIs DEF Typing
  <2>3. QED
    BY <1>3, <2>1, <2>2, KeptOutcome DEF Typing
<1>4. QED
  BY <1>2, <1>3 DEF Drain

LEMMA TryOpenOutcome ==
  ASSUME Typing, NEW f \in Files, NEW fc \in Control, Ascending(fc.queue), NEW p,
         try_open(f, fc, p)
  PROVE  Outcome(f, Queued(fc), p)
<1>1. CASE Drain(f, fc) /\ pending' = p
  BY <1>1, DrainOutcome DEF Outcome
<1>2. CASE files' = [files EXCEPT ![f] = Started(fc)] /\ worker' = At("open", f, 0) /\ pending' = p
  <2>1. files'[f].queue = fc.queue
    BY <1>2 DEF Typing, Control, OutputFileType, Started
  <2>2. worker'.message = 0
    BY <1>2, MoveFields DEF Typing
  <2>3. QED
    BY <1>2, <2>1, <2>2, KeptOutcome DEF Outcome, Typing
<1>3. CASE /\ files' = [files EXCEPT ![f] = TimedOut(fc)] /\ worker' = Onward(f)
           /\ pending' = Retired(p, f, Len(fc.queue))
  <2>1. files'[f].queue = <<>>
    BY <1>3 DEF Typing, Control, OutputFileType, TimedOut, fail, discard
  <2>2. worker'.message = 0
    BY <1>3, OnwardIs DEF Typing
  <2>3. Cardinality(Queued(fc)) = Len(fc.queue)
    BY QueueCount DEF Queued, Control, OutputFileType
  <2>4. QED
    BY <1>3, <2>1, <2>2, <2>3, EmptyOutcome DEF Outcome, Typing
<1>4. QED
  BY <1>1, <1>2, <1>3 DEF try_open

LEMMA CloseOutcome ==
  ASSUME Typing, NEW f \in Files, NEW fc \in Control, Ascending(fc.queue),
         fc.queue # <<>> => fc.status \in {"waiting", "open"}, close(f, fc)
  PROVE  Outcome(f, Queued(fc), pending)
<1>1. CASE Drain(f, fc) /\ pending' = pending
  BY <1>1, DrainOutcome DEF Outcome
<1>2. CASE /\ fc.status # "open"
           /\ files' = [files EXCEPT ![f] = ForNew(CloseUnheld(fc))] /\ worker' = Onward(f)
           /\ pending' = IF fc.status = "waiting" THEN Retired(pending, f, Len(fc.queue)) ELSE pending
  <2>1. files'[f].queue = <<>>
    <3>1. CloseUnheld(fc) \in Control
      BY ControlOperators
    <3>2. files'[f].queue = CloseUnheld(fc).queue
      BY <1>2, <3>1, ForNewKeeps DEF Typing
    <3>3. CloseUnheld(fc).queue = <<>>
      BY <1>2 DEF CloseUnheld, FAILED, Control, OutputFileType
    <3>4. QED
      BY <3>2, <3>3
  <2>2. Held(f)' = {} /\ worker'.message = 0
    BY <1>2, <2>1, OnwardIs, EmptyOutcome DEF Typing
  <2>3. CASE fc.status = "waiting"
    <3>1. Cardinality(Queued(fc)) = Len(fc.queue)
      BY QueueCount DEF Queued, Control, OutputFileType
    <3>2. QED
      BY <1>2, <2>2, <2>3, <3>1 DEF Outcome, Typing
  <2>4. CASE fc.status # "waiting"
    <3>1. Queued(fc) = {}
      BY <1>2, <2>4, EmptyQueued
    <3>2. QED
      BY <1>2, <2>2, <2>4, <3>1 DEF Outcome, Typing
  <2>5. QED
    BY <2>3, <2>4
<1>3. QED
  BY <1>1, <1>2 DEF close

LEMMA FailsOutcome ==
  ASSUME Typing, NEW f \in Files, NEW st \in FAILED, FileFails(f, st),
         Ascending(files[f].queue), worker.message \notin InQueue(f)
  PROVE  Outcome(f, Held(f), pending)
<1> DEFINE m == {worker.message} \ {0}
           q == files[f].queue
           fc == [files[f] EXCEPT !.dropped = @ \cup m]
<1>1. files[f] \in Control /\ q \in Seq(Write) /\ m \in SUBSET Write
  BY DEF Typing, Control, OutputFileType, WorkerRecord, Stage
<1>2. fc \in Control /\ fc.queue = q
  BY <1>1 DEF Control, OutputFileType
<1>3. fail(fc, st) \in Control /\ fail(fc, st).queue = <<>>
  <2>1. fail(fc, st) \in Control
    BY <1>2, ControlOperators
  <2>2. fail(fc, st).queue = <<>>
    BY <1>2 DEF fail, discard, Control, OutputFileType
  <2>3. QED
    BY <2>1, <2>2
<1>4. files'[f].queue = <<>>
  <2>1. files' = [files EXCEPT ![f] = ForNew(fail(fc, st))]
    BY DEF FileFails
  <2>2. QED
    BY <1>3, <2>1, ForNewKeeps DEF Typing
<1>5. worker'.message = 0 /\ Held(f)' = {}
  BY <1>4, OnwardIs, EmptyOutcome DEF FileFails, Typing
<1>6. Len(q) + Cardinality(m) = Cardinality(Held(f))
  <2>1. /\ IsFiniteSet(InQueue(f)) /\ Cardinality(InQueue(f)) = Len(q) /\ Len(q) \in Nat
    BY <1>1, QueueCount, LenProperties DEF InQueue, Queued
  <2>2. IsFiniteSet(m) /\ Cardinality(m) \in Nat
    BY <1>1, WriteIsFinite, FS_Subset, FS_CardinalityType
  <2>3. InQueue(f) \cap m = {}
    OBVIOUS
  <2> HIDE DEF m, q
  <2>4. Cardinality(InQueue(f) \cup m) = Cardinality(InQueue(f)) + Cardinality(m) - Cardinality({})
    BY <2>1, <2>2, <2>3, FS_Union
  <2>5. QED
    BY <2>1, <2>2, <2>4, FS_EmptySet DEF Held, m
<1>7. pending' = Retired(pending, f, Len(q) + Cardinality(m))
  BY <1>2 DEF FileFails
<1>8. \A g \in Files \ {f} : files'[g] = files[g]
  BY DEF FileFails, Typing
<1>9. QED
  BY <1>5, <1>6, <1>7, <1>8 DEF Outcome

(* Before a step on file f, its queue and the worker's hands. *)
LEMMA HeldApart ==
  ASSUME TypeOK, WhereInv, NEW f \in Files
  PROVE  /\ Held(f) \cap InInput = {} /\ Ascending(files[f].queue)
         /\ Held(f) \in SUBSET Write /\ InQueue(f) \in SUBSET Write
         /\ InQueue(f) \subseteq Held(f) /\ (worker.message = 0 => Held(f) = InQueue(f))
<1>1. /\ Ascending(files[f].queue)
      /\ \A w \in InQueue(f) : \A v \in InInput : w < v
  BY DEF WhereInv, QueuesPlaced, QueueOf, InQueue, Queued
<1>2. worker.message # 0 => \A v \in InInput : worker.message < v
  BY DEF WhereInv, MessagePlaced
<1>3. Held(f) \in SUBSET Write /\ InQueue(f) \in SUBSET Write
  BY FlightTyped, FlightIs DEF Held
<1>4. \A w \in Held(f) : w \notin InInput
  <2> SUFFICES ASSUME NEW w \in InInput PROVE w \notin Held(f)
    OBVIOUS
  <2>1. w \in Nat /\ ~(w < w) /\ w # 0
    BY FlightTyped DEF Write
  <2>2. w \notin InQueue(f) /\ (worker.message # 0 => worker.message # w)
    BY <1>1, <1>2, <2>1
  <2>3. QED
    BY <2>1, <2>2 DEF Held
<1>5. QED
  BY <1>1, <1>3, <1>4 DEF Held

(* A call of the operating system ends. *)
LEMMA CallCounts ==
  ASSUME TypeOK, WhereInv, TypeOK', WhereInv', CountInv, ~abandoned,
         \/ OpenSucceeds \/ OpenLocked \/ NeverOpens \/ FlushSucceeds
         \/ WriteFails \/ CloseSucceeds \/ CloseFails
  PROVE  Counts(pending', Places')
<1> DEFINE m == worker.message
<1>1. Typing /\ pending \in [Names -> Nat]
  BY TypingIs DEF TypeOK
<1>2. worker.at \in {"open", "write", "flush", "close"}
  BY DEF OpenSucceeds, OpenLocked, NeverOpens, FlushSucceeds, WriteFails, CloseSucceeds, CloseFails,
     Ended
<1> PICK f \in Files : f = worker.name
  BY <1>1, <1>2 DEF Typing, WorkerState, IoStage
<1>3. f \in Names /\ files[f] \in Control
  BY <1>1, FileWriterAssumption DEF Typing
<1>4. UNCHANGED <<input_queue, dest>>
  BY DEF OpenSucceeds, OpenLocked, NeverOpens, FlushSucceeds, WriteFails, CloseSucceeds, CloseFails,
     ioRest
<1>5. /\ Held(f) \cap InInput = {} /\ Ascending(files[f].queue)
      /\ Held(f) \in SUBSET Write /\ InQueue(f) \in SUBSET Write
      /\ InQueue(f) \subseteq Held(f) /\ (m = 0 => Held(f) = InQueue(f))
  BY <1>3, HeldApart
<1>6. Places = With(f, Held(f)) /\ Places \in [Names -> SUBSET Write]
  BY <1>3, PlacesHeld DEF PlacesHeldAt
<1>7. Counts(pending, Places)
  BY DEF CountInv
<1>8. /\ m \notin InQueue(f) /\ (worker.at \in {"open", "close"} => m = 0)
      /\ (worker.at \in {"write", "flush"} => m \in Write)
  <2>1. worker.at \in {"write", "flush"} => m \in Write /\ \A w \in InQueue(f) : m < w
    BY <1>1 DEF Typing, WorkerState, WhereInv, MessagePlaced
  <2>2. worker.at \in {"open", "close"} => m = 0
    BY DEF WhereInv, MessagePlaced
  <2>3. 0 \notin Write /\ \A w \in Write : ~(w < w)
    BY DEF Write
  <2>4. QED
    BY <1>2, <1>5, <2>1, <2>2, <2>3
<1>9. Outcome(f, Held(f), pending) => Counts(pending', Places')
  BY <1>1, <1>3, <1>4, <1>5, <1>6, <1>7, OutcomeCounts
<1> HIDE DEF m
<1>10. CASE OpenSucceeds
  <2>1. Opened(files[f]) \in Control /\ Opened(files[f]).queue = files[f].queue
    BY <1>3, ControlOperators DEF Opened, Control, OutputFileType
  <2>2. Drain(f, Opened(files[f])) /\ pending' = pending /\ worker.at = "open"
    BY <1>10 DEF OpenSucceeds, Ended
  <2>3. Queued(Opened(files[f])) = Held(f)
    BY <1>5, <1>8, <2>1, <2>2 DEF Queued, InQueue
  <2>4. Outcome(f, Held(f), pending)
    BY <1>1, <1>3, <1>5, <2>1, <2>2, <2>3, DrainOutcome DEF Outcome
  <2>5. QED
    BY <1>9, <2>4
<1>11. CASE OpenLocked \/ CloseSucceeds
  <2>1. PICK c : /\ files' = [files EXCEPT ![f] = c] /\ c.queue = files[f].queue
                 /\ worker' = Onward(f) /\ pending' = pending /\ worker.at \in {"open", "close"}
    <3>1. CASE OpenLocked
      <4> DEFINE c == [files[f] EXCEPT !.status = "waiting"]
      <4>1. files' = [files EXCEPT ![f] = c] /\ c.queue = files[f].queue
        BY <1>3, <3>1 DEF OpenLocked, Control, OutputFileType
      <4>2. QED
        BY <3>1, <4>1 DEF OpenLocked, Ended
    <3>2. CASE CloseSucceeds
      <4> DEFINE d == [files[f] EXCEPT !.status = "closed", !.openmode = "a"]
      <4>1. d \in Control /\ d.queue = files[f].queue
        BY <1>3 DEF Control, OutputFileType, Status
      <4>2. files' = [files EXCEPT ![f] = ForNew(d)]
        BY <3>2 DEF CloseSucceeds
      <4>3. QED
        BY <3>2, <4>1, <4>2, ForNewKeeps DEF CloseSucceeds, Ended
    <3>3. QED
      BY <1>11, <3>1, <3>2
  <2>2. files'[f].queue = files[f].queue /\ worker'.message = 0
        /\ \A g \in Files \ {f} : files'[g] = files[g]
    BY <1>1, <1>3, <2>1, OnwardIs DEF Typing
  <2>3. Held(f)' = Held(f)
    BY <1>5, <1>8, <2>1, <2>2, KeptOutcome DEF InQueue
  <2>4. QED
    BY <1>9, <2>1, <2>2, <2>3 DEF Outcome
<1>12. CASE NeverOpens \/ WriteFails \/ CloseFails
  <2>1. PICK st \in FAILED : FileFails(f, st)
    BY <1>12 DEF NeverOpens, WriteFails, CloseFails, FAILED
  <2>2. QED
    BY <1>1, <1>3, <1>5, <1>8, <1>9, <2>1, FailsOutcome DEF m
<1>13. CASE FlushSucceeds
  <2>1. Drain(f, files[f]) /\ pending' = Retired(pending, f, 1) /\ m \in Write
    BY <1>8, <1>13 DEF FlushSucceeds, Ended
  <2>2. Held(f) = InQueue(f) \cup {m} /\ m \in Held(f)
    BY <2>1 DEF Held, Write, m
  <2>3. {m} \in SUBSET Places[f] /\ Cardinality({m}) = 1
    BY <1>3, <1>6, <2>2, FS_Singleton DEF With, Others
  <2>4. Counts(Retired(pending, f, 1), [Places EXCEPT ![f] = @ \ {m}])
    BY <1>1, <1>3, <1>6, <1>7, <2>3, RetiredCounts
  <2>5. [Places EXCEPT ![f] = @ \ {m}] = With(f, InQueue(f))
    <3>1. Others(f) \in [Names -> SUBSET Write]
      BY <1>3, OthersTyped
    <3>2. m \notin Others(f)[f]
      BY <1>3, <1>5, <2>2 DEF Others
    <3>3. QED
      BY <1>3, <1>6, <1>8, <2>2, <3>1, <3>2 DEF With
  <2>6. Retired(pending, f, 1) \in [Names -> Nat]
    BY <1>1, <1>3, RetiredTyped
  <2>7. Outcome(f, InQueue(f), Retired(pending, f, 1))
    BY <1>1, <1>3, <1>5, <2>1, DrainOutcome DEF Outcome, InQueue
  <2>8. InQueue(f) \cap InInput = {}
    BY <1>5
  <2>9. QED
    BY <1>3, <1>4, <1>5, <2>4, <2>5, <2>6, <2>7, <2>8, OutcomeCounts
<1>14. QED
  BY <1>10, <1>11, <1>12, <1>13

(* A path is resolved, and the file is dealt with. *)
LEMMA NamedCounts ==
  ASSUME TypeOK, WhereInv, TypeOK', WhereInv', CountInv, ~abandoned,
         close_if_open \/ open_as_new \/ status
  PROVE  Counts(pending', Places')
<1>1. Typing /\ pending \in [Names -> Nat]
  BY TypingIs DEF TypeOK
<1>2. /\ worker.at = "resolve" /\ worker.left = {} /\ worker.message = worker.command.write
      /\ worker.command.cmd \in {"close_if_open", "open_as_new", "status"}
  BY DEF close_if_open, open_as_new, status, Resolved, Ended, WhereInv, StageInv, MessagePlaced
<1>3. worker.message = 0 /\ worker.name \in Names
  BY <1>1, <1>2 DEF Typing, WorkerState, WorkerRecord, Stage, Command, Named, Global
<1> PICK f \in Files : f = Resolve[worker.name]
  BY <1>3, FileWriterAssumption
<1>4. f \in Names /\ files[f] \in Control
  BY <1>1, FileWriterAssumption DEF Typing
<1>5. UNCHANGED <<input_queue, dest>>
  BY DEF close_if_open, open_as_new, status, ioRest
<1>6. /\ Held(f) \cap InInput = {} /\ Ascending(files[f].queue)
      /\ Held(f) \in SUBSET Write /\ Held(f) = InQueue(f)
  BY <1>3, HeldApart
<1>7. Places = With(f, InQueue(f)) /\ Places \in [Names -> SUBSET Write] /\ Counts(pending, Places)
  BY <1>3, <1>6, PlacesHeld DEF PlacesHeldAt, CountInv
<1>8. Outcome(f, InQueue(f), pending) => Counts(pending', Places')
  BY <1>1, <1>5, <1>6, <1>7, OutcomeCounts
<1>9. files[f].queue # <<>> => files[f].status = "waiting"
  BY <1>2 DEF WhereInv, StageInv
<1>10. CASE files' = files /\ pending' = pending /\ worker' = Done
  <2>1. worker'.message = 0
    BY <1>1, <1>10, MoveFields DEF Typing
  <2>2. Held(f)' = InQueue(f)
    BY <1>10, <2>1, KeptOutcome DEF InQueue
  <2>3. QED
    BY <1>8, <1>10, <2>1, <2>2 DEF Outcome
<1>11. CASE close(f, files[f])
  BY <1>1, <1>4, <1>6, <1>8, <1>9, <1>11, CloseOutcome DEF InQueue
<1>12. CASE close(f, FileControl(files[f]))
  <2>1. /\ FileControl(files[f]) \in Control /\ FileControl(files[f]).queue = files[f].queue
        /\ files[f].status = "waiting" => FileControl(files[f]).status = "waiting"
    BY <1>4, ControlOperators DEF FileControl, Control, OutputFileType
  <2>2. Queued(FileControl(files[f])) = InQueue(f)
    BY <2>1 DEF InQueue, Queued
  <2>3. QED
    BY <1>1, <1>6, <1>8, <1>9, <1>12, <2>1, <2>2, CloseOutcome
<1>13. QED
  BY <1>10, <1>11, <1>12 DEF close_if_open, open_as_new, status, fileVars

(* A write joins its file. *)
LEMMA WriteCounts ==
  ASSUME TypeOK, WhereInv, TypeOK', WhereInv', CountInv, ~abandoned, write
  PROVE  Counts(pending', Places')
<1> DEFINE n == worker.name
           m == worker.message
<1>1. Typing /\ pending \in [Names -> Nat]
  BY TypingIs DEF TypeOK
<1>2. /\ worker.at = "resolve" /\ m = worker.command.write /\ worker.left = {}
      /\ worker.command.cmd = "write"
  BY DEF write, Resolved, Ended, WhereInv, StageInv, MessagePlaced
<1>3. m \in Write /\ m # 0 /\ n \in Names
  BY <1>1, <1>2 DEF Typing, WorkerState, WorkerRecord, Stage, Command, Named, Global, Write
<1> PICK f \in Files : f = Resolve[n]
  BY <1>3, FileWriterAssumption
<1>4. f \in Names /\ files[f] \in Control
  BY <1>1, FileWriterAssumption DEF Typing
<1>5. UNCHANGED <<input_queue, dest>>
  BY DEF write, ioRest
<1>6. /\ Held(f) \cap InInput = {} /\ Ascending(files[f].queue) /\ Held(f) \in SUBSET Write
      /\ Held(f) = InQueue(f) \cup {m} /\ InQueue(f) \in SUBSET Write
  BY <1>3, HeldApart DEF Held
<1>7. /\ \A v \in InInput : m < v
      /\ \A g \in Files : \A v \in InQueue(g) : v < m
  BY <1>2, <1>3 DEF WhereInv, MessagePlaced
<1>8. m \notin InInput /\ \A g \in Files : m \notin InQueue(g)
  BY <1>3, <1>7 DEF Write
<1>9. Places \in [Names -> SUBSET Write] /\ Counts(pending, Places)
  BY FlightTyped DEF Places, CountInv
<1>10. PlacesSplit
  BY PlacesAre
<1> HIDE DEF n, m
<1>11. Counts(Moved(n, f), With(f, Held(f))) /\ Moved(n, f) \in [Names -> Nat]
  <2>1. CASE n = f
    <3>1. Places = With(f, Held(f))
      BY <1>3, <2>1, PlacesHeld DEF PlacesHeldAt, n
    <3>2. Moved(n, f) = pending
      BY <2>1 DEF Moved
    <3>3. QED
      BY <1>1, <1>9, <3>1, <3>2
  <2>2. CASE n # f
    <3>1. m \in Places[n] /\ m \notin Places[f]
      BY <1>3, <1>4, <1>8, <1>10, <2>2 DEF PlacesSplit, n, m
    <3>2. Counts(Moved(n, f), [Places EXCEPT ![n] = @ \ {m}, ![f] = @ \cup {m}])
      BY <1>1, <1>3, <1>4, <1>9, <2>2, <3>1, MovedCounts
    <3> DEFINE U == [Places EXCEPT ![n] = @ \ {m}, ![f] = @ \cup {m}]
               V == With(f, Held(f))
    <3>3. ASSUME NEW g \in Names PROVE U[g] = V[g]
      <4>1. U[g] = (IF g = f THEN Places[f] \cup {m} ELSE IF g = n THEN Places[n] \ {m} ELSE Places[g])
        BY <1>3, <1>4, <1>9, <2>2
      <4>2. V[g] = IF g = f THEN Others(f)[f] \cup Held(f) ELSE Others(f)[g]
        BY <1>4 DEF With, Others
      <4>3. \A v : v \in Places[g] <=> \/ v \in Others(f)[g]
                                       \/ g = f /\ v \in InQueue(f)
                                       \/ v = m /\ g = n
        BY <1>3, <1>10 DEF PlacesSplit, Others, n, m
      <4>4. m \notin Others(f)[g]
        BY <1>8 DEF Others
      <4> HIDE DEF U, V
      <4>5. CASE g = f
        BY <1>6, <2>2, <4>1, <4>2, <4>3, <4>5
      <4>6. CASE g = n
        BY <2>2, <4>1, <4>2, <4>3, <4>4, <4>6
      <4>7. CASE g # f /\ g # n
        BY <4>1, <4>2, <4>3, <4>7
      <4>8. QED
        BY <4>5, <4>6, <4>7
    <3>4. U = V
      <4>1. U = [g \in Names |-> U[g]]
        BY <1>9
      <4>2. V = [g \in Names |-> V[g]]
        BY DEF With, Others
      <4> HIDE DEF U, V
      <4>3. QED
        BY <3>3, <4>1, <4>2
    <3>5. Moved(n, f) \in [Names -> Nat]
      BY <1>1, <1>3, <1>4, MovedTyped
    <3>6. QED
      BY <3>2, <3>4, <3>5
  <2>3. QED
    BY <2>1, <2>2
<1>12. Outcome(f, Held(f), Moved(n, f))
  <2> DEFINE fc == FileControl(files[f])
             c == [fc EXCEPT !.queue = Append(@, m)]
  <2>1. fc \in Control /\ fc.queue = files[f].queue /\ fc.queue \in Seq(Write)
    BY <1>4, ControlOperators DEF FileControl, Control, OutputFileType
  <2>2. fc.status \in FAILED => files[f].status \in FAILED
    BY DEF FileControl, FAILED
  <2>3. CASE /\ fc.status \in FAILED /\ files' = [files EXCEPT ![f].dropped = @ \cup {m}]
             /\ pending' = Retired(Moved(n, f), f, 1) /\ worker' = Done
    <3>1. files[f].queue = <<>>
      BY <1>2, <2>2, <2>3 DEF WhereInv, StageInv, FAILED
    <3>2. files'[f].queue = <<>> /\ \A g \in Files \ {f} : files'[g] = files[g]
      BY <1>1, <1>4, <2>3, <3>1 DEF Typing, Control, OutputFileType
    <3>3. worker'.message = 0 /\ Held(f)' = {}
      BY <1>1, <2>3, <3>2, MoveFields, EmptyOutcome DEF Typing
    <3>4. Held(f) = {m} /\ Cardinality({m}) = 1
      BY <1>6, <3>1, FS_Singleton, EmptyQueued DEF InQueue
    <3>5. QED
      BY <2>3, <3>2, <3>3, <3>4 DEF Outcome
  <2>4. CASE try_open(f, c, Moved(n, f))
    <3>1. \A i \in DOMAIN fc.queue : fc.queue[i] < m
      <4>1. \A i \in DOMAIN files[f].queue : files[f].queue[i] \in InQueue(f)
        BY DEF InQueue, Queued
      <4>2. QED
        BY <1>7, <2>1, <4>1
    <3>2. c \in Control /\ c.queue = Append(fc.queue, m)
      <4>1. Append(fc.queue, m) \in Seq(Write)
        BY <1>3, <2>1
      <4>2. QED
        BY <2>1, <4>1 DEF Control, OutputFileType
    <3>3. InQueue(f) = {fc.queue[i] : i \in DOMAIN fc.queue}
      BY <2>1 DEF InQueue, Queued
    <3> HIDE DEF c, fc
    <3>4. Ascending(c.queue) /\ Queued(c) = Held(f)
      <4> DEFINE r == Append(fc.queue, m)
      <4>1. /\ Ascending(r)
            /\ {r[i] : i \in DOMAIN r} = {fc.queue[i] : i \in DOMAIN fc.queue} \cup {m}
        BY <1>3, <1>6, <2>1, <3>1, AppendAscends
      <4>2. Queued(c) = {r[i] : i \in DOMAIN r}
        BY <3>2 DEF Queued
      <4>3. QED
        BY <1>6, <3>2, <3>3, <4>1, <4>2
    <3>5. QED
      BY <1>1, <2>4, <3>2, <3>4, TryOpenOutcome
  <2>5. QED
    BY <1>2, <2>3, <2>4 DEF write, n, m
<1>13. QED
  BY <1>5, <1>6, <1>11, <1>12, OutcomeCounts

(* One of the files of a command is dealt with. *)
LEMMA VisitCounts ==
  ASSUME TypeOK, WhereInv, TypeOK', WhereInv', CountInv, ~abandoned, Visit
  PROVE  Counts(pending', Places')
<1>1. Typing /\ pending \in [Names -> Nat] /\ worker.at = "visit"
  BY TypingIs DEF TypeOK, Visit
<1>2. PICK f \in worker.left :
        \/ try_open(f, files[f], pending)
        \/ /\ worker' = Onward(f) /\ pending' = pending
           /\ files' = [files EXCEPT ![f].close_after_write = TRUE]
        \/ close(f, files[f])
  BY DEF Visit
<1>3. f \in Files /\ files[f] \in Control /\ worker.message = 0
  BY <1>1, <1>2 DEF Typing, WorkerRecord, Stage, WhereInv, MessagePlaced
<1>4. UNCHANGED <<input_queue, dest>>
  BY DEF Visit, ioRest
<1>5. /\ Held(f) \cap InInput = {} /\ Ascending(files[f].queue)
      /\ Held(f) \in SUBSET Write /\ Held(f) = InQueue(f)
  BY <1>3, HeldApart
<1>6. Places = With(f, InQueue(f)) /\ Places \in [Names -> SUBSET Write] /\ Counts(pending, Places)
  BY <1>3, <1>5, PlacesHeld DEF PlacesHeldAt, CountInv
<1>7. Outcome(f, InQueue(f), pending) => Counts(pending', Places')
  BY <1>1, <1>3, <1>4, <1>5, <1>6, OutcomeCounts
<1>8. files[f].queue # <<>> => files[f].status = "waiting"
  BY <1>1, <1>3 DEF WhereInv, StageInv
<1>9. CASE try_open(f, files[f], pending)
  BY <1>1, <1>3, <1>5, <1>7, <1>9, TryOpenOutcome DEF InQueue
<1>10. CASE close(f, files[f])
  BY <1>1, <1>3, <1>5, <1>7, <1>8, <1>10, CloseOutcome DEF InQueue
<1>11. CASE /\ worker' = Onward(f) /\ pending' = pending
            /\ files' = [files EXCEPT ![f].close_after_write = TRUE]
  <2>1. /\ files'[f].queue = files[f].queue /\ worker'.message = 0
        /\ \A g \in Files \ {f} : files'[g] = files[g]
    BY <1>1, <1>3, <1>11, OnwardIs DEF Typing, Control, OutputFileType
  <2>2. Held(f)' = InQueue(f)
    BY <2>1, KeptOutcome DEF InQueue
  <2>3. QED
    BY <1>7, <1>11, <2>1, <2>2 DEF Outcome
<1>12. QED
  BY <1>2, <1>9, <1>10, <1>11

(* The path of a command cannot be resolved: a write of it is retired. *)
LEMMA RaiseCounts ==
  ASSUME TypeOK, WhereInv, TypeOK', WhereInv', CountInv, ~abandoned, ResolveRaises
  PROVE  Counts(pending', Places')
<1> DEFINE n == worker.name
           m == worker.message
           R == {m} \ {0}
<1>1. Typing /\ pending \in [Names -> Nat] /\ worker.at = "resolve" /\ m = worker.command.write
  BY TypingIs DEF TypeOK, ResolveRaises, Ended, WhereInv, MessagePlaced
<1>2. n \in Names /\ m \in {0} \cup Write /\ 0 \notin Write
  BY <1>1 DEF Typing, WorkerState, WorkerRecord, Stage, Command, Named, Global, Write
<1>3. worker'.message = 0 /\ UNCHANGED <<input_queue, dest, files>>
      /\ pending' = IF m # 0 THEN Retired(pending, n, 1) ELSE pending
  BY <1>1, MoveFields DEF ResolveRaises, Typing, ioRest
<1>4. Places \in [Names -> SUBSET Write] /\ Counts(pending, Places)
  BY FlightTyped DEF Places, CountInv
<1>5. PlacesSplit /\ PlacesSplit'
  BY PlacesAre, PTL
<1>6. InInput' = InInput /\ \A g \in Files : InQueue(g)' = InQueue(g)
  BY <1>3 DEF InInput, InQueue
<1>7. m # 0 => m \notin InInput /\ \A g \in Files : m \notin InQueue(g)
  <2> SUFFICES ASSUME m # 0 PROVE m \notin InInput /\ \A g \in Files : m \notin InQueue(g)
    OBVIOUS
  <2>1. m \in Nat /\ ~(m < m)
    BY <1>2 DEF Write
  <2>2. (\A v \in InInput : m < v) /\ \A g \in Files : \A v \in InQueue(g) : v < m
    BY <1>1 DEF WhereInv, MessagePlaced
  <2>3. QED
    BY <2>1, <2>2
<1>8. Places' = [Places EXCEPT ![n] = @ \ R]
  <2>1. Places' = [g \in Names |-> Places'[g]] /\ Places = [g \in Names |-> Places[g]]
    BY DEF Places
  <2>2. ASSUME NEW g \in Names PROVE Places'[g] = IF g = n THEN Places[n] \ R ELSE Places[g]
    <3>1. \A v : v \in Places'[g] <=> \/ v \in InInput /\ dest[v] = g
                                      \/ g \in Files /\ v \in InQueue(g)
      BY <1>3, <1>5, <1>6 DEF PlacesSplit
    <3>2. \A v : v \in Places[g] <=> \/ v \in InInput /\ dest[v] = g
                                     \/ g \in Files /\ v \in InQueue(g)
                                     \/ v = m /\ v # 0 /\ n = g
      BY <1>5 DEF PlacesSplit
    <3> HIDE DEF n, m
    <3>3. \A v : v \in R <=> v = m /\ v # 0
      OBVIOUS
    <3>4. \A v : v \in Places'[g] <=> v \in Places[g] /\ ~(g = n /\ v \in R)
      BY <1>7, <3>1, <3>2, <3>3
    <3>5. QED
      BY <3>4
  <2> HIDE DEF R
  <2>3. QED
    BY <1>2, <2>1, <2>2
<1>9. CASE m = 0
  <2>1. R = {}
    BY <1>9
  <2>2. [Places EXCEPT ![n] = @ \ R] = Places
    BY <1>2, <1>4, <2>1
  <2>3. QED
    BY <1>3, <1>4, <1>8, <1>9, <2>2
<1>10. CASE m # 0
  <2>1. R = {m} /\ m \in Places[n]
    BY <1>2, <1>5, <1>10 DEF PlacesSplit
  <2>2. R \in SUBSET Places[n] /\ Cardinality(R) = 1
    BY <2>1, FS_Singleton
  <2> HIDE DEF R, n
  <2>3. Counts(Retired(pending, n, Cardinality(R)), [Places EXCEPT ![n] = @ \ R])
    BY <1>1, <1>2, <1>4, <2>2, RetiredCounts
  <2>4. QED
    BY <1>3, <1>8, <1>10, <2>2, <2>3
<1>11. QED
  BY <1>9, <1>10

(* A write is accepted. *)
LEMMA AcceptCounts ==
  ASSUME TypeOK, WhereInv, TypeOK', WhereInv', CountInv, NEW n \in Names, filewriter_write(n)
  PROVE  Counts(pending', Places')
<1> DEFINE new == Len(dest) + 1
           c == [cmd |-> "write", name |-> n, write |-> new]
<1>1. /\ new \in Nat /\ new # 0 /\ \A w \in DOMAIN dest : w # new /\ dest'[w] = dest[w]
      /\ dest'[new] = n /\ new \in Write
  <2>1. Len(dest) \in Nat /\ Len(dest) < MaxWrites /\ DOMAIN dest = 1 .. Len(dest)
    BY LenProperties DEF filewriter_write, TypeOK
  <2>2. dest'[new] = n /\ \A w \in 1 .. Len(dest) : dest'[w] = dest[w]
    BY AppendProperties DEF filewriter_write, TypeOK
  <2>3. QED
    BY <2>1, <2>2, FileWriterAssumption DEF Write
<1>2. InInput' = InInput \cup {new}
  <2>1. c \in Command /\ input_queue' = Append(input_queue, c) /\ c.write = new
    BY <1>1 DEF filewriter_write, Submit, Command
  <2> HIDE DEF c
  <2>2. InInput' = InInput \cup ({c.write} \ {0})
    BY <2>1, SubmitIs
  <2>3. QED
    BY <1>1, <2>1, <2>2
<1> HIDE DEF new
<1>3. UNCHANGED <<files, worker>> /\ \A g : InQueue(g)' = InQueue(g)
  BY DEF filewriter_write, callRest, fileVars, InQueue
<1>4. /\ pending \in [Names -> Nat] /\ pending' = [pending EXCEPT ![n] = @ + 1]
      /\ ~abandoned /\ Counts(pending, Places) /\ Places \in [Names -> SUBSET Write]
  BY FlightTyped DEF TypeOK, filewriter_write, Active, CountInv, Places
<1>5. PlacesSplit /\ PlacesSplit'
  BY PlacesAre, PTL
<1>6. \A v \in InInput : v \in DOMAIN dest
  BY FlightAccepted, FlightIs
<1>7. new \notin InFlight
  BY <1>1, FlightAccepted
<1>8. ASSUME NEW g \in Names PROVE Places'[g] = IF g = n THEN Places[g] \cup {new} ELSE Places[g]
  <2>1. \A v : v \in Places'[g] <=> \/ (v \in InInput \/ v = new) /\ dest'[v] = g
                                    \/ g \in Files /\ v \in InQueue(g)
                                    \/ v = worker.message /\ v # 0 /\ worker.name = g
    BY <1>2, <1>3, <1>5 DEF PlacesSplit
  <2>2. \A v : v \in Places[g] <=> \/ v \in InInput /\ dest[v] = g
                                   \/ g \in Files /\ v \in InQueue(g)
                                   \/ v = worker.message /\ v # 0 /\ worker.name = g
    BY <1>5 DEF PlacesSplit
  <2>3. \A v : v \in Places'[g] <=> v \in Places[g] \/ (v = new /\ g = n)
    BY <1>1, <1>6, <2>1, <2>2
  <2>4. QED
    BY <2>3
<1>9. Cardinality(Places[n] \cup {new}) = Cardinality(Places[n]) + 1 /\ Cardinality(Places[n]) \in Nat
  <2>1. new \notin Places[n]
    BY <1>7 DEF Places
  <2>2. IsFiniteSet(Places[n])
    BY <1>4, WriteIsFinite, FS_Subset
  <2>3. QED
    BY <2>1, <2>2, FS_AddElement, FS_CardinalityType
<1>10. QED
  BY <1>4, <1>8, <1>9 DEF Counts

(* A step that moves no write from one path to another. *)
LEMMA QuietPlaces ==
  ASSUME InFlight' = InFlight, dest' = dest,
         \A w \in InFlight : (w \in InInput \/ (w = worker.message /\ worker.at = "resolve"))
                         <=> (w \in InInput' \/ (w = worker'.message /\ worker'.at = "resolve"))
  PROVE  Places' = Places
<1>1. \A w \in InFlight : PendingUnder(w)' = PendingUnder(w)
  BY DEF PendingUnder, FileOf
<1>2. \A n \in Names : {w \in InFlight : PendingUnder(w) = n}' = {w \in InFlight : PendingUnder(w) = n}
  BY <1>1
<1>3. QED
  BY <1>2 DEF Places

LEMMA TakeCounts ==
  ASSUME TypeOK, WhereInv, CountInv,
         TakeNamed \/ close_all_after_write \/ shutdown \/ closed_status \/ open_failures
  PROVE  Counts(pending', Places')
<1> DEFINE h == Head(input_queue)
<1>1. PICK cmd \in Named \cup {"close_all_after_write", "shutdown", "closed_status", "open_failures"} :
        Take(cmd) /\ (TakeNamed <=> cmd \in Named)
  BY DEF TakeNamed, close_all_after_write, shutdown, closed_status, open_failures, Take, Named
<1>2. UNCHANGED <<dest, pending>> /\ InFlight' = InFlight
  BY TakeSteps
  DEF TakeNamed, close_all_after_write, shutdown, closed_status, open_failures
<1>3. worker.message = 0 /\ worker.at = "loop" /\ ~abandoned /\ worker \in WorkerRecord
  BY <1>1, TypingIs DEF Take, WhereInv, MessagePlaced, Typing
<1>4. /\ h \in Command /\ h.cmd = cmd /\ InInput' \subseteq InInput
      /\ \A v \in InInput : v \in InInput' \/ v = h.write
      /\ h.write # 0 => h.write \in InInput
  BY <1>1, <1>2, TakeIs DEF WhereInv
<1>5. \A v \in InInput : v # 0
  BY DEF InInput
<1>6. CASE TakeNamed
  <2>1. worker' = [At("resolve", h.name, h.write) EXCEPT !.command = h]
    BY <1>6 DEF TakeNamed
  <2>2. worker'.message = h.write /\ worker'.at = "resolve"
    BY <1>3, <2>1 DEF At, WorkerRecord, Stage
  <2> HIDE DEF h
  <2>3. \A w \in InFlight : (w \in InInput \/ (w = worker.message /\ worker.at = "resolve"))
                        <=> (w \in InInput' \/ (w = worker'.message /\ worker'.at = "resolve"))
    <3>1. \A w \in InFlight : w # 0
      BY FlightTyped DEF Write
    <3>2. QED
      BY <1>3, <1>4, <2>2, <3>1
  <2>4. QED
    BY <1>2, <1>3, <2>3, QuietPlaces DEF CountInv
<1>7. CASE ~TakeNamed
  <2>1. h.write = 0
    BY <1>1, <1>4, <1>7 DEF Command, Named
  <2>2. InInput' = InInput
    BY <1>4, <1>5, <2>1
  <2>3. worker'.at # "resolve"
    <3>1. \/ \E S : worker' = Visiting(S) \/ worker' = [Visiting(S) EXCEPT !.active = FALSE]
          \/ worker' = [Done EXCEPT !.command = h]
      BY <1>7 DEF close_all_after_write, shutdown, closed_status, open_failures
    <3>2. [Done EXCEPT !.command = h].at = "timer"
      BY <1>3 DEF Done, At, WorkerRecord, Stage
    <3>3. \A S : VisitingIs(Visiting(S), h) /\ VisitingIs([Visiting(S) EXCEPT !.active = FALSE], h)
      BY <1>3, VisitingFields
    <3> HIDE DEF h
    <3>4. QED
      BY <3>1, <3>2, <3>3 DEF VisitingIs
  <2>4. \A w \in InFlight : (w \in InInput \/ (w = worker.message /\ worker.at = "resolve"))
                        <=> (w \in InInput' \/ (w = worker'.message /\ worker'.at = "resolve"))
    BY <1>3, <2>2, <2>3
  <2>5. QED
    BY <1>2, <1>3, <2>4, QuietPlaces DEF CountInv
<1>8. QED
  BY <1>6, <1>7

(* The worker moves on without a file, or comes nearer a call. *)
LEMMA MoveCounts ==
  ASSUME TypeOK, WhereInv, CountInv, ~abandoned,
         \/ Publish \/ Reserve \/ Stop \/ WriteSucceeds
         \/ GetTimesOut \/ CheckTimer \/ retry_waiting \/ WorkerEnds
  PROVE  Counts(pending', Places')
<1>1. worker \in WorkerRecord /\ files \in [Files -> Control]
  BY TypingIs DEF Typing
<1>2. UNCHANGED <<dest, pending, input_queue>> /\ files' = files
  BY <1>1 DEF Publish, Reserve, Stop, WriteSucceeds, GetTimesOut, CheckTimer, retry_waiting, Retries,
     WorkerEnds, ioRest, loopRest, fileVars
<1>3. \/ /\ worker'.message = worker.message
         /\ worker'.at = worker.at \/ (worker.at = "write" /\ worker'.at = "flush")
      \/ worker.message = 0 /\ worker.at # "resolve" /\ worker'.message = 0 /\ worker'.at # "resolve"
  <2>1. CASE Publish \/ Reserve
    <3>1. \A v : LET u == [worker EXCEPT !.io = v] IN u.message = worker.message /\ u.at = worker.at
      BY <1>1 DEF WorkerRecord, Stage
    <3>2. PICK v : worker' = [worker EXCEPT !.io = v]
      BY <2>1 DEF Publish, Reserve
    <3>3. worker'.message = worker.message /\ worker'.at = worker.at
      BY <3>1, <3>2
    <3>4. QED
      BY <3>3
  <2>2. CASE WriteSucceeds
    BY <1>1, <2>2, MoveFields DEF WriteSucceeds, Ended
  <2>3. CASE GetTimesOut \/ CheckTimer \/ retry_waiting \/ WorkerEnds
    <3>1. worker.at \in {"loop", "timer"}
      BY <2>3 DEF GetTimesOut, CheckTimer, retry_waiting, Retries, WorkerEnds
    <3>2. worker.message = 0
      BY <3>1 DEF WhereInv, MessagePlaced
    <3>3. \/ worker' \in {At("timer", None, 0), At("loop", None, 0)}
          \/ \E S : worker' = [At("visit", None, 0) EXCEPT !.command = Retry, !.left = S]
          \/ worker' = [At("ended", None, 0) EXCEPT !.active = FALSE]
      BY <2>3 DEF GetTimesOut, CheckTimer, retry_waiting, Retries, WorkerEnds
    <3>4. worker'.message = 0 /\ worker'.at # "resolve"
      BY <1>1, <3>3 DEF At, WorkerRecord, Stage
    <3>5. QED
      BY <3>1, <3>2, <3>4
  <2>4. ~Stop
    BY DEF Stop
  <2>5. QED
    BY <2>1, <2>2, <2>3, <2>4
<1>4. InInput' = InInput /\ \A g : InQueue(g)' = InQueue(g)
  BY <1>2 DEF InInput, InQueue
<1>5. InFlight' = InFlight
  BY <1>3, <1>4 DEF InFlight
<1>6. \A w \in InFlight : (w \in InInput \/ (w = worker.message /\ worker.at = "resolve"))
                      <=> (w \in InInput' \/ (w = worker'.message /\ worker'.at = "resolve"))
  BY <1>3, <1>4
<1>7. QED
  BY <1>2, <1>5, <1>6, QuietPlaces DEF CountInv

(* A step of the script's thread that writes nothing, or of time. *)
LEMMA ElsewhereCounts ==
  ASSUME TypeOK, WhereInv, CountInv, Elsewhere, ~abandoned'
  PROVE  Counts(pending', Places')
<1>1. InFlight' = InFlight /\ InInput' = InInput /\ UNCHANGED <<dest, worker>> /\ ~abandoned
  BY ElsewhereIs
<1>2. pending' = pending
  BY DEF Elsewhere, filewriter_open_as_new, filewriter_close, filewriter_close_all_after_write,
     filewriter_end, Waiting, Ask, TakeStatus, TakeFailures, TimesOut, Abandon, Joined, Interrupt,
     ClockExpires, vars
<1>3. Places' = Places
  BY <1>1, QuietPlaces
<1>4. QED
  BY <1>1, <1>2, <1>3 DEF CountInv

LEMMA StepCounts ==
  ASSUME DataInv, CountInv, [Next]_vars
  PROVE  CountInv'
<1>1. TypeOK /\ WhereInv /\ TypeOK' /\ WhereInv'
  BY StepSettles DEF DataInv
<1> SUFFICES ASSUME ~abandoned' PROVE Counts(pending', Places')
  BY DEF CountInv
<1>2. CASE Worker
  <2>1. ~abandoned
    BY <1>1, <1>2, WorkerIs DEF Effect
  <2>2. QED
    BY <1>1, <1>2, <2>1, TakeCounts, MoveCounts, CallCounts, NamedCounts, WriteCounts, VisitCounts,
       RaiseCounts
    DEF Worker
<1>3. CASE \E n \in Names : filewriter_write(n)
  BY <1>1, <1>3, AcceptCounts
<1>4. CASE Elsewhere
  BY <1>1, <1>4, ElsewhereCounts
<1>5. QED
  BY <1>2, <1>3, <1>4, StepIs

(* Until the writer is abandoned, the writes pending under a path are those in flight
   to it, however they were resolved, retried, lost or stored (submit, completed,
   _resolved_write): an abandonment names every path whose output may be lost. *)
THEOREM PendingIsExact == Spec => []PendingExact
<1>1. Init => DataInv /\ CountInv
  <2> SUFFICES ASSUME Init PROVE DataInv /\ CountInv
    OBVIOUS
  <2>1. DataInv /\ InFlight = {}
    BY InitPlaced
  <2>2. \A n \in Names : Places[n] = {}
    BY <2>1 DEF Places
  <2>3. \A n \in Names : pending[n] = 0
    BY DEF Init
  <2>4. QED
    BY <2>1, <2>2, <2>3, FS_EmptySet DEF CountInv, Counts
<1>2. DataInv /\ CountInv /\ [Next]_vars => (DataInv /\ CountInv)'
  BY StepSettles, StepCounts
<1>3. CountInv => PendingExact
  BY DEF CountInv, PendingExact, Counts, Places
<1>4. QED
  BY <1>1, <1>2, <1>3, PTL DEF Spec

----------------------------------------------------------------------------
(* A call of filewriter_close, on the way to its reply: the close is queued, with
   nothing but questions after it; or the worker is at it; or the file is let go. *)

OnlyQuestions(i) == \A j \in DOMAIN input_queue : j > i => input_queue[j].cmd = "status"

CloseQueued(n) ==
  \E i \in DOMAIN input_queue :
    /\ input_queue[i].cmd = "close_if_open" /\ input_queue[i].name = n
    /\ OnlyQuestions(i)
    /\ caller.at = "await" => i < Len(input_queue)

CloseAtWork(n) ==
  /\ worker.command.cmd = "close_if_open" /\ worker.left = {}
  /\ \/ worker.at = "resolve" /\ worker.name = n
     \/ worker.at = "close" /\ worker.name = Resolve[n]
  /\ OnlyQuestions(0)
  /\ caller.at = "await" => input_queue # <<>>

(* The worker takes the file up no more: it answers questions, or retries others. *)
LetGo(n) ==
  /\ files[Resolve[n]].status \notin {"open", "waiting"}
  /\ OnlyQuestions(0)
  /\ \/ worker.at \in {"loop", "timer", "ended"}
     \/ worker.at = "resolve" /\ worker.command.cmd = "status"
     \/ /\ worker.command = Retry
        /\ \/ worker.at = "visit"
           \/ worker.at \in {"open", "write", "flush", "close"} /\ worker.name # Resolve[n]

Closes(n) == CloseQueued(n) \/ CloseAtWork(n) \/ LetGo(n)

CloseInv ==
  ~abandoned /\ caller.op = "close" => \A n \in Names \ Loops : n = caller.name => Closes(n)

(* Taking a command moves the others up. *)
LEMMA QueueMovesUp ==
  ASSUME TypeOK, NEW cmd, Take(cmd)
  PROVE  /\ Len(input_queue) \in Nat \ {0} /\ DOMAIN input_queue = 1 .. Len(input_queue)
         /\ Len(input_queue') = Len(input_queue) - 1
         /\ DOMAIN input_queue' = 1 .. Len(input_queue) - 1
         /\ \A i \in DOMAIN input_queue' : input_queue'[i] = input_queue[i + 1]
         /\ Head(input_queue) = input_queue[1]
<1>1. input_queue \in Seq(Command) /\ input_queue # <<>> /\ input_queue' = Tail(input_queue)
  BY DEF TypeOK, Take
<1> DEFINE q == input_queue
<1>2. /\ Len(q) \in Nat \ {0} /\ DOMAIN q = 1 .. Len(q)
      /\ q[1] = Head(q) /\ Tail(q) \in Seq(Command) /\ Len(Tail(q)) = Len(q) - 1
      /\ \A i \in 1 .. Len(Tail(q)) : Tail(q)[i] = q[i + 1]
  BY <1>1, HeadTailProperties, LenProperties, EmptySeq
<1>3. DOMAIN Tail(q) = 1 .. Len(q) - 1
  BY <1>2, LenProperties
<1>4. QED
  BY <1>1, <1>2, <1>3

LEMMA QuestionsMoveUp ==
  ASSUME TypeOK, NEW cmd, Take(cmd)
  PROVE  /\ OnlyQuestions(0) => (OnlyQuestions(0)' /\ Head(input_queue).cmd = "status")
         /\ \A i \in DOMAIN input_queue : OnlyQuestions(i) =>
              OnlyQuestions(i - 1)' /\ (i # 1 => i - 1 \in DOMAIN input_queue')
<1>1. /\ Len(input_queue) \in Nat \ {0} /\ DOMAIN input_queue = 1 .. Len(input_queue)
      /\ DOMAIN input_queue' = 1 .. Len(input_queue) - 1
      /\ \A i \in DOMAIN input_queue' : input_queue'[i] = input_queue[i + 1]
      /\ Head(input_queue) = input_queue[1]
  BY QueueMovesUp
<1>2. \A i \in DOMAIN input_queue \cup {0} : \A j \in DOMAIN input_queue' :
        OnlyQuestions(i) /\ j + 1 > i => input_queue'[j].cmd = "status"
  BY <1>1 DEF OnlyQuestions
<1>3. OnlyQuestions(0) => (OnlyQuestions(0)' /\ Head(input_queue).cmd = "status")
  BY <1>1, <1>2 DEF OnlyQuestions
<1>4. ASSUME NEW i \in DOMAIN input_queue, OnlyQuestions(i)
      PROVE  OnlyQuestions(i - 1)' /\ (i # 1 => i - 1 \in DOMAIN input_queue')
  BY <1>1, <1>2, <1>4 DEF OnlyQuestions
<1>5. QED
  BY <1>3, <1>4

(* The worker takes a command. *)
LEMMA TakingCloses ==
  ASSUME TypeOK, WhereInv, NEW n \in Names, Closes(n), caller' = caller, ~abandoned,
         TakeNamed \/ close_all_after_write \/ shutdown \/ closed_status \/ open_failures
  PROVE  Closes(n)'
<1> DEFINE h == Head(input_queue)
<1>1. PICK cmd : Take(cmd) /\ (TakeNamed <=> cmd \in Named)
  BY DEF TakeNamed, close_all_after_write, shutdown, closed_status, open_failures, Take, Named
<1>2. /\ Len(input_queue) \in Nat \ {0} /\ DOMAIN input_queue = 1 .. Len(input_queue)
      /\ Len(input_queue') = Len(input_queue) - 1
      /\ DOMAIN input_queue' = 1 .. Len(input_queue) - 1
      /\ \A i \in DOMAIN input_queue' : input_queue'[i] = input_queue[i + 1]
      /\ h = input_queue[1] /\ h.cmd = cmd
  BY <1>1, QueueMovesUp DEF Take
<1>3. worker.at = "loop" /\ worker \in WorkerRecord /\ worker.left = {}
  BY <1>1, TypingIs DEF Take, Typing, WhereInv, StageInv
<1>4. TakeNamed => (/\ worker'.at = "resolve" /\ worker'.name = h.name
                    /\ worker'.command = h /\ worker'.left = {} /\ files' = files)
  <2> SUFFICES ASSUME TakeNamed
               PROVE  /\ worker'.at = "resolve" /\ worker'.name = h.name
                      /\ worker'.command = h /\ worker'.left = {} /\ files' = files
    OBVIOUS
  <2>1. worker' = [At("resolve", h.name, h.write) EXCEPT !.command = h] /\ files' = files
    BY DEF TakeNamed, fileVars
  <2> HIDE DEF h
  <2>2. QED
    BY <1>3, <2>1 DEF At, WorkerRecord, Stage
<1> HIDE DEF h
<1>5. CASE CloseQueued(n)
  <2>1. PICK i \in DOMAIN input_queue :
          /\ input_queue[i].cmd = "close_if_open" /\ input_queue[i].name = n
          /\ OnlyQuestions(i)
          /\ caller.at = "await" => i < Len(input_queue)
    BY <1>5 DEF CloseQueued
  <2>2. OnlyQuestions(i - 1)' /\ (i # 1 => i - 1 \in DOMAIN input_queue')
    BY <1>1, <2>1, QuestionsMoveUp
  <2>3. CASE i = 1
    <3>1. cmd = "close_if_open" /\ TakeNamed /\ h.name = n
      BY <1>1, <1>2, <2>1, <2>3 DEF Named
    <3>2. OnlyQuestions(0)'
      BY <2>2, <2>3
    <3>3. caller'.at = "await" => input_queue' # <<>>
      <4>1. caller'.at = "await" => Len(input_queue') # 0
        BY <1>2, <2>1, <2>3
      <4>2. QED
        BY <4>1
    <3>4. CloseAtWork(n)'
      BY <1>2, <1>4, <3>1, <3>2, <3>3 DEF CloseAtWork
    <3>5. QED
      BY <3>4 DEF Closes
  <2>4. CASE i # 1
    <3>1. /\ i - 1 \in DOMAIN input_queue' /\ input_queue'[i - 1] = input_queue[i]
          /\ caller'.at = "await" => i - 1 < Len(input_queue')
      BY <1>2, <2>1, <2>2, <2>4
    <3>2. CloseQueued(n)'
      BY <2>1, <2>2, <3>1 DEF CloseQueued
    <3>3. QED
      BY <3>2 DEF Closes
  <2>5. QED
    BY <2>3, <2>4
<1>6. CASE LetGo(n)
  <2>1. OnlyQuestions(0)' /\ cmd = "status"
    BY <1>1, <1>2, <1>6, QuestionsMoveUp DEF LetGo, h
  <2>2. TakeNamed
    BY <1>1, <2>1 DEF Named
  <2>3. LetGo(n)'
    BY <1>2, <1>4, <1>6, <2>1, <2>2 DEF LetGo
  <2>4. QED
    BY <2>3 DEF Closes
<1>7. ~CloseAtWork(n)
  BY <1>3 DEF CloseAtWork
<1>8. QED
  BY <1>5, <1>6, <1>7 DEF Closes


(* The worker is done with the last file of its command. *)
LEMMA OnwardEnds ==
  ASSUME worker \in WorkerRecord, NEW f, worker.left = {}
  PROVE  Onward(f).at \in {"timer", "loop"}
<1>1. [Done EXCEPT !.at = "loop"].at = "loop" /\ Done.at = "timer"
  BY DEF Done, At, WorkerRecord, Stage
<1>2. worker.left \ {f} = {}
  OBVIOUS
<1>3. Onward(f) \in {[Done EXCEPT !.at = "loop"], Done}
  BY <1>2 DEF Onward
<1>4. QED
  BY <1>1, <1>3

(* It closes the file of the command. *)
LEMMA ClosingLetsGo ==
  ASSUME TypeOK, WhereInv, ~abandoned, NEW n \in Names \ Loops, CloseAtWork(n), input_queue' = input_queue,
         close_if_open \/ CloseSucceeds \/ CloseFails
  PROVE  \/ worker'.at \in {"timer", "loop"} /\ files'[Resolve[n]].status \notin {"open", "waiting"}
         \/ /\ worker'.at = "close" /\ worker'.name = Resolve[n]
            /\ worker'.command = worker.command /\ worker'.left = {}
<1>1. Typing /\ worker \in WorkerRecord /\ worker.left = {}
  BY TypingIs DEF Typing, CloseAtWork
<1>2. PICK f \in Files : f = Resolve[n]
  BY FileWriterAssumption
<1>3. files[f] \in Control /\ Onward(f).at \in {"timer", "loop"}
  BY <1>1, OnwardEnds DEF Typing
<1>4. \A c \in Control : files' = [files EXCEPT ![f] = ForNew(c)] => files'[f].status = c.status
  BY <1>1, ForNewKeeps DEF Typing
<1>5. CASE close_if_open
  <2>1. worker.at = "resolve" /\ worker.name = n /\ worker.command.cmd = "close_if_open"
    BY <1>5 DEF close_if_open, Resolved, Ended, CloseAtWork
  <2>2. CASE files[f].status = "absent" /\ worker' = Done /\ files' = files
    BY <1>1, <1>2, <2>2, MoveFields
  <2>3. CASE files[f].status = "open" /\ Drain(f, files[f])
    <3>1. files[f].queue = <<>>
      BY <1>3, <2>1, <2>3 DEF WhereInv, StageInv
    <3>2. worker' = At("close", f, 0)
      BY <2>1, <2>3, <3>1 DEF Drain, Closing
    <3>3. QED
      BY <1>1, <1>2, <3>2, MoveFields
  <2>4. CASE /\ files[f].status # "open" /\ worker' = Onward(f)
             /\ files' = [files EXCEPT ![f] = ForNew(CloseUnheld(files[f]))]
    <3>1. CloseUnheld(files[f]) \in Control
      BY <1>3, ControlOperators
    <3>2. CloseUnheld(files[f]).status \notin {"open", "waiting"}
      BY <1>3 DEF CloseUnheld, FAILED, Control, OutputFileType
    <3>3. QED
      BY <1>2, <1>3, <1>4, <2>4, <3>1, <3>2
  <2>5. QED
    BY <1>2, <1>5, <2>1, <2>2, <2>3, <2>4 DEF close_if_open, close
<1>6. CASE CloseSucceeds
  <2> DEFINE c == [files[f] EXCEPT !.status = "closed", !.openmode = "a"]
  <2>1. worker.name = f
    BY <1>2, <1>6 DEF CloseSucceeds, Ended, CloseAtWork
  <2>2. c \in Control /\ c.status = "closed"
    BY <1>3 DEF Control, OutputFileType, Status
  <2>3. worker' = Onward(f) /\ files' = [files EXCEPT ![f] = ForNew(c)]
    BY <1>6, <2>1 DEF CloseSucceeds
  <2> HIDE DEF c
  <2>4. QED
    BY <1>2, <1>3, <1>4, <2>2, <2>3
<1>7. CASE CloseFails
  <2> DEFINE fc == [files[f] EXCEPT !.dropped = @ \cup ({worker.message} \ {0})]
             c == fail(fc, "writefailure")
  <2>1. worker.name = f /\ FileFails(f, "writefailure")
    BY <1>2, <1>7 DEF CloseFails, Ended, CloseAtWork
  <2>2. worker.message \in {0} \cup Write
    BY <1>1 DEF WorkerRecord, Stage
  <2>3. fc \in Control
    BY <1>3, <2>2 DEF Control, OutputFileType
  <2>4. worker' = Onward(f) /\ files' = [files EXCEPT ![f] = ForNew(c)]
    BY <2>1 DEF FileFails
  <2> HIDE DEF fc
  <2>5. c \in Control
    BY <2>3, ControlOperators DEF FAILED
  <2>6. c.status = "writefailure"
    BY <2>3 DEF fail, discard, FAILED, Control, OutputFileType
  <2> HIDE DEF c
  <2>7. QED
    BY <1>2, <1>3, <1>4, <2>4, <2>5, <2>6
<1>8. QED
  BY <1>5, <1>6, <1>7

(* It deals with another file. *)
LEMMA OthersTaken ==
  ASSUME TypeOK, NEW n \in Names, LetGo(n), input_queue' = input_queue, worker.command = Retry,
         NEW g \in Files, g # Resolve[n], NEW fc \in Control, NEW lost,
         Takes(g, fc, lost), Ascending(fc.queue)
  PROVE  LetGo(n)'
<1>1. Typing /\ Resolve[n] \in Files
  BY TypingIs, FileWriterAssumption
<1>2. /\ files'[Resolve[n]] = files[Resolve[n]] /\ worker'.command = worker.command
      /\ \/ worker'.at \in {"open", "write", "close"} /\ worker'.name = g
         \/ worker'.at = "visit"
         \/ worker'.at \in {"timer", "loop"}
  BY <1>1, TakesIs
<1>3. QED
  BY <1>2 DEF LetGo, OnlyQuestions, Retry

LEMMA WorkerCloses ==
  ASSUME TypeOK, WhereInv, ~abandoned, NEW n \in Names \ Loops, Closes(n), Worker
  PROVE  Closes(n)'
<1> DEFINE name == worker.name
<1>1. Typing /\ worker \in WorkerRecord /\ caller' = caller
  BY TypingIs, WorkerIs DEF Typing, Effect
<1>2. PICK f \in Files : f = Resolve[n]
  BY FileWriterAssumption
<1>3. CASE Taking
  BY <1>1, <1>3, TakingCloses DEF Taking
<1>4. SUFFICES ASSUME ~Taking PROVE Closes(n)'
  BY <1>3
<1>5. input_queue' = input_queue
  BY <1>4, OtherWorkerSteps
<1>6. OnlyQuestions(0) => OnlyQuestions(0)'
  BY <1>5 DEF OnlyQuestions
<1>7. CASE CloseQueued(n)
  <2>1. CloseQueued(n)'
    BY <1>1, <1>5, <1>7 DEF CloseQueued, OnlyQuestions
  <2>2. QED
    BY <2>1 DEF Closes
<1>8. Publish \/ Reserve => /\ worker'.at = worker.at /\ worker'.command = worker.command
                            /\ worker'.name = worker.name /\ worker'.left = worker.left
                            /\ files' = files
  <2>1. \A v : LET u == [worker EXCEPT !.io = v] IN
               u.at = worker.at /\ u.command = worker.command /\ u.name = worker.name /\ u.left = worker.left
    BY <1>1 DEF WorkerRecord, Stage
  <2>2. QED
    BY <2>1 DEF Publish, Reserve, fileVars
<1>9. CASE CloseAtWork(n)
  <2>1. /\ worker.at \in {"resolve", "close"} /\ worker.command.cmd = "close_if_open"
        /\ worker.at = "resolve" => worker.name = n
    BY <1>9 DEF CloseAtWork
  <2>2. CASE Publish \/ Reserve
    <3>1. CloseAtWork(n)'
      BY <1>1, <1>5, <1>6, <1>8, <1>9, <2>2 DEF CloseAtWork
    <3>2. QED
      BY <3>1 DEF Closes
  <2>3. CASE close_if_open \/ CloseSucceeds \/ CloseFails
    <3>1. CASE worker'.at \in {"timer", "loop"} /\ files'[f].status \notin {"open", "waiting"}
      <4>1. LetGo(n)'
        BY <1>2, <1>6, <1>9, <3>1 DEF LetGo, CloseAtWork
      <4>2. QED
        BY <4>1 DEF Closes
    <3>2. CASE /\ worker'.at = "close" /\ worker'.name = f
               /\ worker'.command = worker.command /\ worker'.left = {}
      <4>1. CloseAtWork(n)'
        BY <1>1, <1>2, <1>5, <1>6, <1>9, <3>2 DEF CloseAtWork
      <4>2. QED
        BY <4>1 DEF Closes
    <3>3. QED
      BY <1>2, <1>5, <1>9, <2>3, <3>1, <3>2, ClosingLetsGo
  <2>4. ~ResolveRaises
    BY <2>1 DEF ResolveRaises, Ended
  <2>5. ~write /\ ~open_as_new /\ ~status
    BY <2>1 DEF write, open_as_new, status, Resolved
  <2>6. /\ ~OpenSucceeds /\ ~OpenLocked /\ ~NeverOpens /\ ~WriteSucceeds /\ ~FlushSucceeds
        /\ ~WriteFails /\ ~Visit
    BY <2>1 DEF OpenSucceeds, OpenLocked, NeverOpens, WriteSucceeds, FlushSucceeds, WriteFails,
       Ended, Visit
  <2>7. ~GetTimesOut /\ ~CheckTimer /\ ~retry_waiting /\ ~WorkerEnds /\ ~Stop
    BY <2>1 DEF GetTimesOut, CheckTimer, retry_waiting, Retries, WorkerEnds, Stop
  <2>8. QED
    BY <1>4, <2>2, <2>3, <2>4, <2>5, <2>6, <2>7 DEF Worker, Taking
<1>10. CASE LetGo(n)
  <2>1. SUFFICES LetGo(n)'
    BY DEF Closes
  <2>2. files[f].status \notin {"open", "waiting"} /\ OnlyQuestions(0)'
    BY <1>2, <1>6, <1>10 DEF LetGo
  <2>3. ASSUME files'[f] = files[f], worker'.at \in {"loop", "timer", "ended"} PROVE LetGo(n)'
    BY <1>2, <2>2, <2>3 DEF LetGo
  <2>4. CASE Publish \/ Reserve
    BY <1>2, <1>8, <1>10, <2>2, <2>4 DEF LetGo
  <2>5. CASE GetTimesOut \/ CheckTimer
    <3>1. worker' \in {At("timer", None, 0), At("loop", None, 0)} /\ files' = files
      BY <2>5 DEF GetTimesOut, CheckTimer
    <3>2. QED
      BY <1>1, <2>3, <3>1, MoveFields
  <2>6. CASE WorkerEnds
    <3>1. [At("ended", None, 0) EXCEPT !.active = FALSE].at = "ended"
      BY <1>1 DEF At, WorkerRecord, Stage
    <3>2. worker'.at = "ended" /\ files'[f] = files[f]
      BY <2>6, <3>1 DEF WorkerEnds
    <3>3. QED
      BY <2>3, <3>2
  <2>7. CASE retry_waiting
    <3>1. \A S : LET v == [At("visit", None, 0) EXCEPT !.command = Retry, !.left = S] IN
                 v.at = "visit" /\ v.command = Retry
      BY <1>1 DEF At, WorkerRecord, Stage
    <3>2. worker'.at = "visit" /\ worker'.command = Retry /\ files' = files
      BY <2>7, <3>1 DEF retry_waiting, Retries
    <3>3. QED
      BY <1>2, <2>2, <3>2 DEF LetGo, Retry
  <2>8. CASE ResolveRaises \/ status
    <3>1. worker' = Done /\ files' = files
      BY <2>8 DEF ResolveRaises, status, fileVars
    <3>2. QED
      BY <1>1, <2>3, <3>1, MoveFields
  <2>9. CASE WriteSucceeds
    <3>1. worker.at = "write" /\ worker' = At("flush", worker.name, worker.message) /\ files' = files
      BY <2>9 DEF WriteSucceeds, Ended, fileVars
    <3>2. worker'.at = "flush" /\ worker'.name = worker.name /\ worker'.command = worker.command
      BY <1>1, <3>1, MoveFields
    <3>3. QED
      BY <1>2, <1>10, <2>2, <3>1, <3>2 DEF LetGo, Retry
  <2>10. CASE \/ OpenSucceeds \/ OpenLocked \/ NeverOpens \/ FlushSucceeds
              \/ WriteFails \/ CloseSucceeds \/ CloseFails
    <3>1. PICK g \in Files, fc \in Control : \E lost : FileStep(g, fc, lost)
      BY <2>10, CallSteps
    <3>2. worker.at \in {"open", "write", "flush", "close"}
      BY <2>10 DEF OpenSucceeds, OpenLocked, NeverOpens, FlushSucceeds, WriteFails, CloseSucceeds,
         CloseFails, Ended
    <3>3. worker.name = g /\ g # Resolve[n] /\ worker.command = Retry
      BY <1>10, <3>1, <3>2 DEF FileStep, LetGo
    <3>4. PICK gone : Takes(g, fc, gone) /\ Ascending(fc.queue)
      BY <3>1 DEF FileStep, QueueOf
    <3>5. QED
      BY <1>5, <1>10, <3>3, <3>4, OthersTaken
  <2>11. CASE Visit
    <3>1. worker.at = "visit" /\ worker.command = Retry
      BY <1>10, <2>11 DEF Visit, LetGo
    <3>2. PICK g \in worker.left : try_open(g, files[g], pending)
      BY <2>11, <3>1 DEF Visit, Retry
    <3>3. g \in Files /\ files[g] \in Control /\ files[g].status = "waiting"
      BY <1>1, <3>1 DEF Typing, WorkerRecord, Stage, WhereInv, StageInv
    <3>4. Takes(g, files[g], {}) /\ Ascending(files[g].queue)
      BY <3>2, <3>3, TryOpenTakes DEF WhereInv, QueuesPlaced, QueueOf
    <3>5. g # Resolve[n]
      BY <1>2, <2>2, <3>3
    <3>6. QED
      BY <1>5, <1>10, <3>1, <3>3, <3>4, <3>5, OthersTaken
  <2>12. ~write /\ ~open_as_new /\ ~close_if_open
    BY <1>10 DEF write, open_as_new, close_if_open, Resolved, Ended, LetGo
  <2>13. ~Stop
    BY DEF Stop
  <2>14. QED
    BY <1>4, <2>4, <2>5, <2>6, <2>7, <2>8, <2>9, <2>10, <2>11, <2>12, <2>13 DEF Worker, Taking
<1>11. QED
  BY <1>7, <1>9, <1>10 DEF Closes

(* The script's thread asks for a status, or nothing. *)
LEMMA ClosesKept ==
  ASSUME TypeOK, NEW n \in Names, Closes(n), worker' = worker,
         \A g \in Files : files'[g].status = files[g].status,
         \/ input_queue' = input_queue /\ (caller'.at = "await" => caller.at = "await")
         \/ \E c \in Command : c.cmd = "status" /\ input_queue' = Append(input_queue, c)
  PROVE  Closes(n)'
<1>1. Resolve[n] \in Files
  BY FileWriterAssumption
<1>2. CASE input_queue' = input_queue /\ (caller'.at = "await" => caller.at = "await")
  <2>1. \A i : OnlyQuestions(i)' <=> OnlyQuestions(i)
    BY <1>2 DEF OnlyQuestions
  <2>2. CASE CloseQueued(n)
    <3>1. CloseQueued(n)'
      BY <1>2, <2>1, <2>2 DEF CloseQueued
    <3>2. QED
      BY <3>1 DEF Closes
  <2>3. CASE CloseAtWork(n)
    <3>1. CloseAtWork(n)'
      BY <1>2, <2>1, <2>3 DEF CloseAtWork
    <3>2. QED
      BY <3>1 DEF Closes
  <2>4. CASE LetGo(n)
    <3>1. LetGo(n)'
      BY <1>1, <2>1, <2>4 DEF LetGo
    <3>2. QED
      BY <3>1 DEF Closes
  <2>5. QED
    BY <2>2, <2>3, <2>4 DEF Closes
<1>3. ASSUME NEW c \in Command, c.cmd = "status", input_queue' = Append(input_queue, c) PROVE Closes(n)'
  <2>1. /\ DOMAIN input_queue = 1 .. Len(input_queue) /\ Len(input_queue) \in Nat
        /\ DOMAIN input_queue' = 1 .. Len(input_queue) + 1
        /\ \A i \in 1 .. Len(input_queue) : input_queue'[i] = input_queue[i]
        /\ input_queue'[Len(input_queue) + 1] = c
    BY <1>3, SubmitIs
  <2>2. Len(input_queue') = Len(input_queue) + 1
    BY <1>3, AppendProperties DEF TypeOK
  <2>3. \A i \in 1 .. Len(input_queue) + 1 : i \in 1 .. Len(input_queue) \/ i = Len(input_queue) + 1
    BY <2>1
  <2>4. \A i : OnlyQuestions(i) => OnlyQuestions(i)'
    BY <1>3, <2>1, <2>3 DEF OnlyQuestions
  <2>5. input_queue' # <<>>
    BY <2>1, <2>2
  <2>6. CASE CloseQueued(n)
    <3>1. PICK i \in 1 .. Len(input_queue) :
            input_queue[i].cmd = "close_if_open" /\ input_queue[i].name = n /\ OnlyQuestions(i)
      BY <2>1, <2>6 DEF CloseQueued
    <3>2. i \in DOMAIN input_queue' /\ i < Len(input_queue') /\ input_queue'[i] = input_queue[i]
      BY <2>1, <2>2
    <3>3. CloseQueued(n)'
      BY <2>4, <3>1, <3>2 DEF CloseQueued
    <3>4. QED
      BY <3>3 DEF Closes
  <2>7. CASE CloseAtWork(n)
    <3>1. CloseAtWork(n)'
      BY <2>4, <2>5, <2>7 DEF CloseAtWork
    <3>2. QED
      BY <3>1 DEF Closes
  <2>8. CASE LetGo(n)
    <3>1. LetGo(n)'
      BY <1>1, <2>4, <2>8 DEF LetGo
    <3>2. QED
      BY <3>1 DEF Closes
  <2>9. QED
    BY <2>6, <2>7, <2>8 DEF Closes
<1>4. QED
  BY <1>2, <1>3

LEMMA CloseIsQueued ==
  ASSUME TypeOK, NEW n \in Names, filewriter_close(n)
  PROVE  CloseQueued(n)' /\ caller'.name = n
<1> DEFINE c == [cmd |-> "close_if_open", name |-> n, write |-> 0]
<1>1. caller'.name = n /\ caller'.at = "ask" /\ input_queue' = Append(input_queue, c)
  BY DEF filewriter_close, Waits, Submit
<1>2. c \in Command /\ c.cmd = "close_if_open" /\ c.name = n
  BY DEF Command, Named
<1> HIDE DEF c
<1>3. PICK M \in Nat \ {0} : DOMAIN input_queue' = 1 .. M /\ input_queue'[M] = c
  BY <1>1, <1>2, SubmitIs
<1>4. M \in DOMAIN input_queue' /\ \A j \in DOMAIN input_queue' : ~(j > M)
  BY <1>3
<1>5. OnlyQuestions(M)'
  BY <1>4 DEF OnlyQuestions
<1>6. QED
  BY <1>1, <1>2, <1>3, <1>4, <1>5 DEF CloseQueued

LEMMA ElsewhereCloses ==
  ASSUME TypeOK, WhereInv, CallerInv, CloseInv, Elsewhere
  PROVE  CloseInv'
<1>1. worker' = worker /\ (abandoned => abandoned') /\ \A g \in Files : files'[g].status = files[g].status
  BY ElsewhereIs
<1>2. SUFFICES ASSUME ~abandoned', caller'.op = "close", NEW n \in Names \ Loops, n = caller'.name
               PROVE  Closes(n)'
  BY DEF CloseInv
<1>3. caller \in CallerState /\ (caller.op = "close" => caller.name \in Names)
  BY DEF TypeOK, CallerState
<1>4. ASSUME caller.op = "close", caller'.name = caller.name,
             \/ input_queue' = input_queue /\ (caller'.at = "await" => caller.at = "await")
             \/ \E c \in Command : c.cmd = "status" /\ input_queue' = Append(input_queue, c)
      PROVE  Closes(n)'
  <2>1. Closes(n)
    BY <1>1, <1>2, <1>4 DEF CloseInv
  <2>2. QED
    BY <1>1, <1>4, <2>1, ClosesKept
<1>5. ASSUME NEW m \in Names, filewriter_close(m) PROVE Closes(n)'
  BY <1>2, <1>5, CloseIsQueued DEF Closes
<1>6. ~(\E m \in Names : filewriter_open_as_new(m))
  BY <1>2 DEF filewriter_open_as_new, Active
<1>7. ~filewriter_close_all_after_write /\ ~filewriter_end /\ ~Interrupt /\ ~Joined /\ ~TakeFailures
  BY <1>2 DEF filewriter_close_all_after_write, filewriter_end, Interrupt, Returns, Waits, Joined,
     TakeFailures
<1>8. ~Abandon
  BY <1>2 DEF Abandon
<1>9. \A a : LET c == [caller EXCEPT !.at = a] IN c.at = a /\ c.op = caller.op /\ c.name = caller.name
  BY <1>3 DEF CallerState
<1>10. CASE Ask
  <2>1. /\ caller' = [caller EXCEPT !.at = IF caller.at = "ask" THEN "await" ELSE "gather"]
    BY <1>10 DEF Ask
  <2>2. caller'.op = caller.op /\ caller'.name = caller.name
        /\ caller'.at = (IF caller.at = "ask" THEN "await" ELSE "gather")
    BY <1>9, <2>1
  <2>3. CASE caller.at = "ask" /\ Submit("status", caller.name, 0)
    <3>1. [cmd |-> "status", name |-> caller.name, write |-> 0] \in Command
      BY <1>2, <1>3, <2>2 DEF Command, Named
    <3>2. \E c \in Command : c.cmd = "status" /\ input_queue' = Append(input_queue, c)
      BY <2>3, <3>1 DEF Submit
    <3>3. QED
      BY <1>2, <1>4, <2>2, <3>2
  <2>4. CASE caller.at = "collect" /\ Submit("open_failures", None, 0)
    BY <1>2, <2>2, <2>4 DEF CallerInv
  <2>5. QED
    BY <1>2, <1>10, <2>2, <2>3, <2>4 DEF Ask
<1>11. CASE TakeStatus \/ TimesOut
  <2>1. \E a \in {"ask", "collect", "blame"} : caller' = [caller EXCEPT !.at = a]
    BY <1>2, <1>11 DEF TakeStatus, TimesOut, NotesCall, Returns, Waits
  <2>2. input_queue' = input_queue
    BY <1>11 DEF TakeStatus, TimesOut
  <2>3. QED
    BY <1>2, <1>4, <1>9, <2>1, <2>2
<1>12. CASE ClockExpires \/ UNCHANGED vars
  <2>1. caller' = caller /\ input_queue' = input_queue
    BY <1>12 DEF ClockExpires, loopRest, callVars, vars
  <2>2. QED
    BY <1>2, <1>4, <2>1
<1>13. QED
  BY <1>5, <1>6, <1>7, <1>8, <1>10, <1>11, <1>12 DEF Elsewhere, Waiting

LEMMA StepCloses ==
  ASSUME TypeOK, WhereInv, CallerInv, CloseInv, [Next]_vars
  PROVE  CloseInv'
<1>1. CASE Worker
  <2>1. caller' = caller /\ abandoned' = abandoned
    BY <1>1, WorkerIs DEF Effect
  <2>2. SUFFICES ASSUME ~abandoned, caller.op = "close", NEW n \in Names \ Loops, n = caller.name
                 PROVE  Closes(n)'
    BY <2>1 DEF CloseInv
  <2>3. Closes(n)
    BY <2>2 DEF CloseInv
  <2>4. QED
    BY <1>1, <2>2, <2>3, WorkerCloses
<1>2. ASSUME NEW m \in Names, filewriter_write(m) PROVE CloseInv'
  <2>1. caller'.op = "idle"
    BY <1>2 DEF filewriter_write, Active
  <2>2. QED
    BY <2>1 DEF CloseInv
<1>3. CASE Elsewhere
  BY <1>3, ElsewhereCloses
<1>4. QED
  BY <1>1, <1>2, <1>3, StepIs

(* A close that returns has found its file let go, and no write on the way to it. *)
LEMMA ReleasedIsLetGo ==
  ASSUME PromiseInv, CloseInv, [Next]_vars, answer # "released", answer' = "released",
         caller.name \notin Loops
  PROVE  files[Resolve[caller.name]].status # "open" /\ \A w \in InFlight : FileOf(w) # Resolve[caller.name]
<1>1. TypeOK /\ WhereInv /\ CallerInv /\ AskInv /\ Typing
  BY TypingIs DEF PromiseInv, DataInv
<1>2. TakeStatus /\ caller.op = "close"
  <2>1. ~Worker
    BY <1>1, WorkerIs DEF Effect
  <2>2. \A m \in Names : ~filewriter_write(m) /\ ~filewriter_open_as_new(m) /\ ~filewriter_close(m)
    BY DEF filewriter_write, filewriter_open_as_new, filewriter_close
  <2>3. /\ ~filewriter_close_all_after_write /\ ~filewriter_end /\ ~Ask /\ ~TimesOut /\ ~Abandon
        /\ ~Joined /\ ~Interrupt
    BY DEF filewriter_close_all_after_write, filewriter_end, Ask, TimesOut, NotesCall, Abandon, Joined,
       Interrupt, Returns
  <2>4. ~TakeFailures
    BY DEF TakeFailures, Returns
  <2>5. ~ClockExpires /\ ~(UNCHANGED vars)
    BY DEF ClockExpires, loopRest, callVars, vars
  <2>6. TakeStatus
    BY <2>1, <2>2, <2>3, <2>4, <2>5, StepIs DEF Elsewhere, Waiting
  <2>7. QED
    BY <2>6 DEF TakeStatus, NotesCall
<1>3. caller.at = "await" /\ return_msg_queue # <<>> /\ Serving
  BY <1>1, <1>2 DEF TakeStatus, CallerInv, Serving
<1>4. input_queue = <<>> /\ ~Resolving
  BY <1>1, <1>3 DEF AskInv, Queues, Resolves, Replied
<1>5. PICK n \in Names \ Loops : n = caller.name
  BY <1>1, <1>2 DEF TypeOK, CallerState
<1>6. PICK f \in Files : f = Resolve[n]
  BY FileWriterAssumption
<1>7. LetGo(n)
  <2>1. Closes(n)
    BY <1>2, <1>3, <1>5 DEF CloseInv, Serving
  <2>2. ~CloseQueued(n)
    BY <1>4 DEF CloseQueued
  <2>3. ~CloseAtWork(n)
    BY <1>3, <1>4 DEF CloseAtWork
  <2>4. QED
    BY <2>1, <2>2, <2>3 DEF Closes
<1>8. files[f].status \notin {"open", "waiting"}
  BY <1>6, <1>7 DEF LetGo
<1>9. ASSUME NEW w \in InFlight, FileOf(w) = f PROVE FALSE
  <2>1. w \notin InInput
    BY <1>4 DEF InInput
  <2>2. ASSUME w = worker.message, w # 0 PROVE FALSE
    <3>1. worker.at \in {"resolve", "write", "flush"}
      BY <1>1, <2>2 DEF WhereInv, MessagePlaced
    <3>2. worker.at \in {"write", "flush"} /\ worker.name # f
      BY <1>4, <1>6, <1>7, <3>1 DEF LetGo, Resolving
    <3>3. QED
      BY <1>1, <1>9, <2>2, <3>2 DEF WhereInv, MessagePlaced
  <2>3. ASSUME NEW g \in Files, w \in InQueue(g) PROVE FALSE
    <3>1. g = f
      BY <1>1, <1>9, <2>3 DEF WhereInv, QueuesPlaced, QueueOf, InQueue, Queued
    <3>2. files[f].queue # <<>>
      BY <2>3, <3>1 DEF InQueue, Queued
    <3>3. worker.name = f /\ worker.at \in {"open", "write", "flush"}
      BY <1>1, <1>3, <1>8, <3>2 DEF WhereInv, StageInv, Serving
    <3>4. QED
      BY <1>6, <1>7, <3>3 DEF LetGo
  <2>4. QED
    BY <2>1, <2>2, <2>3, FlightIs
<1>10. QED
  BY <1>5, <1>6, <1>8, <1>9

(* As long as no wait is interrupted, filewriter_close returns only when the writer
   does not hold the file of the path, and no write to that file is on its way, under
   whatever name it was written and whether or not the file was locked
   (close_if_open, close, retry_waiting). *)
THEOREM FilesAreLetGo == Spec /\ [][~Interrupt]_vars => FileIsLetGo
<1>1. Init => PromiseInv /\ CloseInv
  <2>1. Init => CloseInv
    BY DEF Init, CloseInv
  <2>2. QED
    BY <2>1, PromiseHolds
<1>2. PromiseInv /\ CloseInv /\ [Next]_vars /\ [~Interrupt]_vars => (PromiseInv /\ CloseInv)'
  <2> SUFFICES ASSUME PromiseInv, CloseInv, [Next]_vars, [~Interrupt]_vars
               PROVE  (PromiseInv /\ CloseInv)'
    OBVIOUS
  <2>1. PromiseInv'
    BY StepKeepsPromise
  <2>2. CloseInv'
    BY StepCloses DEF PromiseInv, DataInv
  <2>3. QED
    BY <2>1, <2>2
<1>3. PromiseInv /\ CloseInv /\ [Next]_vars =>
        [answer # "released" /\ answer' = "released" /\ caller.name \notin Loops =>
           LET f == Resolve[caller.name] IN
           /\ files[f].status # "open"
           /\ \A w \in InFlight : dest[w] \notin Loops => FileOf(w) # f]_vars
  BY ReleasedIsLetGo
<1>4. QED
  BY <1>1, <1>2, <1>3, PTL DEF Spec, FileIsLetGo

----------------------------------------------------------------------------
(* What an abandonment names. *)

(* A file is opened for a text it has queued, and is retried only for one. *)
TextInv ==
  /\ worker.at = "open" => files[worker.name].queue # <<>>
  /\ \A f \in Files : files[f].status = "waiting" => files[f].queue # <<>>

(* A step of the worker on file f that opens it, or leaves it waiting, for a text. *)
ForText(f) ==
  \E c : /\ files' = [files EXCEPT ![f] = c]
         /\ c.status = "waiting" => c.queue # <<>>
         /\ worker'.at = "open" => worker'.name = f /\ c.queue # <<>>

LEMMA ForTextKeeps ==
  ASSUME Typing, TextInv, NEW f \in Files, ForText(f)
  PROVE  TextInv'
BY DEF Typing, TextInv, ForText

LEMMA DrainForText ==
  ASSUME Typing, NEW f \in Files, NEW fc \in Control, fc.status = "open", Drain(f, fc)
  PROVE  ForText(f)
<1>1. /\ At("write", f, Head(fc.queue)).at # "open" /\ At("close", f, 0).at # "open"
      /\ Onward(f).at # "open"
  BY MoveFields, OnwardIs DEF Typing
<1>2. /\ [fc EXCEPT !.queue = Tail(@)].status = "open"
      /\ [fc EXCEPT !.close_after_write = FALSE].status = "open"
  BY DEF Control, OutputFileType
<1>3. QED
  BY <1>1, <1>2 DEF Drain, ForText

LEMMA TryOpenForText ==
  ASSUME Typing, NEW f \in Files, NEW fc \in Control, NEW p, try_open(f, fc, p), fc.queue # <<>>
  PROVE  ForText(f)
<1>1. CASE fc.status = "open" /\ Drain(f, fc)
  BY <1>1, DrainForText
<1>2. CASE files' = [files EXCEPT ![f] = Started(fc)] /\ worker' = At("open", f, 0)
  <2>1. Started(fc).queue # <<>> /\ At("open", f, 0).name = f
    BY MoveFields DEF Typing, Started, Control, OutputFileType
  <2>2. QED
    BY <1>2, <2>1 DEF ForText
<1>3. CASE files' = [files EXCEPT ![f] = TimedOut(fc)] /\ worker' = Onward(f)
  <2>1. TimedOut(fc).status # "waiting" /\ Onward(f).at # "open"
    BY OnwardIs DEF Typing, TimedOut, fail, discard, FAILED, Control, OutputFileType
  <2>2. QED
    BY <1>3, <2>1 DEF ForText
<1>4. QED
  BY <1>1, <1>2, <1>3 DEF try_open

LEMMA CloseForText ==
  ASSUME Typing, NEW f \in Files, NEW fc \in Control, close(f, fc)
  PROVE  ForText(f)
<1>1. CASE fc.status = "open" /\ Drain(f, fc)
  BY <1>1, DrainForText
<1>2. CASE files' = [files EXCEPT ![f] = ForNew(CloseUnheld(fc))] /\ worker' = Onward(f)
  <2>1. CloseUnheld(fc) \in Control
    BY ControlOperators
  <2>2. CloseUnheld(fc).status # "waiting"
    BY DEF CloseUnheld, FAILED, Control, OutputFileType
  <2>3. ForNew(CloseUnheld(fc)).status # "waiting" /\ Onward(f).at # "open"
    BY <2>1, <2>2, ForNewKeeps, OnwardIs DEF Typing
  <2>4. QED
    BY <1>2, <2>3 DEF ForText
<1>3. QED
  BY <1>1, <1>2 DEF close

LEMMA FailsForText ==
  ASSUME Typing, NEW f \in Files, NEW st \in FAILED, worker.message \in {0} \cup Write, FileFails(f, st)
  PROVE  ForText(f)
<1> DEFINE fc == [files[f] EXCEPT !.dropped = @ \cup ({worker.message} \ {0})]
<1>1. fc \in Control /\ fail(fc, st) \in Control
  <2>1. fc \in Control
    BY DEF Typing, Control, OutputFileType
  <2>2. QED
    BY <2>1, ControlOperators
<1>2. fail(fc, st).status # "waiting"
  BY <1>1 DEF fail, discard, FAILED, Control, OutputFileType
<1>3. ForNew(fail(fc, st)).status # "waiting" /\ Onward(f).at # "open"
  BY <1>1, <1>2, ForNewKeeps, OnwardIs DEF Typing
<1>4. files' = [files EXCEPT ![f] = ForNew(fail(fc, st))] /\ worker' = Onward(f)
  BY DEF FileFails
<1>5. QED
  BY <1>3, <1>4 DEF ForText

LEMMA WorkerKeepsText ==
  ASSUME TypeOK, WhereInv, TextInv, Worker
  PROVE  TextInv'
<1>1. Typing
  BY TypingIs
<1>2. ASSUME UNCHANGED files, worker'.at # "open" PROVE TextInv'
  BY <1>2 DEF TextInv
<1>3. CASE Taking
  <2>1. worker'.at # "open"
    <3>1. CASE TakeNamed
      BY <1>3, <3>1, TakingIs
    <3>2. CASE ~TakeNamed
      <4>1. \/ \E S : worker' = Visiting(S) \/ worker' = [Visiting(S) EXCEPT !.active = FALSE]
            \/ worker' = [Done EXCEPT !.command = Head(input_queue)]
        BY <1>3, <3>2
        DEF Taking, close_all_after_write, shutdown, closed_status, open_failures
      <4>2. QED
        <5>1. worker \in WorkerRecord
          BY <1>1 DEF Typing
        <5>2. \A S : /\ Visiting(S).at \in {"visit", "timer"}
                     /\ [Visiting(S) EXCEPT !.active = FALSE].at \in {"visit", "timer"}
          BY <5>1, VisitingFields DEF VisitingIs
        <5>3. [Done EXCEPT !.command = Head(input_queue)].at = "timer"
          BY <5>1 DEF Done, At, WorkerRecord, Stage
        <5>4. QED
          BY <4>1, <5>2, <5>3
    <3>3. QED
      BY <3>1, <3>2
  <2>2. files' = files \/ open_failures
    BY <1>3 DEF Taking, TakeNamed, close_all_after_write, shutdown, closed_status, fileVars
  <2>3. CASE open_failures
    <3>1. \A f \in Files : files'[f].status = "waiting" =>
            files[f].status = "waiting" /\ files'[f].queue = files[f].queue
      BY <1>1, <2>3 DEF open_failures, Absent, Typing, Control, OutputFileType
    <3>2. QED
      BY <2>1, <3>1 DEF TextInv
  <2>4. QED
    BY <1>2, <2>1, <2>2, <2>3
<1>4. CASE Publish \/ Reserve
  <2>1. files' = files /\ worker'.at = worker.at /\ worker'.name = worker.name
    BY <1>1, <1>4 DEF Publish, Reserve, fileVars, Typing, WorkerRecord
  <2>2. QED
    BY <2>1 DEF TextInv
<1>5. CASE Stop \/ WriteSucceeds \/ ResolveRaises \/ status \/ GetTimesOut \/ CheckTimer
  <2>1. worker' \in {Done, At("flush", worker.name, worker.message), At("timer", None, 0),
                     At("loop", None, 0)}
    BY <1>5 DEF Stop, WriteSucceeds, ResolveRaises, status, GetTimesOut, CheckTimer
  <2>2. worker'.at # "open"
    BY <1>1, <2>1, MoveFields DEF Typing
  <2>3. files' = files
    BY <1>5 DEF Stop, WriteSucceeds, ResolveRaises, status, GetTimesOut, CheckTimer, fileVars
  <2>4. QED
    BY <1>2, <2>2, <2>3
<1>6. CASE retry_waiting
  <2>1. \A S : [At("visit", None, 0) EXCEPT !.command = Retry, !.left = S].at = "visit"
    BY <1>1 DEF At, Typing, WorkerRecord, Stage
  <2>2. QED
    BY <1>2, <1>6, <2>1 DEF retry_waiting, Retries
<1>7. CASE WorkerEnds
  <2>1. [At("ended", None, 0) EXCEPT !.active = FALSE].at = "ended"
    BY <1>1 DEF At, Typing, WorkerRecord, Stage
  <2>2. \A c \in Control : discard(c).status # "waiting"
    BY DEF discard, FAILED, Control, OutputFileType, Status
  <2>3. \A f \in Files : files'[f] \in {discard(files[f]), files[f]}
    BY <1>7 DEF WorkerEnds
  <2>4. QED
    BY <1>1, <1>7, <2>1, <2>2, <2>3 DEF WorkerEnds, TextInv, Typing
<1>8. CASE OpenSucceeds \/ FlushSucceeds \/ CloseSucceeds \/ OpenLocked
  <2> DEFINE f == worker.name
  <2>1. f \in Files /\ files[f] \in Control
    BY <1>1, <1>8 DEF OpenSucceeds, FlushSucceeds, CloseSucceeds, OpenLocked, Ended, Typing,
       WorkerState, IoStage
  <2>2. CASE OpenSucceeds
    <3>1. Opened(files[f]) \in Control /\ Opened(files[f]).status = "open"
      BY <2>1, ControlOperators DEF Opened, Control, OutputFileType
    <3>2. QED
      BY <1>1, <2>1, <2>2, <3>1, DrainForText, ForTextKeeps DEF OpenSucceeds
  <2>3. CASE FlushSucceeds
    <3>1. files[f].status = "open"
      BY <2>3 DEF FlushSucceeds, Ended, WhereInv, StageInv
    <3>2. QED
      BY <1>1, <2>1, <2>3, <3>1, DrainForText, ForTextKeeps DEF FlushSucceeds
  <2>4. CASE CloseSucceeds
    <3> DEFINE fc == [files[f] EXCEPT !.status = "closed", !.openmode = "a"]
    <3>1. fc \in Control /\ fc.status = "closed"
      BY <2>1 DEF Control, OutputFileType, Status
    <3>2. ForNew(fc).status # "waiting" /\ Onward(f).at # "open"
      BY <1>1, <3>1, ForNewKeeps, OnwardIs DEF Typing
    <3>3. files' = [files EXCEPT ![f] = ForNew(fc)] /\ worker' = Onward(f)
      BY <2>4 DEF CloseSucceeds
    <3>4. ForText(f)
      BY <3>2, <3>3 DEF ForText
    <3>5. QED
      BY <1>1, <2>1, <3>4, ForTextKeeps
  <2>5. CASE OpenLocked
    <3> DEFINE c == [files[f] EXCEPT !.status = "waiting"]
    <3>1. c.queue # <<>> /\ Onward(f).at # "open"
      BY <1>1, <2>1, <2>5, OnwardIs DEF OpenLocked, Ended, TextInv, Typing, Control, OutputFileType
    <3>2. files' = [files EXCEPT ![f] = c] /\ worker' = Onward(f)
      BY <2>5 DEF OpenLocked
    <3>3. ForText(f)
      BY <3>1, <3>2 DEF ForText
    <3>4. QED
      BY <1>1, <2>1, <3>3, ForTextKeeps
  <2>6. QED
    BY <1>8, <2>2, <2>3, <2>4, <2>5
<1>9. CASE NeverOpens \/ WriteFails \/ CloseFails
  <2>1. worker.name \in Files /\ worker.message \in {0} \cup Write
    BY <1>1, <1>9 DEF NeverOpens, WriteFails, CloseFails, Ended, Typing, WorkerState, WorkerRecord,
       IoStage
  <2>2. PICK st \in FAILED : FileFails(worker.name, st)
    BY <1>9 DEF NeverOpens, WriteFails, CloseFails, FAILED
  <2>3. QED
    BY <1>1, <2>1, <2>2, FailsForText, ForTextKeeps
<1>10. CASE write \/ close_if_open \/ open_as_new
  <2> DEFINE f == Resolve[worker.name]
             fc == FileControl(files[f])
  <2>1. f \in Files /\ files[f] \in Control /\ fc \in Control
    <3>1. worker.name \in Names
      BY <1>1, <1>10 DEF write, close_if_open, open_as_new, Resolved, Ended, Typing, WorkerState,
         WorkerRecord, Command, Named, Global
    <3>2. QED
      BY <1>1, <3>1, FileWriterAssumption, ControlOperators DEF Typing
  <2>2. CASE close_if_open
    <3>1. CASE worker' = Done /\ UNCHANGED files
      BY <1>1, <1>2, <3>1, MoveFields DEF Typing
    <3>2. CASE close(f, files[f])
      BY <1>1, <2>1, <3>2, CloseForText, ForTextKeeps
    <3>3. QED
      BY <2>2, <3>1, <3>2 DEF close_if_open
  <2>3. CASE open_as_new
    BY <1>1, <2>1, <2>3, CloseForText, ForTextKeeps DEF open_as_new
  <2>4. CASE write
    <3> DEFINE w == worker.command.write
               u == [fc EXCEPT !.queue = Append(@, w)]
               c == [files[f] EXCEPT !.dropped = @ \cup {w}]
    <3>1. CASE files' = [files EXCEPT ![f] = c] /\ worker' = Done
      <4>1. c.status = files[f].status /\ c.queue = files[f].queue /\ Done.at # "open"
        BY <1>1, <2>1, MoveFields DEF Typing, Control, OutputFileType
      <4>2. ForText(f)
        BY <2>1, <3>1, <4>1 DEF ForText, TextInv
      <4>3. QED
        BY <1>1, <2>1, <4>2, ForTextKeeps
    <3>2. CASE try_open(f, u, Moved(worker.name, f))
      <4>1. w \in Write
        <5>1. worker.command \in Command /\ worker.command.cmd = "write"
          BY <1>1, <2>4 DEF write, Resolved, Typing, WorkerRecord
        <5>2. QED
          BY <5>1 DEF Command, Named, Global
      <4>2. fc.queue \in Seq(Write)
        BY <2>1 DEF Control, OutputFileType
      <4>3. Append(fc.queue, w) \in Seq(Write) /\ Append(fc.queue, w) # <<>>
        BY <4>1, <4>2, AppendProperties
      <4>4. u \in Control /\ u.queue # <<>>
        BY <2>1, <4>3 DEF Control, OutputFileType
      <4> HIDE DEF u
      <4>5. QED
        BY <1>1, <2>1, <3>2, <4>4, TryOpenForText, ForTextKeeps
    <3>3. QED
      BY <2>4, <3>1, <3>2 DEF write
  <2>5. QED
    BY <1>10, <2>2, <2>3, <2>4
<1>11. CASE Visit
  <2>1. PICK f \in worker.left :
          \/ worker.command = Retry /\ try_open(f, files[f], pending)
          \/ /\ files[f].status = "waiting"
             /\ files' = [files EXCEPT ![f].close_after_write = TRUE] /\ worker' = Onward(f)
          \/ worker.command # Retry /\ close(f, files[f])
    BY <1>11 DEF Visit
  <2>2. f \in Files /\ files[f] \in Control
    BY <1>1, <2>1 DEF Typing, WorkerRecord
  <2>3. CASE worker.command = Retry /\ try_open(f, files[f], pending)
    <3>1. files[f].status = "waiting" /\ files[f].queue # <<>>
      BY <1>11, <2>1, <2>2, <2>3 DEF Visit, WhereInv, StageInv, TextInv
    <3>2. QED
      BY <1>1, <2>2, <2>3, <3>1, TryOpenForText, ForTextKeeps
  <2>4. CASE /\ files[f].status = "waiting"
             /\ files' = [files EXCEPT ![f].close_after_write = TRUE] /\ worker' = Onward(f)
    <3> DEFINE c == [files[f] EXCEPT !.close_after_write = TRUE]
    <3>1. c.queue # <<>> /\ Onward(f).at # "open"
      BY <1>1, <2>2, <2>4, OnwardIs DEF TextInv, Typing, Control, OutputFileType
    <3>2. files' = [files EXCEPT ![f] = c]
      BY <2>4
    <3>3. ForText(f)
      BY <2>4, <3>1, <3>2 DEF ForText
    <3>4. QED
      BY <1>1, <2>2, <3>3, ForTextKeeps
  <2>5. CASE close(f, files[f])
    BY <1>1, <2>2, <2>5, CloseForText, ForTextKeeps
  <2>6. QED
    BY <2>1, <2>3, <2>4, <2>5
<1>12. QED
  BY <1>3, <1>4, <1>5, <1>6, <1>7, <1>8, <1>9, <1>10, <1>11 DEF Worker, Taking

LEMMA StepKeepsText ==
  ASSUME TypeOK, WhereInv, TextInv, [Next]_vars
  PROVE  TextInv'
<1>1. CASE \E n \in Names : filewriter_write(n)
  <2>1. UNCHANGED <<files, worker>>
    BY <1>1 DEF filewriter_write, callRest, fileVars
  <2>2. QED
    BY <2>1 DEF TextInv
<1>2. CASE Elsewhere
  <2>1. /\ worker' = worker
        /\ \A g \in Files : files'[g].queue = files[g].queue /\ files'[g].status = files[g].status
    BY <1>2, ElsewhereIs
  <2>2. worker.at = "open" => worker.name \in Files
    BY DEF TypeOK, WorkerState, IoStage
  <2>3. QED
    BY <2>1, <2>2 DEF TextInv
<1>3. QED
  BY <1>1, <1>2, WorkerKeepsText, StepIs

(* Until the writer is abandoned, the file that its worker opens or writes has writes
   pending. *)
LEMMA WrittenIsPending ==
  ASSUME DataInv, CountInv, TextInv, ~abandoned, worker.at \in {"open", "write", "flush"}
  PROVE  pending[worker.name] > 0
<1> DEFINE f == worker.name
<1>1. TypeOK /\ WhereInv /\ Typing
  BY TypingIs DEF DataInv
<1>2. f \in Files /\ f \in Names /\ (worker.at \in {"write", "flush"} => worker.message \in Write)
  BY <1>1, FileWriterAssumption DEF Typing, WorkerState, IoStage
<1>3. PlacesSplit
  BY <1>1, PlacesAre
<1>4. \E w : w \in Places[f]
  <2>1. CASE worker.at = "open"
    <3>1. files[f].queue \in Seq(Write) /\ files[f].queue # <<>>
      BY <1>1, <1>2, <2>1 DEF Typing, Control, OutputFileType, TextInv
    <3>2. Len(files[f].queue) \in Nat \ {0} /\ DOMAIN files[f].queue = 1 .. Len(files[f].queue)
      BY <3>1, LenProperties
    <3>3. files[f].queue[1] \in InQueue(f)
      BY <3>2 DEF InQueue, Queued
    <3>4. QED
      BY <1>2, <1>3, <3>3 DEF PlacesSplit
  <2>2. CASE worker.at \in {"write", "flush"}
    <3>1. worker.message # 0
      BY <1>2, <2>2 DEF Write
    <3>2. QED
      BY <1>2, <1>3, <3>1 DEF PlacesSplit
  <2>3. QED
    BY <2>1, <2>2
<1>5. Places[f] \subseteq Write /\ IsFiniteSet(Places[f])
  <2>1. Places[f] \subseteq InFlight /\ InFlight \subseteq Write
    BY <1>1, <1>2, FlightTyped DEF Places
  <2>2. QED
    BY <2>1, WriteIsFinite, FS_Subset
<1>6. Cardinality(Places[f]) \in Nat /\ Cardinality(Places[f]) # 0
  BY <1>4, <1>5, FS_CardinalityType, FS_EmptySet
<1>7. pending[f] = Cardinality(Places[f])
  BY <1>2 DEF CountInv, Counts
<1>8. QED
  BY <1>6, <1>7

(* The error lists the file of the call that was in progress at the abandonment. *)
NamedInv ==
  output_error.raised =>
    /\ abandoned
    /\ output_error.running.at \in {"open", "write", "flush"} =>
         output_error.running.name \in output_error.queued

LEMMA StepNames ==
  ASSUME DataInv, CountInv, TextInv, RunningInv, NamedInv, [Next]_vars
  PROVE  NamedInv'
<1>1. TypeOK
  BY DEF DataInv
<1>2. CASE output_error' = output_error /\ (abandoned => abandoned')
  BY <1>2 DEF NamedInv
<1>3. CASE NotesCall
  <2>1. /\ output_error'.raised = output_error.raised /\ output_error'.running = output_error.running
        /\ output_error'.queued = output_error.queued /\ abandoned' = abandoned
    BY <1>1, <1>3 DEF NotesCall, TypeOK
  <2>2. QED
    BY <2>1 DEF NamedInv
<1>4. CASE Abandon
  <2>1. ~abandoned
    BY <1>4 DEF Abandon, RunningInv
  <2>2. /\ output_error'.running = Running /\ abandoned'
        /\ output_error'.queued = {n \in Names : pending[n] > 0}
    BY <1>1, <1>4 DEF Abandon, TypeOK
  <2>3. Running.at \in {"open", "write", "flush"} =>
          worker.at = Running.at /\ worker.name = Running.name
    BY DEF Running, NoCall
  <2>4. worker.at \in {"open", "write", "flush"} => worker.name \in Names
    BY <1>1, FileWriterAssumption DEF TypeOK, WorkerState, IoStage
  <2>5. QED
    BY <2>1, <2>2, <2>3, <2>4, WrittenIsPending DEF NamedInv
<1>5. CASE Interrupt
  <2>1. CASE UNCHANGED <<abandoned, output_error>>
    BY <1>2, <2>1
  <2>2. CASE /\ caller.at = "blame"
             /\ output_error' = [output_error EXCEPT !.running = Running]
    <3>1. ~output_error.raised
      BY <2>2 DEF RunningInv, NamedInv
    <3>2. output_error'.raised = output_error.raised
      BY <1>1, <2>2 DEF TypeOK
    <3>3. QED
      BY <3>1, <3>2 DEF NamedInv
  <2>3. QED
    BY <1>5, <2>1, <2>2 DEF Interrupt
<1>6. CASE Worker
  BY <1>2, <1>6, WorkerKeepsCaller
<1>7. CASE Calls
  BY <1>2, <1>7 DEF Calls, filewriter_write, filewriter_open_as_new, filewriter_close,
     filewriter_close_all_after_write, filewriter_end
<1>8. CASE Ask \/ TakeStatus \/ TakeFailures \/ TimesOut \/ Joined
  BY <1>2, <1>3, <1>8 DEF Ask, TakeStatus, TakeFailures, TimesOut, Joined
<1>9. CASE ClockExpires \/ UNCHANGED vars
  BY <1>2, <1>9 DEF ClockExpires, loopRest, vars
<1>10. QED
  BY <1>3, <1>4, <1>5, <1>6, <1>7, <1>8, <1>9 DEF Next, Waiting, Over

(* Once the writer is abandoned a file changes only as the call ends that its worker
   was in by then; and if the abandonment raised, its error lists the file among those
   whose output may be lost (_abandon_writer, _io). *)
THEOREM LateChangesAreNamed == Spec => LateChangeIsNamed
<1> DEFINE IInv == DataInv /\ CountInv /\ TextInv /\ RunningInv /\ NamedInv
<1>1. Init => IInv
  <2> SUFFICES ASSUME Init PROVE IInv
    OBVIOUS
  <2>1. DataInv /\ InFlight = {}
    BY InitPlaced
  <2>2. \A n \in Names : Places[n] = {} /\ pending[n] = 0
    BY <2>1 DEF Places, Init
  <2>3. CountInv
    BY <2>2, FS_EmptySet DEF CountInv, Counts
  <2>4. TextInv /\ RunningInv /\ NamedInv
    BY DEF Init, Absent, TextInv, RunningInv, NamedInv
  <2>5. QED
    BY <2>1, <2>3, <2>4
<1>2. IInv /\ [Next]_vars => IInv'
  <2> SUFFICES ASSUME IInv, [Next]_vars PROVE IInv'
    OBVIOUS
  <2>1. TypeOK /\ WhereInv
    BY DEF DataInv
  <2>2. DataInv' /\ CountInv'
    BY StepSettles, StepCounts
  <2>3. TextInv' /\ RunningInv' /\ NamedInv'
    BY <2>1, StepKeepsText, RunningStep, StepNames
  <2>4. QED
    BY <2>2, <2>3
<1>3. IInv /\ [Next]_vars =>
        [abandoned /\ disk' # disk =>
           /\ Running = output_error.running
           /\ output_error.raised => worker.name \in output_error.queued]_vars
  <2> SUFFICES ASSUME IInv, [Next]_vars, abandoned, disk' # disk
               PROVE  /\ Running = output_error.running
                      /\ output_error.raised => worker.name \in output_error.queued
    OBVIOUS
  <2>1. worker.io = "reserved" /\ worker.at \in {"open", "write", "flush"}
    BY DiskChanges
  <2>2. Running = output_error.running
    BY <2>1 DEF RunningInv
  <2>3. Running.at = worker.at /\ Running.name = worker.name
    BY <2>1 DEF Running
  <2>4. QED
    BY <2>1, <2>2, <2>3 DEF NamedInv
<1>4. QED
  BY <1>1, <1>2, <1>3, PTL DEF Spec, LateChangeIsNamed
=============================================================================
