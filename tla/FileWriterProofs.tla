--------------------------- MODULE FileWriterProofs ---------------------------
(***************************************************************************)
(* Proofs about FileWriter: its types, and that an abandoned writer ends   *)
(* no call but the one its worker was in.                                  *)
(***************************************************************************)
EXTENDS FileWriter, FiniteSetTheorems, SequenceTheorems, TLAPS

Control == OutputFileType(Write)
TypeOutput ==
  output_error \in [op : Operation, raised : BOOLEAN, queued : SUBSET Names,
                   running : CallInProgress]

----------------------------------------------------------------------------
(* What the operators return. *)

(* A queue, a file's or the worker's, loses its head. *)
LEMMA HeadTail ==
  ASSUME NEW S, NEW q \in Seq(S), q # <<>>
  PROVE  Head(q) \in S /\ Tail(q) \in Seq(S)
BY HeadTailProperties

(* The writes a queue holds. *)
LEMMA QueuedTyped ==
  ASSUME NEW fc \in Control
  PROVE  Queued(fc) \subseteq Write
<1>1. fc.queue \in Seq(Write)
  BY DEF Control, OutputFileType
<1>2. \A i \in DOMAIN fc.queue : fc.queue[i] \in Write
  BY <1>1, ElementOfSeq, LenProperties
<1>3. QED
  BY <1>2 DEF Queued

(* The methods of FileControl keep its type. *)
LEMMA ControlOperators ==
  ASSUME NEW fc \in Control
  PROVE  /\ FileControl(fc) \in Control
         /\ discard(fc) \in Control
         /\ \A st \in FAILED : fail(fc, st) \in Control
         /\ TimedOut(fc) \in Control
         /\ CloseUnheld(fc) \in Control
         /\ Started(fc) \in Control
         /\ Opened(fc) \in Control
         /\ ForNew(fc) \in Control
<1>1. \A c \in Control : Queued(c) \subseteq Write
  BY QueuedTyped
<1>2. <<>> \in Seq(Write)
  OBVIOUS
<1>3. \A c \in Control : discard(c) \in Control
  BY <1>1, <1>2 DEF discard, Control, OutputFileType, Status
<1>4. \A st \in FAILED : fail(fc, st) \in Control
  BY <1>3 DEF fail, Control, OutputFileType, Status, FAILED
<1>5. CloseUnheld(fc) \in Control
  BY <1>1, <1>2 DEF CloseUnheld, Control, OutputFileType, Status
<1>6. /\ FileControl(fc) \in Control /\ Started(fc) \in Control
      /\ Opened(fc) \in Control /\ ForNew(fc) \in Control
  BY DEF FileControl, Started, Opened, ForNew, Control, OutputFileType, Status, Clock
<1>7. QED
  BY <1>3, <1>4, <1>5, <1>6 DEF TimedOut, FAILED

(* Where the worker goes from a step, no call is published. *)
LEMMA Moves ==
  ASSUME worker \in WorkerState
  PROVE  /\ \A stage \in {"loop", "timer", "visit", "ended"} :
              At(stage, None, 0) \in WorkerState /\ At(stage, None, 0).io = "idle"
         /\ \A stage \in {"open", "close"}, f \in Files :
              At(stage, f, 0) \in WorkerState /\ At(stage, f, 0).io = "idle"
         /\ \A stage \in {"write", "flush"}, f \in Files, w \in Write :
              At(stage, f, w) \in WorkerState /\ At(stage, f, w).io = "idle"
         /\ Done \in WorkerState /\ Done.io = "idle"
         /\ \A f \in Files : Onward(f) \in WorkerState /\ Onward(f).io = "idle"
<1>1. \A stage \in IoStage \cup {"loop", "timer", "visit", "ended"},
         n \in Names \cup {None}, w \in {0} \cup Write :
        /\ At(stage, n, w) \in WorkerRecord /\ At(stage, n, w).io = "idle"
        /\ At(stage, n, w).at = stage /\ At(stage, n, w).name = n
        /\ At(stage, n, w).message = w
  <2> TAKE stage \in IoStage \cup {"loop", "timer", "visit", "ended"},
           n \in Names \cup {None}, w \in {0} \cup Write
  <2>1. worker \in WorkerRecord
    BY DEF WorkerState
  <2>2. At(stage, n, w) \in WorkerRecord
    BY <2>1 DEF At, WorkerRecord, Stage
  <2>3. /\ At(stage, n, w).io = "idle" /\ At(stage, n, w).at = stage
        /\ At(stage, n, w).name = n /\ At(stage, n, w).message = w
    BY <2>1 DEF At, WorkerRecord, Stage
  <2>4. QED
    BY <2>2, <2>3
<1>2. \A stage \in {"loop", "timer", "visit", "ended"} :
        At(stage, None, 0) \in WorkerState /\ At(stage, None, 0).io = "idle"
  BY <1>1 DEF WorkerState, IoStage
<1>3. \A stage \in {"open", "close"}, f \in Files :
        At(stage, f, 0) \in WorkerState /\ At(stage, f, 0).io = "idle"
  BY <1>1, FileWriterAssumption DEF WorkerState, IoStage
<1>4. \A stage \in {"write", "flush"}, f \in Files, w \in Write :
        At(stage, f, w) \in WorkerState /\ At(stage, f, w).io = "idle"
  BY <1>1, FileWriterAssumption DEF WorkerState, IoStage
<1>5. \A stage \in {"loop", "timer", "visit"}, L \in SUBSET Files :
        /\ [At(stage, None, 0) EXCEPT !.left = L] \in WorkerState
        /\ [At(stage, None, 0) EXCEPT !.left = L].io = "idle"
  <2> TAKE stage \in {"loop", "timer", "visit"}, L \in SUBSET Files
  <2> DEFINE u == At(stage, None, 0)
  <2>1. u \in WorkerRecord /\ u.io = "idle" /\ u.at = stage
    BY <1>1
  <2> HIDE DEF u
  <2>2. /\ [u EXCEPT !.left = L] \in WorkerRecord
        /\ [u EXCEPT !.left = L].io = "idle" /\ [u EXCEPT !.left = L].at = stage
    BY <2>1 DEF WorkerRecord, Stage
  <2>3. [u EXCEPT !.left = L] \in WorkerState
    BY <2>2 DEF WorkerState, IoStage
  <2>4. QED
    BY <2>2, <2>3 DEF u
<1>6. Done \in WorkerState /\ Done.io = "idle"
  BY <1>5 DEF Done
<1>7. \A f \in Files : Onward(f) \in WorkerState /\ Onward(f).io = "idle"
  <2> TAKE f \in Files
  <2>1. [Done EXCEPT !.at = "loop"] \in WorkerState /\ [Done EXCEPT !.at = "loop"].io = "idle"
    BY DEF Done, At, WorkerState, WorkerRecord, Stage, IoStage
  <2>2. /\ [At("visit", None, 0) EXCEPT !.left = @ \ {f}] \in WorkerState
        /\ [At("visit", None, 0) EXCEPT !.left = @ \ {f}].io = "idle"
    BY DEF At, WorkerState, WorkerRecord, Stage, IoStage
  <2>3. QED
    BY <1>6, <2>1, <2>2 DEF Onward
<1>8. QED
  BY <1>2, <1>3, <1>4, <1>6, <1>7

LEMMA DrainTyped ==
  ASSUME worker \in WorkerState, files \in [Files -> Control],
         NEW f \in Files, NEW fc \in Control, Drain(f, fc)
  PROVE  /\ files' \in [Files -> Control]
         /\ worker' \in WorkerState /\ worker'.io = "idle"
<1> USE FileWriterAssumption
<1>1. CASE fc.queue # <<>> /\ files' = [files EXCEPT ![f] = [fc EXCEPT !.queue = Tail(@)]]
           /\ worker' = At("write", f, Head(fc.queue))
  <2>1. fc.queue \in Seq(Write)
    BY DEF Control, OutputFileType
  <2>2. Head(fc.queue) \in Write /\ Tail(fc.queue) \in Seq(Write)
    BY <1>1, <2>1, HeadTail
  <2>3. [fc EXCEPT !.queue = Tail(@)] \in Control
    BY <2>2 DEF Control, OutputFileType
  <2>4. QED
    BY <1>1, <2>2, <2>3, Moves DEF IoStage
<1>2. CASE /\ files' = [files EXCEPT ![f] = [fc EXCEPT !.close_after_write = FALSE]]
           /\ worker' = IF fc.close_after_write \/ worker.command.cmd \in Closing
                        THEN At("close", f, 0) ELSE Onward(f)
  <2>1. [fc EXCEPT !.close_after_write = FALSE] \in Control
    BY DEF Control, OutputFileType
  <2>2. QED
    BY <1>2, <2>1, Moves DEF IoStage
<1>3. QED
  BY <1>1, <1>2 DEF Drain

(* Where writes are retired, the counts stay natural numbers. *)
LEMMA RetiredTyped ==
  ASSUME NEW p \in [Names -> Nat], NEW n \in Names, NEW count \in Nat
  PROVE  Retired(p, n, count) \in [Names -> Nat]
BY DEF Retired

LEMMA MovedTyped ==
  ASSUME pending \in [Names -> Nat], NEW n \in Names, NEW f \in Names
  PROVE  Moved(n, f) \in [Names -> Nat]
BY DEF Moved

LEMMA TryOpenTyped ==
  ASSUME worker \in WorkerState, files \in [Files -> Control],
         NEW f \in Files, NEW fc \in Control, NEW p \in [Names -> Nat], try_open(f, fc, p)
  PROVE  /\ files' \in [Files -> Control]
         /\ worker' \in WorkerState /\ worker'.io = "idle"
         /\ pending' \in [Names -> Nat]
<1> USE FileWriterAssumption
<1>1. CASE Drain(f, fc) /\ pending' = p
  BY <1>1, DrainTyped
<1>2. CASE /\ files' = [files EXCEPT ![f] = Started(fc)]
           /\ worker' = At("open", f, 0) /\ pending' = p
  BY <1>2, ControlOperators, Moves DEF IoStage
<1>3. CASE /\ files' = [files EXCEPT ![f] = TimedOut(fc)]
           /\ pending' = Retired(p, f, Len(fc.queue)) /\ worker' = Onward(f)
  <2>1. Len(fc.queue) \in Nat
    BY LenProperties DEF Control, OutputFileType
  <2>2. QED
    BY <1>3, <2>1, ControlOperators, Moves, RetiredTyped
<1>4. QED
  BY <1>1, <1>2, <1>3 DEF try_open

LEMMA CloseTyped ==
  ASSUME worker \in WorkerState, files \in [Files -> Control], pending \in [Names -> Nat],
         NEW f \in Files, NEW fc \in Control, close(f, fc)
  PROVE  /\ files' \in [Files -> Control]
         /\ worker' \in WorkerState /\ worker'.io = "idle"
         /\ pending' \in [Names -> Nat]
<1> USE FileWriterAssumption
<1>1. CASE Drain(f, fc) /\ UNCHANGED pending
  BY <1>1, DrainTyped
<1>2. CASE /\ files' = [files EXCEPT ![f] = ForNew(CloseUnheld(fc))]
           /\ pending' = IF fc.status = "waiting" THEN Retired(pending, f, Len(fc.queue))
                         ELSE pending
           /\ worker' = Onward(f)
  <2>1. Len(fc.queue) \in Nat
    BY LenProperties DEF Control, OutputFileType
  <2>2. ForNew(CloseUnheld(fc)) \in Control
    BY ControlOperators
  <2>3. QED
    BY <1>2, <2>1, <2>2, Moves, RetiredTyped
<1>3. QED
  BY <1>1, <1>2 DEF close

LEMMA FileFailsTyped ==
  ASSUME worker \in WorkerState, files \in [Files -> Control], pending \in [Names -> Nat],
         NEW f \in Files, NEW st \in FAILED, FileFails(f, st)
  PROVE  /\ files' \in [Files -> Control]
         /\ worker' \in WorkerState /\ worker'.io = "idle"
         /\ pending' \in [Names -> Nat]
<1> DEFINE message == {worker.message} \ {0}
           fc == [files[f] EXCEPT !.dropped = @ \cup message]
<1>1. message \subseteq Write /\ IsFiniteSet(message)
  <2>1. message \subseteq {worker.message} /\ IsFiniteSet({worker.message})
    BY FS_Singleton
  <2>2. QED
    BY <2>1, FS_Subset DEF WorkerState, WorkerRecord, Stage
<1>2. Cardinality(message) \in Nat
  BY <1>1, FS_CardinalityType
<1>3. fc \in Control
  BY <1>1 DEF Control, OutputFileType
<1>4. ForNew(fail(fc, st)) \in Control
  BY <1>3, ControlOperators
<1>5. Len(fc.queue) + Cardinality(message) \in Nat
  <2>1. Len(fc.queue) \in Nat
    BY <1>3, LenProperties DEF Control, OutputFileType
  <2>2. QED
    BY <1>2, <2>1
<1>6. pending' \in [Names -> Nat]
  <2>1. pending' = Retired(pending, f, Len(fc.queue) + Cardinality(message))
    BY DEF FileFails
  <2>2. f \in Names
    BY FileWriterAssumption
  <2>3. QED
    BY <1>5, <2>1, <2>2, RetiredTyped
<1>7. files' = [files EXCEPT ![f] = ForNew(fail(fc, st))]
  BY DEF FileFails
<1>8. worker' = Onward(f)
  BY DEF FileFails
<1>9. QED
  BY <1>4, <1>6, <1>7, <1>8, Moves

----------------------------------------------------------------------------
(* Every step keeps the types. *)

(* What a command that the worker takes is. *)
LEMMA TakeTyped ==
  ASSUME TypeOK, NEW cmd, Take(cmd)
  PROVE  /\ Head(input_queue) \in Command /\ Head(input_queue).cmd = cmd
         /\ input_queue' \in Seq(Command)
BY HeadTail DEF TypeOK, Take

(* Taking one that visits the files of a set, or that is done at once. *)
LEMMA VisitingTyped ==
  ASSUME worker \in WorkerState, Head(input_queue) \in Command, NEW L \in SUBSET Files
  PROVE  /\ Visiting(L) \in WorkerState
         /\ [Visiting(L) EXCEPT !.active = FALSE] \in WorkerState
         /\ [Done EXCEPT !.command = Head(input_queue)] \in WorkerState
<1> DEFINE c == Head(input_queue)
<1>1. At("visit", None, 0) \in WorkerState /\ Done \in WorkerState
  BY Moves
<1>2. At("visit", None, 0).at = "visit" /\ Done.at = "timer"
  BY DEF At, Done, WorkerState, WorkerRecord, Stage
<1>3. ASSUME NEW w \in WorkerState, w.at \in {"visit", "timer"}
      PROVE  /\ [w EXCEPT !.command = c] \in WorkerState
             /\ [w EXCEPT !.command = c, !.left = L] \in WorkerState
             /\ [[w EXCEPT !.command = c, !.left = L] EXCEPT !.active = FALSE] \in WorkerState
  <2>1. [w EXCEPT !.command = c] \in WorkerState
    BY <1>3 DEF WorkerState, WorkerRecord, Stage, IoStage
  <2>2. [w EXCEPT !.command = c, !.left = L] \in WorkerState
    BY <1>3 DEF WorkerState, WorkerRecord, Stage, IoStage
  <2>3. [[w EXCEPT !.command = c, !.left = L] EXCEPT !.active = FALSE] \in WorkerState
    <3>1. \A v \in WorkerState : [v EXCEPT !.active = FALSE] \in WorkerState
      BY DEF WorkerState, WorkerRecord, Stage
    <3>2. QED
      BY <2>2, <3>1
  <2>4. QED
    BY <2>1, <2>2, <2>3
<1>4. QED
  BY <1>1, <1>2, <1>3 DEF Visiting

LEMMA TakeKeepsTypes ==
  ASSUME TypeOK,
         TakeNamed \/ close_all_after_write \/ shutdown \/ closed_status \/ open_failures
  PROVE  TypeOK'
<1> DEFINE c == Head(input_queue)
<1>0. worker \in WorkerState /\ files \in [Files -> Control]
  BY DEF TypeOK, Control
<1>1. CASE TakeNamed
  <2>1. PICK cmd \in Named : /\ Take(cmd)
                             /\ worker' = [At("resolve", c.name, c.write) EXCEPT !.command = c]
    BY <1>1 DEF TakeNamed
  <2>2. c \in Command /\ c.cmd \in Named /\ input_queue' \in Seq(Command)
    BY <2>1, TakeTyped
  <2>3. c.name \in Names /\ c.write \in {0} \cup Write
    BY <2>2 DEF Command, Named, Global
  <2>4. worker' \in WorkerState
    BY <1>0, <2>1, <2>2, <2>3 DEF At, WorkerState, WorkerRecord, Stage, IoStage
  <2>5. QED
    BY <1>1, <2>2, <2>4 DEF TakeNamed, TypeOK, fileVars, callVars
<1>2. CASE close_all_after_write
  <2>1. c \in Command /\ input_queue' \in Seq(Command)
    BY <1>2, TakeTyped DEF close_all_after_write
  <2>2. worker' \in WorkerState
    BY <1>0, <1>2, <2>1, VisitingTyped DEF close_all_after_write
  <2>3. QED
    BY <1>2, <2>1, <2>2 DEF close_all_after_write, TypeOK, fileVars, callVars
<1>3. CASE shutdown
  <2>1. c \in Command /\ input_queue' \in Seq(Command)
    BY <1>3, TakeTyped DEF shutdown
  <2>2. worker' \in WorkerState
    BY <1>0, <1>3, <2>1, VisitingTyped DEF shutdown
  <2>3. QED
    BY <1>3, <2>1, <2>2 DEF shutdown, TypeOK, fileVars, callVars
<1>4. CASE closed_status
  <2>1. c \in Command /\ input_queue' \in Seq(Command)
    BY <1>4, TakeTyped DEF closed_status
  <2>2. worker' \in WorkerState
    BY <1>0, <1>4, <2>1, VisitingTyped DEF closed_status
  <2>3. PICK st \in Status :
          return_msg_queue' = Append(return_msg_queue, [status |-> st, failures |-> {}])
    BY <1>4 DEF closed_status, Status
  <2>4. [status |-> st, failures |-> {}] \in Reply
    BY DEF Reply
  <2>5. return_msg_queue' \in Seq(Reply)
    BY <2>3, <2>4, AppendProperties DEF TypeOK
  <2>6. QED
    BY <1>4, <2>1, <2>2, <2>5 DEF closed_status, TypeOK, fileVars, callVars
<1>5. CASE open_failures
  <2> DEFINE failed == {f \in Files : files[f].status \in FAILED}
             given_up == {f \in Files \ failed : files[f].abandoned # {}}
             dropped == {[subject |-> f, writes |-> files[f].dropped] : f \in failed}
             abandons == {[subject |-> f, writes |-> files[f].abandoned] : f \in given_up}
             reply == [status |-> "none", failures |-> dropped \cup abandons \cup errors]
  <2>1. c \in Command /\ input_queue' \in Seq(Command)
    BY <1>5, TakeTyped DEF open_failures
  <2>2. worker' \in WorkerState
    BY <1>0, <1>5, <2>1, VisitingTyped DEF open_failures
  <2>3. \A f \in Files : files[f].dropped \subseteq Write /\ files[f].abandoned \subseteq Write
    BY <1>0 DEF Control, OutputFileType
  <2>4. dropped \subseteq Lost /\ abandons \subseteq Lost /\ errors \subseteq Lost
    BY <2>3, FileWriterAssumption DEF Lost, TypeOK
  <2>5. reply \in Reply
    BY <2>4 DEF Reply
  <2>6. return_msg_queue' \in Seq(Reply)
    BY <1>5, <2>5, AppendProperties DEF open_failures, TypeOK
  <2>7. files' \in [Files -> Control]
    <3>1. Absent \in Control
      BY DEF Absent, Control, OutputFileType, Status, Clock
    <3>2. \A f \in Files : [files[f] EXCEPT !.abandoned = {}] \in Control
      BY <1>0 DEF Control, OutputFileType
    <3>3. QED
      BY <1>5, <3>1, <3>2 DEF open_failures
  <2>8. QED
    BY <1>5, <2>1, <2>2, <2>6, <2>7 DEF open_failures, TypeOK, callVars, Control
<1>6. QED
  BY <1>1, <1>2, <1>3, <1>4, <1>5

(* The end of a call of the operating system, and the steps between two. *)
LEMMA ResolvedKeepsTypes ==
  ASSUME TypeOK, ResolveRaises \/ write \/ close_if_open \/ open_as_new \/ status
  PROVE  TypeOK'
<1> DEFINE n == worker.name
           w == worker.command.write
           f == Resolve[n]
<1>1. worker \in WorkerState /\ files \in [Files -> Control] /\ pending \in [Names -> Nat]
  BY DEF TypeOK, Control
<1>2. /\ worker.command \in Command /\ worker.command.cmd \in Named
      /\ n = worker.command.name
  BY <1>1 DEF ResolveRaises, write, close_if_open, open_as_new, status, Resolved, Ended,
     WorkerState, WorkerRecord
<1>3. n \in Names /\ w \in {0} \cup Write /\ (worker.command.cmd = "write" => w \in Write)
  BY <1>2 DEF Command, Named, Global
<1>4. f \in Files /\ f \in Names
  BY <1>3, FileWriterAssumption
<1>5. current_op' \in Operation
  BY DEF ResolveRaises, write, close_if_open, open_as_new, status, Resolved, Ended, Operation, NoOp
<1>6. Done \in WorkerState
  BY <1>1, Moves
<1>7. FileControl(files[f]) \in Control
  BY <1>1, <1>4, ControlOperators
<1>8. CASE ResolveRaises
  <2>1. errors' \subseteq Lost
    BY <1>3, <1>8 DEF ResolveRaises, Lost, TypeOK
  <2>2. pending' \in [Names -> Nat]
    BY <1>1, <1>3, <1>8, RetiredTyped DEF ResolveRaises
  <2>3. [status |-> "closed", failures |-> {}] \in Reply
    BY DEF Reply, Status
  <2>4. return_msg_queue' \in Seq(Reply)
    BY <1>8, <2>3, AppendProperties DEF ResolveRaises, TypeOK
  <2>5. QED
    BY <1>5, <1>6, <1>8, <2>1, <2>2, <2>4 DEF ResolveRaises, TypeOK, ioRest, callVars
<1>9. CASE write
  <2> DEFINE fc == FileControl(files[f])
             p == Moved(n, f)
  <2>1. w \in Write
    BY <1>3, <1>9 DEF write, Resolved
  <2>2. p \in [Names -> Nat]
    BY <1>1, <1>3, <1>4, MovedTyped
  <2>3. CASE /\ files' = [files EXCEPT ![f].dropped = @ \cup {w}]
             /\ pending' = Retired(p, f, 1) /\ worker' = Done
    <3>1. files' \in [Files -> Control]
      <4>1. [files[f] EXCEPT !.dropped = @ \cup {w}] \in Control
        <5>1. files[f] \in Control
          BY <1>1, <1>4
        <5>2. files[f].dropped \cup {w} \subseteq Write
          BY <2>1, <5>1 DEF Control, OutputFileType
        <5>3. QED
          BY <5>1, <5>2 DEF Control, OutputFileType
      <4>2. files' = [files EXCEPT ![f] = [files[f] EXCEPT !.dropped = @ \cup {w}]]
        BY <2>3
      <4>3. QED
        BY <1>1, <4>1, <4>2
    <3>2. pending' \in [Names -> Nat]
      BY <1>4, <2>2, <2>3, RetiredTyped
    <3>3. QED
      BY <1>5, <1>6, <1>9, <2>3, <3>1, <3>2 DEF write, TypeOK, ioRest, callVars, Control
  <2>4. CASE try_open(f, [fc EXCEPT !.queue = Append(@, w)], p)
    <3>1. [fc EXCEPT !.queue = Append(@, w)] \in Control
      <4>1. fc.queue \in Seq(Write)
        BY <1>7 DEF Control, OutputFileType
      <4>2. Append(fc.queue, w) \in Seq(Write)
        BY <2>1, <4>1, AppendProperties
      <4>3. QED
        BY <1>7, <4>2 DEF Control, OutputFileType
    <3>2. /\ files' \in [Files -> Control] /\ worker' \in WorkerState
          /\ pending' \in [Names -> Nat]
      BY <1>1, <1>4, <2>2, <2>4, <3>1, TryOpenTyped
    <3>3. QED
      BY <1>5, <1>9, <3>2 DEF write, TypeOK, ioRest, callVars, Control
  <2>5. QED
    BY <1>9, <2>3, <2>4 DEF write
<1>10. CASE close_if_open
  <2>1. CASE worker' = Done /\ UNCHANGED <<files, pending>>
    BY <1>5, <1>6, <1>10, <2>1 DEF close_if_open, TypeOK, ioRest, callVars
  <2>2. CASE close(f, files[f])
    <3>1. /\ files' \in [Files -> Control] /\ worker' \in WorkerState
          /\ pending' \in [Names -> Nat]
      BY <1>1, <1>4, <2>2, CloseTyped
    <3>2. QED
      BY <1>5, <1>10, <3>1 DEF close_if_open, TypeOK, ioRest, callVars, Control
  <2>3. QED
    BY <1>10, <2>1, <2>2 DEF close_if_open
<1>11. CASE open_as_new
  <2>1. /\ files' \in [Files -> Control] /\ worker' \in WorkerState
        /\ pending' \in [Names -> Nat]
    BY <1>1, <1>4, <1>7, <1>11, CloseTyped DEF open_as_new
  <2>2. QED
    BY <1>5, <1>11, <2>1 DEF open_as_new, TypeOK, ioRest, callVars, Control
<1>12. CASE status
  <2> DEFINE st == files[f].status
  <2>1. st \in Status
    BY <1>1, <1>4 DEF Control, OutputFileType
  <2>2. [status |-> IF st = "absent" THEN "unopened" ELSE st, failures |-> {}] \in Reply
    BY <2>1 DEF Reply, Status
  <2>3. return_msg_queue' \in Seq(Reply)
    BY <1>12, <2>2, AppendProperties DEF status, TypeOK
  <2>4. QED
    BY <1>5, <1>6, <1>12, <2>3 DEF status, TypeOK, ioRest, callVars, fileVars
<1>13. QED
  BY <1>8, <1>9, <1>10, <1>11, <1>12

LEMMA IoKeepsTypes ==
  ASSUME TypeOK,
         \/ OpenSucceeds \/ OpenLocked \/ NeverOpens \/ WriteSucceeds \/ FlushSucceeds
         \/ WriteFails \/ CloseSucceeds \/ CloseFails
  PROVE  TypeOK'
<1> DEFINE f == worker.name
           fc == files[f]
<1>1. worker \in WorkerState /\ files \in [Files -> Control] /\ pending \in [Names -> Nat]
      /\ disk \in [Files -> Seq({0} \cup Write)]
  BY DEF TypeOK, Control
<1>2. worker.at \in {"open", "write", "flush", "close"}
  BY DEF OpenSucceeds, OpenLocked, NeverOpens, WriteSucceeds, FlushSucceeds, WriteFails,
     CloseSucceeds, CloseFails, Ended
<1>3. f \in Files /\ f \in Names /\ (worker.at \in {"write", "flush"} => worker.message \in Write)
  BY <1>1, <1>2, FileWriterAssumption DEF WorkerState, IoStage
<1>4. current_op' \in Operation
  BY DEF OpenSucceeds, OpenLocked, NeverOpens, WriteSucceeds, FlushSucceeds, WriteFails,
     CloseSucceeds, CloseFails, Ended, Operation, NoOp
<1>5. fc \in Control
  BY <1>1, <1>3
<1>6. ASSUME OnDisk(f), worker.at \in {"write", "flush"}
      PROVE  disk' \in [Files -> Seq({0} \cup Write)] /\ stored' \subseteq Write
  <2>1. disk[f] \in Seq({0} \cup Write) /\ worker.message \in {0} \cup Write
    BY <1>1, <1>3, <1>6
  <2>2. Append(disk[f], worker.message) \in Seq({0} \cup Write)
    BY <2>1, AppendProperties
  <2>3. QED
    BY <1>1, <1>3, <1>6, <2>2 DEF OnDisk, TypeOK
<1>7. CASE OpenSucceeds
  <2>1. disk' \in [Files -> Seq({0} \cup Write)]
    BY <1>1, <1>3, <1>7 DEF OpenSucceeds
  <2>2. files' \in [Files -> Control] /\ worker' \in WorkerState
    BY <1>1, <1>3, <1>5, <1>7, ControlOperators, DrainTyped DEF OpenSucceeds
  <2>3. QED
    BY <1>4, <1>7, <2>1, <2>2 DEF OpenSucceeds, TypeOK, ioRest, callVars, Control
<1>8. CASE OpenLocked
  <2>1. [fc EXCEPT !.status = "waiting"] \in Control
    BY <1>5 DEF Control, OutputFileType, Status
  <2>2. files' = [files EXCEPT ![f] = [fc EXCEPT !.status = "waiting"]]
    BY <1>8 DEF OpenLocked
  <2>3. files' \in [Files -> Control] /\ worker' \in WorkerState
    BY <1>1, <1>3, <1>8, <2>1, <2>2, Moves DEF OpenLocked
  <2>4. QED
    BY <1>4, <1>8, <2>3 DEF OpenLocked, TypeOK, ioRest, callVars, Control
<1>9. CASE NeverOpens
  <2>1. /\ files' \in [Files -> Control] /\ worker' \in WorkerState
        /\ pending' \in [Names -> Nat]
    BY <1>1, <1>3, <1>9, FileFailsTyped DEF NeverOpens, FAILED
  <2>2. QED
    BY <1>4, <1>9, <2>1 DEF NeverOpens, TypeOK, ioRest, callVars, Control
<1>10. CASE WriteSucceeds
  <2>1. worker.message \in Write
    BY <1>3, <1>10 DEF WriteSucceeds, Ended
  <2>2. worker' \in WorkerState
    BY <1>1, <1>3, <1>10, <2>1, Moves DEF WriteSucceeds
  <2>3. QED
    BY <1>4, <1>10, <2>2 DEF WriteSucceeds, TypeOK, ioRest, callVars, fileVars
<1>11. CASE FlushSucceeds
  <2>1. disk' \in [Files -> Seq({0} \cup Write)] /\ stored' \subseteq Write
    BY <1>6, <1>11 DEF FlushSucceeds, Ended
  <2>2. files' \in [Files -> Control] /\ worker' \in WorkerState
    BY <1>1, <1>3, <1>5, <1>11, DrainTyped DEF FlushSucceeds
  <2>3. pending' \in [Names -> Nat]
    BY <1>1, <1>3, <1>11, RetiredTyped DEF FlushSucceeds
  <2>4. QED
    BY <1>4, <1>11, <2>1, <2>2, <2>3 DEF FlushSucceeds, TypeOK, ioRest, callVars, Control
<1>12. CASE WriteFails
  <2>1. disk' \in [Files -> Seq({0} \cup Write)] /\ stored' \subseteq Write
    BY <1>1, <1>6, <1>12 DEF WriteFails, Ended, TypeOK
  <2>2. /\ files' \in [Files -> Control] /\ worker' \in WorkerState
        /\ pending' \in [Names -> Nat]
    BY <1>1, <1>3, <1>12, FileFailsTyped DEF WriteFails, FAILED
  <2>3. QED
    BY <1>4, <1>12, <2>1, <2>2 DEF WriteFails, TypeOK, ioRest, callVars, Control
<1>13. CASE CloseSucceeds
  <2>1. [fc EXCEPT !.status = "closed", !.openmode = "a"] \in Control
    BY <1>5 DEF Control, OutputFileType, Status
  <2>2. ForNew([fc EXCEPT !.status = "closed", !.openmode = "a"]) \in Control
    BY <2>1, ControlOperators
  <2>3. files' = [files EXCEPT ![f] = ForNew([fc EXCEPT !.status = "closed", !.openmode = "a"])]
    BY <1>13 DEF CloseSucceeds
  <2>4. files' \in [Files -> Control] /\ worker' \in WorkerState
    BY <1>1, <1>3, <1>13, <2>2, <2>3, Moves DEF CloseSucceeds
  <2>5. QED
    BY <1>4, <1>13, <2>4 DEF CloseSucceeds, TypeOK, ioRest, callVars, Control
<1>14. CASE CloseFails
  <2>1. /\ files' \in [Files -> Control] /\ worker' \in WorkerState
        /\ pending' \in [Names -> Nat]
    BY <1>1, <1>3, <1>14, FileFailsTyped DEF CloseFails, FAILED
  <2>2. QED
    BY <1>4, <1>14, <2>1 DEF CloseFails, TypeOK, ioRest, callVars, Control
<1>15. QED
  BY <1>7, <1>8, <1>9, <1>10, <1>11, <1>12, <1>13, <1>14

LEMMA LoopKeepsTypes ==
  ASSUME TypeOK,
         \/ Publish \/ Reserve \/ Stop \/ Visit
         \/ GetTimesOut \/ CheckTimer \/ retry_waiting \/ WorkerEnds
  PROVE  TypeOK'
<1>1. worker \in WorkerState /\ worker \in WorkerRecord
      /\ files \in [Files -> Control] /\ pending \in [Names -> Nat]
  BY DEF TypeOK, Control, WorkerState
<1>2. CASE Publish
  <2>1. Called(worker.at) \in {"none", "open", "write", "close"}
    BY <1>2 DEF Publish, Called, IoStage
  <2>2. worker' \in WorkerState /\ current_op' \in Operation
    BY <1>1, <1>2, <2>1 DEF Publish, WorkerState, WorkerRecord, Stage, Operation
  <2>3. QED
    BY <1>2, <2>2 DEF Publish, TypeOK, ioRest, callVars, fileVars
<1>3. CASE Reserve
  <2>1. worker' \in WorkerState
    BY <1>1, <1>3 DEF Reserve, WorkerState, WorkerRecord, Stage
  <2>2. QED
    BY <1>3, <2>1 DEF Reserve, TypeOK, ioRest, callVars, fileVars
<1>4. CASE Stop
  <2>1. worker' \in WorkerState /\ current_op' \in Operation
    BY <1>1, <1>4, Moves DEF Stop, Operation, NoOp
  <2>2. QED
    BY <1>4, <2>1 DEF Stop, TypeOK, ioRest, callVars, fileVars
<1>5. CASE Visit
  <2>1. PICK f \in worker.left :
          \/ try_open(f, files[f], pending)
          \/ /\ files' = [files EXCEPT ![f].close_after_write = TRUE]
             /\ worker' = Onward(f) /\ UNCHANGED pending
          \/ close(f, files[f])
    BY <1>5 DEF Visit
  <2>2. f \in Files /\ files[f] \in Control
    BY <1>1, <2>1 DEF WorkerRecord, Stage
  <2>3. [files[f] EXCEPT !.close_after_write = TRUE] \in Control
    BY <2>2 DEF Control, OutputFileType
  <2>4. CASE files' = [files EXCEPT ![f].close_after_write = TRUE] /\ worker' = Onward(f)
             /\ UNCHANGED pending
    <3>1. files' = [files EXCEPT ![f] = [files[f] EXCEPT !.close_after_write = TRUE]]
      BY <2>4
    <3>2. QED
      BY <1>1, <1>5, <2>2, <2>3, <2>4, <3>1, Moves DEF Visit, TypeOK, ioRest, callVars, Control
  <2>5. CASE try_open(f, files[f], pending) \/ close(f, files[f])
    <3>1. /\ files' \in [Files -> Control] /\ worker' \in WorkerState
          /\ pending' \in [Names -> Nat]
      BY <1>1, <2>2, <2>5, TryOpenTyped, CloseTyped
    <3>2. QED
      BY <1>5, <3>1 DEF Visit, TypeOK, ioRest, callVars, Control
  <2>6. QED
    BY <2>1, <2>4, <2>5
<1>6. CASE GetTimesOut
  BY <1>1, <1>6, Moves DEF GetTimesOut, TypeOK, loopRest, callVars
<1>7. CASE CheckTimer
  BY <1>1, <1>7, Moves DEF CheckTimer, TypeOK, loopRest, callVars
<1>8. CASE WorkerEnds
  <2>1. worker' \in WorkerState
    <3>1. At("ended", None, 0) \in WorkerState /\ At("ended", None, 0).at = "ended"
      BY <1>1, Moves DEF At, WorkerRecord, Stage
    <3>2. QED
      BY <1>8, <3>1 DEF WorkerEnds, WorkerState, WorkerRecord, Stage, IoStage
  <2>2. files' \in [Files -> Control]
    BY <1>1, <1>8, ControlOperators DEF WorkerEnds
  <2>3. input_queue' \in Seq(Command) /\ pending' \in [Names -> Nat]
    BY <1>1, <1>8 DEF WorkerEnds, TypeOK
  <2>4. QED
    BY <1>8, <2>1, <2>2, <2>3 DEF WorkerEnds, TypeOK, loopRest, callVars, Control
<1>9. CASE retry_waiting
  <2> DEFINE waiting == {f \in Files : files[f].status = "waiting"}
  <2>1. Retry \in Command
    BY DEF Retry, Command
  <2>2. At("visit", None, 0) \in WorkerState /\ At("visit", None, 0).at = "visit"
    BY <1>1, Moves DEF At, WorkerRecord, Stage
  <2>3. [At("visit", None, 0) EXCEPT !.command = Retry, !.left = waiting] \in WorkerState
    BY <2>1, <2>2 DEF WorkerState, WorkerRecord, Stage, IoStage
  <2>4. QED
    BY <1>9, <2>3 DEF retry_waiting, Retries, TypeOK, loopRest, callVars
<1>10. QED
  BY <1>2, <1>3, <1>4, <1>5, <1>6, <1>7, <1>8, <1>9

LEMMA ClockKeepsTypes ==
  ASSUME TypeOK, ClockExpires
  PROVE  TypeOK'
<1>1. PICK f \in Files : files' = [files EXCEPT ![f].clock = "expired"]
  BY DEF ClockExpires
<1>2. files \in [Files -> Control]
  BY DEF TypeOK, Control
<1>3. [files[f] EXCEPT !.clock = "expired"] \in Control
  BY <1>2 DEF Control, OutputFileType, Clock
<1>4. files' = [files EXCEPT ![f] = [files[f] EXCEPT !.clock = "expired"]]
  BY <1>1
<1>5. QED
  BY <1>2, <1>3, <1>4 DEF ClockExpires, TypeOK, loopRest, callVars, Control

(* A command that a caller queues. *)
LEMMA SubmitTyped ==
  ASSUME TypeOK, NEW cmd, NEW n, NEW w, Submit(cmd, n, w),
         [cmd |-> cmd, name |-> n, write |-> w] \in Command
  PROVE  input_queue' \in Seq(Command)
BY AppendProperties DEF TypeOK, Submit

(* One call less is left. *)
LEMMA SpendTyped ==
  ASSUME TypeOK
  PROVE  /\ Spend => bounds' \in [calls : 0..MaxCalls, interrupts : 0..MaxInterrupts]
         /\ Interrupt => bounds' \in [calls : 0..MaxCalls, interrupts : 0..MaxInterrupts]
<1>1. /\ bounds \in [calls : 0..MaxCalls, interrupts : 0..MaxInterrupts]
      /\ MaxCalls \in Nat /\ MaxInterrupts \in Nat
  BY FileWriterAssumption DEF TypeOK
<1>2. bounds.calls \in 0..MaxCalls /\ bounds.interrupts \in 0..MaxInterrupts
  BY <1>1
<1>3. /\ bounds.calls > 0 => bounds.calls - 1 \in 0..MaxCalls
      /\ bounds.interrupts > 0 => bounds.interrupts - 1 \in 0..MaxInterrupts
  BY <1>1, <1>2
<1>4. ASSUME Spend
      PROVE  bounds' \in [calls : 0..MaxCalls, interrupts : 0..MaxInterrupts]
  BY <1>1, <1>3, <1>4 DEF Spend
<1>5. ASSUME Interrupt
      PROVE  bounds' \in [calls : 0..MaxCalls, interrupts : 0..MaxInterrupts]
  BY <1>1, <1>3, <1>5 DEF Interrupt
<1>6. QED
  BY <1>4, <1>5

(* A call that waits: where it is next, and what it has returned. *)
LEMMA CallerMoves ==
  ASSUME TypeOK
  PROVE  /\ \A at \in {"ask", "await", "collect", "gather", "blame"} :
              [caller EXCEPT !.at = at] \in CallerState
         /\ \A op \in {"idle", "ended"} :
              [op |-> op, at |-> "idle", name |-> None] \in CallerState
         /\ [op |-> "end", at |-> "join", name |-> None] \in CallerState
<1>1. caller \in CallerState
  BY DEF TypeOK
<1>2. \A at \in {"ask", "await", "collect", "gather", "blame"} :
        [caller EXCEPT !.at = at] \in CallerState
  BY <1>1 DEF CallerState
<1>3. \A op \in {"idle", "ended"} :
        [op |-> op, at |-> "idle", name |-> None] \in CallerState
  BY DEF CallerState
<1>4. [op |-> "end", at |-> "join", name |-> None] \in CallerState
  BY DEF CallerState
<1>5. QED
  BY <1>2, <1>3, <1>4

LEMMA CallsKeepTypes ==
  ASSUME TypeOK, Calls
  PROVE  TypeOK'
<1>1. ASSUME NEW n \in Names, filewriter_write(n)
      PROVE  TypeOK'
  <2>1. Len(dest) + 1 \in Write
    <3>1. dest \in Seq(Names) /\ Len(dest) < MaxWrites
      BY <1>1 DEF filewriter_write, TypeOK
    <3>2. Len(dest) \in Nat
      BY <3>1, LenProperties
    <3>3. QED
      BY <3>1, <3>2, FileWriterAssumption DEF Write
  <2>2. [cmd |-> "write", name |-> n, write |-> Len(dest) + 1] \in Command
    BY <2>1 DEF Command
  <2>3. input_queue' \in Seq(Command)
    BY <1>1, <2>2, SubmitTyped DEF filewriter_write
  <2>4. dest' \in Seq(Names) /\ Len(dest') <= MaxWrites
    BY <1>1, <2>1, AppendProperties DEF filewriter_write, TypeOK, Write
  <2>5. pending' \in [Names -> Nat]
    BY <1>1 DEF filewriter_write, TypeOK
  <2>6. QED
    BY <1>1, <2>3, <2>4, <2>5 DEF filewriter_write, TypeOK, callRest, fileVars
<1>2. ASSUME NEW n \in Names, filewriter_open_as_new(n)
      PROVE  TypeOK'
  <2>1. [cmd |-> "open_as_new", name |-> n, write |-> 0] \in Command
    BY DEF Command, Named
  <2>2. input_queue' \in Seq(Command)
    BY <1>2, <2>1, SubmitTyped DEF filewriter_open_as_new
  <2>3. bounds' \in [calls : 0..MaxCalls, interrupts : 0..MaxInterrupts]
    BY <1>2, SpendTyped DEF filewriter_open_as_new
  <2>4. QED
    BY <1>2, <2>2, <2>3 DEF filewriter_open_as_new, TypeOK, callRest, fileVars
<1>3. ASSUME NEW n \in Names, filewriter_close(n)
      PROVE  TypeOK'
  <2>1. [cmd |-> "close_if_open", name |-> n, write |-> 0] \in Command
    BY DEF Command, Named
  <2>2. input_queue' \in Seq(Command)
    BY <1>3, <2>1, SubmitTyped DEF filewriter_close
  <2>3. bounds' \in [calls : 0..MaxCalls, interrupts : 0..MaxInterrupts]
    BY <1>3, SpendTyped DEF filewriter_close
  <2>4. QED
    BY <1>3, <2>2, <2>3 DEF filewriter_close, Waits, TypeOK, CallerState, callRest, fileVars
<1>4. ASSUME filewriter_close_all_after_write
      PROVE  TypeOK'
  <2>1. [cmd |-> "close_all_after_write", name |-> None, write |-> 0] \in Command
    BY DEF Command, Global
  <2>2. input_queue' \in Seq(Command)
    BY <1>4, <2>1, SubmitTyped DEF filewriter_close_all_after_write
  <2>3. bounds' \in [calls : 0..MaxCalls, interrupts : 0..MaxInterrupts]
    BY <1>4, SpendTyped DEF filewriter_close_all_after_write
  <2>4. QED
    BY <1>4, <2>2, <2>3
    DEF filewriter_close_all_after_write, Waits, TypeOK, CallerState, callRest, fileVars
<1>5. ASSUME filewriter_end
      PROVE  TypeOK'
  <2>1. [cmd |-> "shutdown", name |-> None, write |-> 0] \in Command
    BY DEF Command, Global
  <2>2. input_queue' \in Seq(Command)
    BY <1>5, <2>1, SubmitTyped DEF filewriter_end, TypeOK
  <2>3. \/ Waits("ended", "idle", None) /\ answer' = "ended"
        \/ Waits("end", "join", None) /\ answer' = "none"
    BY <1>5 DEF filewriter_end
  <2>4. caller' \in CallerState
    BY <2>3, CallerMoves DEF Waits
  <2>5. QED
    BY <1>5, <2>2, <2>3, <2>4 DEF filewriter_end, TypeOK, callRest, fileVars
<1>6. QED
  BY <1>1, <1>2, <1>3, <1>4, <1>5 DEF Calls

(* What an abandonment, or the interrupt of one, makes of its error. *)
LEMMA AbandonTyped ==
  ASSUME TypeOK
  PROVE  /\ Running \in CallInProgress
         /\ NotesCall => TypeOutput' /\ caller' \in CallerState
         /\ Abandon \/ Interrupt => TypeOutput' /\ abandoned' \in BOOLEAN /\ caller' \in CallerState
<1>1. TypeOutput /\ caller \in CallerState /\ worker \in WorkerRecord /\ current_op \in Operation
  BY DEF TypeOK, TypeOutput, WorkerState
<1>2. Running \in CallInProgress
  <2>1. CASE worker.io = "reserved"
    BY <1>1, <2>1 DEF Running, CallInProgress, WorkerRecord, Stage
  <2>2. CASE worker.io # "reserved"
    BY <2>2 DEF Running, NoCall, CallInProgress
  <2>3. QED
    BY <2>1, <2>2
<1>3. NotesCall => TypeOutput' /\ caller' \in CallerState
  BY <1>1, CallerMoves DEF NotesCall, TypeOutput
<1>4. Abandon => TypeOutput' /\ abandoned' \in BOOLEAN /\ caller' \in CallerState
  <2>1. NoOp \in Operation
    BY DEF Operation, NoOp
  <2>2. Abandon => TypeOutput'
    BY <1>1, <1>2, <2>1 DEF Abandon, TypeOutput
  <2>3. Abandon => abandoned' \in BOOLEAN /\ caller' \in CallerState
    BY <1>1, CallerMoves DEF Abandon, Waits
  <2>4. QED
    BY <2>2, <2>3
<1>5. Interrupt => TypeOutput' /\ abandoned' \in BOOLEAN /\ caller' \in CallerState
  BY <1>1, <1>2, CallerMoves DEF Interrupt, Returns, Waits, TypeOutput, TypeOK
<1>6. QED
  BY <1>2, <1>3, <1>4, <1>5

LEMMA WaitingKeepsTypes ==
  ASSUME TypeOK, Waiting \/ Interrupt
  PROVE  TypeOK'
<1>1. ASSUME return_msg_queue # <<>>, return_msg_queue' = Tail(return_msg_queue)
      PROVE  return_msg_queue' \in Seq(Reply) /\ Received \in Reply
  BY <1>1, HeadTail DEF TypeOK, Received
<1>2. CASE Ask
  <2>1. caller' \in CallerState
    BY <1>2, CallerMoves DEF Ask
  <2>2. /\ [cmd |-> "closed_status", name |-> None, write |-> 0] \in Command
        /\ [cmd |-> "open_failures", name |-> None, write |-> 0] \in Command
        /\ \A n \in Names : [cmd |-> "status", name |-> n, write |-> 0] \in Command
    BY DEF Command, Global, Named
  <2>3. caller.op = "close" => caller.name \in Names
    BY DEF TypeOK, CallerState
  <2>4. input_queue' \in Seq(Command)
    BY <1>2, <2>2, <2>3, SubmitTyped DEF Ask
  <2>5. QED
    BY <1>2, <2>1, <2>4 DEF Ask, TypeOK, callRest, fileVars
<1>3. CASE TakeStatus
  <2>1. return_msg_queue' \in Seq(Reply)
    BY <1>1, <1>3 DEF TakeStatus
  <2>2. CASE NotesCall
    BY <1>3, <2>1, <2>2, AbandonTyped DEF TakeStatus, NotesCall, TypeOutput, TypeOK, callRest, fileVars
  <2>3. CASE UNCHANGED <<abandoned, output_error>>
    <3>1. CASE caller' = [caller EXCEPT !.at = "ask"] /\ UNCHANGED answer
      BY <1>3, <2>1, <2>3, <3>1, CallerMoves DEF TakeStatus, TypeOK, callRest, fileVars
    <3>2. CASE caller' = [caller EXCEPT !.at = "collect"] /\ UNCHANGED answer
      BY <1>3, <2>1, <2>3, <3>2, CallerMoves DEF TakeStatus, TypeOK, callRest, fileVars
    <3>3. CASE Returns("released")
      BY <1>3, <2>1, <2>3, <3>3, CallerMoves
      DEF TakeStatus, Returns, Waits, TypeOK, callRest, fileVars
    <3>4. CASE NotesCall
      BY <2>2, <3>4
    <3>5. QED
      BY <1>3, <3>1, <3>2, <3>3, <3>4 DEF TakeStatus
  <2>4. QED
    BY <1>3, <2>2, <2>3 DEF TakeStatus
<1>4. CASE TakeFailures
  <2>1. return_msg_queue' \in Seq(Reply)
    BY <1>1, <1>4 DEF TakeFailures
  <2>2. LostWrites \subseteq Write
    <3>1. dest \in Seq(Names) /\ Len(dest) <= MaxWrites
      BY DEF TypeOK
    <3>2. DOMAIN dest = 1 .. Len(dest) /\ Len(dest) \in Nat
      BY <3>1, LenProperties
    <3>3. DOMAIN dest \subseteq Write
      BY <3>1, <3>2, FileWriterAssumption DEF Write
    <3>4. QED
      BY <3>3 DEF LostWrites
  <2>3. told' \subseteq Write
    BY <1>4, <2>2 DEF TakeFailures, TypeOK
  <2>4. caller' \in CallerState /\ answer' \in {"type_error", "saved", "losses"}
    BY <1>4, CallerMoves DEF TakeFailures, Returns, Waits
  <2>5. QED
    BY <1>4, <2>1, <2>3, <2>4 DEF TakeFailures, TypeOK, callRest, fileVars
<1>5. CASE TimesOut
  <2>1. NotesCall
    BY <1>5 DEF TimesOut
  <2>2. QED
    BY <1>5, <2>1, AbandonTyped DEF TimesOut, NotesCall, TypeOutput, TypeOK, callRest, fileVars
<1>6. CASE Joined
  BY <1>6, CallerMoves DEF Joined, Waits, TypeOK, callRest, fileVars
<1>7. CASE Interrupt
  <2>1. bounds' \in [calls : 0..MaxCalls, interrupts : 0..MaxInterrupts]
    BY <1>7, SpendTyped
  <2>2. QED
    BY <1>7, <2>1, AbandonTyped DEF Interrupt, Returns, Waits, TypeOutput, TypeOK, callRest, fileVars
<1>8. CASE Abandon
  BY <1>8, AbandonTyped DEF Abandon, TypeOutput, TypeOK, callRest, fileVars
<1>9. QED
  BY <1>2, <1>3, <1>4, <1>5, <1>6, <1>7, <1>8 DEF Waiting

----------------------------------------------------------------------------
(* The types of a run. *)

LEMMA InitTyped ==
  ASSUME Init
  PROVE  TypeOK
<1>1. Absent \in Control
  BY DEF Absent, Control, OutputFileType, Status, Clock
<1>2. worker \in WorkerState
  <2>1. Retry \in Command
    BY DEF Retry, Command
  <2>2. worker \in WorkerRecord
    BY <2>1 DEF Init, WorkerRecord, Stage
  <2>3. QED
    BY <2>2 DEF Init, WorkerState, IoStage
<1>3. caller \in CallerState
  BY DEF Init, CallerState
<1>4. <<0>> \in Seq({0} \cup Write) /\ Len(<<>>) = 0
  OBVIOUS
<1>5. bounds \in [calls : 0..MaxCalls, interrupts : 0..MaxInterrupts]
  BY FileWriterAssumption DEF Init
<1>6. files \in [Files -> Control] /\ disk \in [Files -> Seq({0} \cup Write)]
  BY <1>1, <1>4 DEF Init
<1>7. TypeOutput /\ current_op \in Operation /\ pending \in [Names -> Nat]
  BY DEF Init, TypeOutput, CallInProgress, NoCall, Operation, NoOp
<1>8. Len(dest) <= MaxWrites /\ dest \in Seq(Names)
  BY <1>4, FileWriterAssumption DEF Init
<1>9. /\ input_queue \in Seq(Command) /\ return_msg_queue \in Seq(Reply)
      /\ errors \in SUBSET Lost /\ stored \subseteq Write /\ told \subseteq Write
      /\ abandoned \in BOOLEAN /\ answer = "none"
  <2>1. input_queue = <<>> /\ return_msg_queue = <<>>
    BY DEF Init
  <2>2. errors = {} /\ stored = {} /\ told = {} /\ abandoned = FALSE /\ answer = "none"
    BY DEF Init
  <2>3. input_queue \in Seq(Command) /\ return_msg_queue \in Seq(Reply)
    BY <2>1
  <2>4. QED
    BY <2>2, <2>3
<1>10. QED
  BY <1>2, <1>3, <1>5, <1>6, <1>7, <1>8, <1>9 DEF TypeOK, TypeOutput, Control

LEMMA NextTyped ==
  ASSUME TypeOK, [Next]_vars
  PROVE  TypeOK'
<1>1. CASE Worker
  BY <1>1, TakeKeepsTypes, ResolvedKeepsTypes, IoKeepsTypes, LoopKeepsTypes DEF Worker
<1>2. CASE Calls
  BY <1>2, CallsKeepTypes
<1>3. CASE Waiting \/ Interrupt
  BY <1>3, WaitingKeepsTypes
<1>4. CASE ClockExpires
  BY <1>4, ClockKeepsTypes
<1>5. CASE UNCHANGED vars
  BY <1>5 DEF vars, fileVars, callVars, TypeOK
<1>6. QED
  BY <1>1, <1>2, <1>3, <1>4, <1>5 DEF Next, Over

(* Every state of a run has its types: in a call of the operating system the
   worker has a file, and in a write its text, whatever it was asked, whatever
   failed and whenever it was abandoned. *)
THEOREM WriterTyped == Spec => []TypeOK
<1>1. Init => TypeOK
  BY InitTyped
<1>2. TypeOK /\ [Next]_vars => TypeOK'
  BY NextTyped
<1>3. QED
  BY <1>1, <1>2, PTL DEF Spec

----------------------------------------------------------------------------
(* What an abandoned writer may still do. *)

(* Once the writer is abandoned its worker is in no call but the one it was in by
   then, and its caller waits for nothing. *)
RunningInv ==
  abandoned => /\ worker.io = "reserved" => Running = output_error.running
               /\ caller.at = "idle"

(* Wherever the worker goes, it is in no call yet. *)
LEMMA MovesAreIdle ==
  ASSUME worker \in WorkerRecord
  PROVE  /\ \A stage, n, w : At(stage, n, w).io = "idle"
         /\ \A stage, n, w, c : [At(stage, n, w) EXCEPT !.command = c].io = "idle"
         /\ \A c, L : [At("visit", None, 0) EXCEPT !.command = c, !.left = L].io = "idle"
         /\ [At("ended", None, 0) EXCEPT !.active = FALSE].io = "idle"
         /\ Done.io = "idle"
         /\ \A c : [Done EXCEPT !.command = c].io = "idle"
         /\ \A f : Onward(f).io = "idle"
         /\ \A L : Visiting(L).io = "idle" /\ [Visiting(L) EXCEPT !.active = FALSE].io = "idle"
<1>1. \A stage, n, w : At(stage, n, w).io = "idle"
  BY DEF At, WorkerRecord, Stage
<1>2. \A c, L : [At("visit", None, 0) EXCEPT !.command = c, !.left = L].io = "idle"
  BY DEF At, WorkerRecord, Stage
<1>3. \A stage, n, w, c : [At(stage, n, w) EXCEPT !.command = c].io = "idle"
  BY DEF At, WorkerRecord, Stage
<1>4. [At("ended", None, 0) EXCEPT !.active = FALSE].io = "idle"
  BY DEF At, WorkerRecord, Stage
<1>5. Done.io = "idle" /\ \A c : [Done EXCEPT !.command = c].io = "idle"
  BY DEF Done, At, WorkerRecord, Stage
<1>6. \A f : Onward(f).io = "idle"
  <2> TAKE f
  <2>1. [Done EXCEPT !.at = "loop"].io = "idle"
    BY DEF Done, At, WorkerRecord, Stage
  <2>2. [At("visit", None, 0) EXCEPT !.left = @ \ {f}].io = "idle"
    BY DEF At, WorkerRecord, Stage
  <2>3. QED
    BY <1>5, <2>1, <2>2 DEF Onward
<1>7. \A L : Visiting(L).io = "idle" /\ [Visiting(L) EXCEPT !.active = FALSE].io = "idle"
  <2> TAKE L
  <2>1. /\ [Done EXCEPT !.command = Head(input_queue), !.left = L].io = "idle"
        /\ [[Done EXCEPT !.command = Head(input_queue), !.left = L]
              EXCEPT !.active = FALSE].io = "idle"
    BY DEF Done, At, WorkerRecord, Stage
  <2>2. [[At("visit", None, 0) EXCEPT !.command = Head(input_queue), !.left = L]
           EXCEPT !.active = FALSE].io = "idle"
    BY DEF At, WorkerRecord, Stage
  <2>3. QED
    BY <1>2, <2>1, <2>2 DEF Visiting
<1>8. QED
  BY <1>1, <1>2, <1>3, <1>4, <1>5, <1>6, <1>7

(* A step of the worker that neither publishes nor reserves a call leaves it in
   none. *)
LEMMA OtherStepsAreIdle ==
  ASSUME TypeOK, Worker, ~Publish, ~Reserve
  PROVE  worker'.io = "idle"
<1>1. worker \in WorkerRecord
  BY DEF TypeOK, WorkerState
<1>2. \A f, fc : Drain(f, fc) => worker'.io = "idle"
  BY <1>1, MovesAreIdle DEF Drain
<1>3. /\ \A f, fc, p : try_open(f, fc, p) => worker'.io = "idle"
      /\ \A f, fc : close(f, fc) => worker'.io = "idle"
      /\ \A f, st : FileFails(f, st) => worker'.io = "idle"
  BY <1>1, <1>2, MovesAreIdle DEF try_open, close, FileFails
<1>4. CASE TakeNamed \/ close_all_after_write \/ shutdown \/ closed_status \/ open_failures
  <2>1. CASE TakeNamed
    BY <1>1, <2>1, MovesAreIdle DEF TakeNamed
  <2>2. CASE close_all_after_write
    BY <1>1, <2>2, MovesAreIdle DEF close_all_after_write
  <2>3. CASE shutdown
    BY <1>1, <2>3, MovesAreIdle DEF shutdown
  <2>4. CASE closed_status
    BY <1>1, <2>4, MovesAreIdle DEF closed_status
  <2>5. CASE open_failures
    BY <1>1, <2>5, MovesAreIdle DEF open_failures
  <2>6. QED
    BY <1>4, <2>1, <2>2, <2>3, <2>4, <2>5
<1>5. CASE ResolveRaises \/ write \/ close_if_open \/ open_as_new \/ status
  BY <1>1, <1>3, <1>5, MovesAreIdle DEF ResolveRaises, write, close_if_open, open_as_new, status
<1>6. CASE OpenSucceeds \/ OpenLocked \/ NeverOpens \/ WriteSucceeds \/ FlushSucceeds
  BY <1>1, <1>2, <1>3, <1>6, MovesAreIdle
  DEF OpenSucceeds, OpenLocked, NeverOpens, WriteSucceeds, FlushSucceeds
<1>7. CASE WriteFails \/ CloseSucceeds \/ CloseFails
  BY <1>1, <1>3, <1>7, MovesAreIdle DEF WriteFails, CloseSucceeds, CloseFails
<1>8. CASE Stop \/ Visit
  BY <1>1, <1>3, <1>8, MovesAreIdle DEF Stop, Visit
<1>9. CASE GetTimesOut \/ CheckTimer \/ retry_waiting \/ WorkerEnds
  <2>1. CASE GetTimesOut
    BY <1>1, <2>1, MovesAreIdle DEF GetTimesOut
  <2>2. CASE CheckTimer
    BY <1>1, <2>2, MovesAreIdle DEF CheckTimer
  <2>3. CASE WorkerEnds
    BY <1>1, <2>3, MovesAreIdle DEF WorkerEnds
  <2>4. CASE retry_waiting
    BY <1>1, <2>4, MovesAreIdle DEF retry_waiting, Retries
  <2>5. QED
    BY <1>9, <2>1, <2>2, <2>3, <2>4
<1>10. QED
  BY <1>4, <1>5, <1>6, <1>7, <1>8, <1>9 DEF Worker

(* The worker neither abandons itself nor moves its caller. *)
LEMMA WorkerKeepsCaller ==
  ASSUME Worker
  PROVE  UNCHANGED <<abandoned, output_error, caller>>
<1>1. CASE TakeNamed \/ close_all_after_write \/ shutdown \/ closed_status \/ open_failures
  BY <1>1
  DEF TakeNamed, close_all_after_write, shutdown, closed_status, open_failures, callVars
<1>2. CASE GetTimesOut \/ CheckTimer \/ retry_waiting \/ WorkerEnds
  BY <1>2 DEF GetTimesOut, CheckTimer, retry_waiting, Retries, WorkerEnds, loopRest, callVars
<1>3. CASE Publish \/ Reserve \/ Stop \/ Visit
  BY <1>3 DEF Publish, Reserve, Stop, Visit, ioRest, callVars
<1>4. CASE ResolveRaises \/ write \/ close_if_open \/ open_as_new \/ status
  BY <1>4 DEF ResolveRaises, write, close_if_open, open_as_new, status, ioRest, callVars
<1>5. CASE OpenSucceeds \/ OpenLocked \/ NeverOpens \/ WriteSucceeds \/ FlushSucceeds
  BY <1>5 DEF OpenSucceeds, OpenLocked, NeverOpens, WriteSucceeds, FlushSucceeds, ioRest, callVars
<1>6. CASE WriteFails \/ CloseSucceeds \/ CloseFails
  BY <1>6 DEF WriteFails, CloseSucceeds, CloseFails, ioRest, callVars
<1>7. QED
  BY <1>1, <1>2, <1>3, <1>4, <1>5, <1>6 DEF Worker

LEMMA RunningStep ==
  ASSUME TypeOK, RunningInv, [Next]_vars
  PROVE  RunningInv'
<1>1. worker \in WorkerRecord
  BY DEF TypeOK, WorkerState
<1>2. CASE Publish
  <2>1. worker'.io = "published" /\ UNCHANGED <<abandoned, caller>>
    BY <1>1, <1>2 DEF Publish, WorkerRecord, Stage, ioRest, callVars
  <2>2. QED
    BY <2>1 DEF RunningInv
<1>3. CASE Reserve
  BY <1>3 DEF Reserve, RunningInv, ioRest, callVars
<1>4. CASE Worker /\ ~Publish /\ ~Reserve
  <2>1. worker'.io = "idle" /\ UNCHANGED <<abandoned, caller>>
    BY <1>4, OtherStepsAreIdle, WorkerKeepsCaller
  <2>2. QED
    BY <2>1 DEF RunningInv
<1>5. CASE UNCHANGED worker /\ caller'.at = "idle" /\ output_error'.running = Running
  BY <1>5 DEF RunningInv, Running
<1>6. CASE UNCHANGED <<abandoned, worker>> /\ (abandoned => UNCHANGED <<output_error, caller>>)
  BY <1>6 DEF RunningInv, Running
<1>7. CASE Calls
  <2>1. CASE filewriter_end
    BY <2>1 DEF filewriter_end, Waits, callRest, RunningInv, Running
  <2>2. CASE ~filewriter_end
    BY <1>6, <1>7, <2>2
    DEF Calls, Active, filewriter_write, filewriter_open_as_new, filewriter_close,
        filewriter_close_all_after_write, callRest
  <2>3. QED
    BY <2>1, <2>2
<1>8. CASE Ask \/ TakeStatus \/ TakeFailures \/ TimesOut \/ Joined
  <2>1. ~abandoned /\ UNCHANGED <<abandoned, worker>>
    BY <1>8 DEF RunningInv, Ask, TakeStatus, TakeFailures, TimesOut, Joined, NotesCall, callRest
  <2>2. QED
    BY <1>6, <2>1
<1>9. CASE Abandon
  <2>1. caller'.at = "idle" /\ output_error'.running = Running /\ UNCHANGED worker
    BY <1>9 DEF Abandon, Waits, callRest, TypeOK
  <2>2. QED
    BY <1>5, <2>1
<1>10. CASE Interrupt
  <2>1. caller'.at = "idle" /\ UNCHANGED worker
    BY <1>10 DEF Interrupt, Returns, Waits, callRest
  <2>2. CASE UNCHANGED <<abandoned, output_error>>
    BY <2>1, <2>2 DEF RunningInv, Running
  <2>3. CASE output_error' = [output_error EXCEPT !.running = Running]
    <3>1. output_error'.running = Running
      BY <2>3 DEF TypeOK
    <3>2. QED
      BY <1>5, <2>1, <3>1
  <2>4. QED
    BY <1>10, <2>2, <2>3 DEF Interrupt
<1>11. CASE ClockExpires
  BY <1>6, <1>11 DEF ClockExpires, loopRest, callVars
<1>12. CASE UNCHANGED vars
  BY <1>6, <1>12 DEF vars, callVars
<1>13. QED
  BY <1>2, <1>3, <1>4, <1>7, <1>8, <1>9, <1>10, <1>11, <1>12 DEF Next, Waiting, Over

(* A step that changes a file is the end of a call that was reserved. *)
LEMMA DiskChanges ==
  ASSUME [Next]_vars, disk' # disk
  PROVE  worker.io = "reserved" /\ worker.at \in {"open", "write", "flush"}
<1>1. CASE OpenSucceeds \/ FlushSucceeds \/ WriteFails
  BY <1>1 DEF OpenSucceeds, FlushSucceeds, WriteFails, Ended
<1>2. CASE Calls
  BY <1>2
  DEF Calls, filewriter_write, filewriter_open_as_new, filewriter_close,
      filewriter_close_all_after_write, filewriter_end, callRest, fileVars
<1>3. CASE Waiting \/ Interrupt
  BY <1>3 DEF Waiting, Ask, TakeStatus, TakeFailures, TimesOut, Abandon, Joined, Interrupt,
     callRest, fileVars
<1>4. CASE ClockExpires \/ GetTimesOut \/ CheckTimer \/ retry_waiting \/ WorkerEnds
  BY <1>4 DEF ClockExpires, GetTimesOut, CheckTimer, retry_waiting, Retries, WorkerEnds, loopRest
<1>5. CASE TakeNamed \/ close_all_after_write \/ shutdown \/ closed_status \/ open_failures
  BY <1>5
  DEF TakeNamed, close_all_after_write, shutdown, closed_status, open_failures, fileVars
<1>6. CASE Publish \/ Reserve \/ Stop \/ Visit \/ WriteSucceeds \/ status
  BY <1>6 DEF Publish, Reserve, Stop, Visit, WriteSucceeds, status, fileVars
<1>7. CASE \/ ResolveRaises \/ write \/ close_if_open \/ open_as_new
           \/ OpenLocked \/ NeverOpens \/ CloseSucceeds \/ CloseFails
  BY <1>7 DEF ResolveRaises, write, close_if_open, open_as_new, OpenLocked, NeverOpens,
     CloseSucceeds, CloseFails
<1>8. CASE UNCHANGED vars
  BY <1>8 DEF vars, fileVars
<1>9. QED
  BY <1>1, <1>2, <1>3, <1>4, <1>5, <1>6, <1>7, <1>8 DEF Next, Over, Worker

=============================================================================
