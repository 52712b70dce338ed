--------------------------- MODULE SigtermProofs ---------------------------
(***************************************************************************)
(* Proofs about Sigterm: no command outlives a run that SIGTERM has ended, *)
(* and none starts once a handler has had the lock.                        *)
(***************************************************************************)
EXTENDS Sigterm, SequenceTheorems, FiniteSetTheorems, TLAPS

Frame == [at : {"wait", "kill", "end"}, listed : BOOLEAN]
ScriptState ==
  [at : Point \cup {"ended"}, cmd : Commands \cup {0}, started : BOOLEAN,
   exc : {"none", "error", "interrupt", "exit"}]

Shape ==
  /\ script_thread \in Thread
  /\ held \in {0, 1} /\ pending \in BOOLEAN /\ terminated \in BOOLEAN /\ gave_up \in BOOLEAN
  /\ process \in [Commands -> {"none", "running", "ended"}]
  /\ script \in ScriptState
  /\ handlers \in Seq(Frame)

HeldPoint == {"lock", "unhold"} \cup Starting \cup Ending

(* A SIGTERM is held back exactly in the two blocks, and no handler is on the stack
   of a thread that is in one. *)
HeldExactly ==
  /\ held = IF script_thread = "main" /\ script.at \in HeldPoint THEN 1 ELSE 0
  /\ held = 1 => handlers = <<>>

(* The lock is whose it is said to be. *)
LockKept ==
  /\ script.at \in Starting => starting.owner = script_thread
  /\ \A i \in DOMAIN handlers : handlers[i].listed => starting.owner = "main"

(* A command that runs is on the list, or about to be; one that leaves it has been
   killed. *)
RunningIsListed ==
  /\ \A p \in Commands \ Foreign :
       process[p] = "running" =>
         p \in commands \/ (script.cmd = p /\ script.at \in {"forked", "append"})
  /\ script.at = "unlist" /\ script.cmd \in Commands \ Foreign => process[script.cmd] # "running"

(* A handler that has not given up holds the lock from its kill on. *)
KillsUnderLock ==
  ~gave_up => \A i \in DOMAIN handlers : handlers[i].at # "wait" => handlers[i].listed

(* A handler has killed what ran. *)
HasKilled ==
  /\ terminated /\ ~gave_up
  /\ handlers = <<>> \/ run = "exiting" \/ \E i \in DOMAIN handlers : handlers[i].at = "end"

(* From then on nothing runs, and nothing is about to. *)
AllDead ==
  HasKilled =>
    /\ script.at \notin {"fork", "forked", "append"}
    /\ \A p \in Commands \ Foreign : process[p] # "running"

Ends ==
  /\ run = "over" => handlers = <<>>
  /\ run = "exiting" => terminated
  /\ handlers # <<>> => terminated

SigtermInv ==
  /\ Shape /\ HeldExactly /\ LockKept /\ RunningIsListed /\ KillsUnderLock /\ AllDead /\ Ends

----------------------------------------------------------------------------
(* What the operators do. *)

Points == Point \cup {"ended"}

(* Where an exception leaves the script: in a block it held a SIGTERM in, or not. *)
LEMMA RaisedTyped ==
  ASSUME script \in ScriptState, NEW exc \in {"error", "interrupt", "exit"}
  PROVE  /\ Raised(exc) \in ScriptState
         /\ Raised(exc).at \in {"idle", "ended", "finally", "release", "unhold", "resume"}
         /\ Raised(exc).at \in HeldPoint <=> script.at \in HeldPoint \ {"unhold"}
         /\ Raised(exc).at \in Starting <=> script.at \in Starting
<1>1. script.at \in Points
  BY DEF ScriptState, Points
<1>2. Left(exc) \in ScriptState /\ Left(exc).at \in {"idle", "ended"}
  BY DEF Left, Idle, ScriptState, Point
<1>3. CASE script.at \in {"idle", "finally", "last", "ended"}
  BY <1>2, <1>3 DEF Raised, HeldPoint, Starting, Ending
<1>4. CASE script.at = "lock"
  BY <1>4 DEF Raised, ScriptState, Point, HeldPoint, Starting, Ending
<1>5. CASE script.at \in Starting
  BY <1>5 DEF Raised, ScriptState, Point, HeldPoint, Starting, Ending
<1>6. CASE script.at \in {"unhold", "started", "body"}
  BY <1>6 DEF Raised, ScriptState, Point, HeldPoint, Starting, Ending
<1>7. CASE script.at \in Ending
  BY <1>7 DEF Raised, ScriptState, Point, HeldPoint, Starting, Ending
<1>8. QED
  BY <1>1, <1>3, <1>4, <1>5, <1>6, <1>7 DEF Points, Point

(* A handler is entered. *)
LEMMA EnteredFrames ==
  ASSUME handlers \in Seq(Frame), Entered(handlers)
  PROVE  /\ handlers' \in Seq(Frame) /\ handlers' # <<>>
         /\ \A i \in DOMAIN handlers' :
              \/ i \in DOMAIN handlers /\ handlers'[i] = handlers[i]
              \/ handlers'[i] = [at |-> "wait", listed |-> FALSE]
         /\ pending' = FALSE /\ terminated' = TRUE
<1> DEFINE h == [at |-> "wait", listed |-> FALSE]
<1>1. handlers' = Append(handlers, h) /\ h \in Frame
  BY DEF Entered, Frame
<1>2. /\ handlers' \in Seq(Frame) /\ Len(handlers') = Len(handlers) + 1
      /\ \A i \in 1..Len(handlers) : handlers'[i] = handlers[i]
      /\ handlers'[Len(handlers) + 1] = h
  BY <1>1, AppendProperties
<1>3. DOMAIN handlers' = 1..(Len(handlers) + 1) /\ DOMAIN handlers = 1..Len(handlers)
      /\ Len(handlers) \in Nat
  BY <1>2, LenProperties
<1>4. QED
  BY <1>2, <1>3 DEF Entered

(* The innermost handler goes on. *)
LEMMA OnwardFrames ==
  ASSUME handlers \in Seq(Frame), handlers # <<>>,
         NEW at \in {"wait", "kill", "end"}, NEW listed \in BOOLEAN, Onward(at, listed)
  PROVE  /\ handlers' \in Seq(Frame) /\ handlers' # <<>> /\ DOMAIN handlers' = DOMAIN handlers
         /\ Len(handlers) \in DOMAIN handlers
         /\ handlers'[Len(handlers)] = [at |-> at, listed |-> listed]
         /\ \A i \in DOMAIN handlers : i # Len(handlers) => handlers'[i] = handlers[i]
<1>1. Len(handlers) \in Nat /\ Len(handlers) > 0 /\ DOMAIN handlers = 1..Len(handlers)
  BY EmptySeq, LenProperties
<1>2. [at |-> at, listed |-> listed] \in Frame
  BY DEF Frame
<1>3. QED
  BY <1>1, <1>2 DEF Onward

----------------------------------------------------------------------------
(* Every step keeps the invariant. *)

(* A step of the script that touches no handler. *)
LEMMA ScriptKeepsInv ==
  ASSUME SigtermInv,
         \/ Start \/ Lock \/ CheckStart \/ Fork \/ PopenReturns \/ List \/ Release \/ CheckStarted
         \/ Finish \/ Finally \/ Kill \/ Unlist \/ Leave \/ Interrupt
  PROVE  SigtermInv'
<1> USE SigtermAssumption DEF SigtermInv
<1>1. /\ UNCHANGED <<script_thread, pending, terminated, handlers, gave_up, run>>
      /\ script_thread = "main" => handlers = <<>>
  BY DEF Start, Lock, CheckStart, Fork, PopenReturns, List, Release, CheckStarted,
     Finish, Finally, Kill, Unlist, Leave, Interrupt, threadRest, signalVars, At
<1>2. KillsUnderLock' /\ Ends'
  BY <1>1 DEF KillsUnderLock, Ends
<1>3. HasKilled' <=> HasKilled
  BY <1>1 DEF HasKilled
<1>4. script \in ScriptState /\ script.at \in Points
      /\ \A exc \in {"error", "interrupt", "exit"} :
           /\ Raised(exc) \in ScriptState
           /\ Raised(exc).at \in {"idle", "ended", "finally", "release", "unhold", "resume"}
           /\ Raised(exc).at \in HeldPoint <=> script.at \in HeldPoint \ {"unhold"}
           /\ Raised(exc).at \in Starting <=> script.at \in Starting
  BY RaisedTyped DEF Shape, ScriptState, Points
<1>5. CASE Start
  <2>1. PICK p \in Commands : script' = [Idle EXCEPT !.at = "lock", !.cmd = p]
    BY <1>5 DEF Start
  <2>2. /\ script' \in ScriptState /\ script'.at = "lock" /\ script.at = "idle"
        /\ held' = IF script_thread = "main" THEN held + 1 ELSE held
        /\ UNCHANGED <<process, commands, starting>>
    BY <1>5, <2>1 DEF Start, Idle, Holds, At, ScriptState, Point
  <2>3. held = 0 /\ held' = IF script_thread = "main" THEN 1 ELSE 0
    BY <2>2 DEF HeldExactly, HeldPoint, Starting, Ending
  <2>4. Shape'
    BY <1>1, <2>2, <2>3 DEF Shape
  <2>5. HeldExactly'
    BY <1>1, <2>2, <2>3 DEF HeldExactly, HeldPoint
  <2>6. LockKept' /\ RunningIsListed' /\ AllDead'
    BY <1>1, <1>3, <2>2 DEF LockKept, RunningIsListed, AllDead, Starting
  <2>7. QED
    BY <1>2, <2>4, <2>5, <2>6
<1>6. CASE Lock
  <2>1. Shape'
    BY <1>1, <1>4, <1>6 DEF Lock, Locked, Goes, At, Shape, ScriptState, Point, Starting, Ending
  <2>2. HeldExactly'
    BY <1>1, <1>4, <1>6 DEF Lock, Locked, Goes, At, HeldExactly, Shape, Thread, ScriptState, HeldPoint, Starting,
       Ending, threadRest
  <2>3. LockKept'
    BY <1>1, <1>4, <1>6 DEF Lock, Locked, Goes, At, LockKept, Shape, Thread, ScriptState, Starting
  <2>4. RunningIsListed'
    BY <1>1, <1>4, <1>6 DEF Lock, Locked, Goes, At, RunningIsListed, Shape, ScriptState
  <2>5. AllDead'
    BY <1>1, <1>3, <1>4, <1>6 DEF Lock, Locked, Goes, At, AllDead, HasKilled, Shape, ScriptState
  <2>6. QED
    BY <1>2, <2>1, <2>2, <2>3, <2>4, <2>5
<1>7. CASE CheckStart
  <2>1. Shape'
    BY <1>1, <1>4, <1>7 DEF CheckStart, At, Shape, ScriptState, Point, Starting, Ending
  <2>2. HeldExactly'
    BY <1>1, <1>4, <1>7 DEF CheckStart, At, HeldExactly, Shape, Thread, ScriptState, HeldPoint, Starting,
       Ending, threadRest
  <2>3. LockKept'
    BY <1>1, <1>4, <1>7 DEF CheckStart, At, LockKept, Shape, Thread, ScriptState, Starting
  <2>4. RunningIsListed'
    BY <1>1, <1>4, <1>7 DEF CheckStart, At, RunningIsListed, Shape, ScriptState
  <2>5. AllDead'
    BY <1>1, <1>3, <1>4, <1>7 DEF CheckStart, At, AllDead, HasKilled, Shape, ScriptState
  <2>6. QED
    BY <1>2, <2>1, <2>2, <2>3, <2>4, <2>5
<1>8. CASE Fork
  <2>1. Shape'
    BY <1>1, <1>4, <1>8 DEF Fork, Goes, At, Shape, ScriptState, Point, Starting, Ending
  <2>2. HeldExactly'
    BY <1>1, <1>4, <1>8 DEF Fork, Goes, At, HeldExactly, Shape, Thread, ScriptState, HeldPoint, Starting,
       Ending, threadRest
  <2>3. LockKept'
    BY <1>1, <1>4, <1>8 DEF Fork, Goes, At, LockKept, Shape, Thread, ScriptState, Starting
  <2>4. RunningIsListed'
    BY <1>1, <1>4, <1>8 DEF Fork, Goes, At, RunningIsListed, Shape, ScriptState
  <2>5. AllDead'
    BY <1>1, <1>3, <1>4, <1>8 DEF Fork, Goes, At, AllDead, HasKilled, Shape, ScriptState
  <2>6. QED
    BY <1>2, <2>1, <2>2, <2>3, <2>4, <2>5
<1>9. CASE PopenReturns
  <2>1. Shape'
    BY <1>1, <1>4, <1>9 DEF PopenReturns, Goes, At, Shape, ScriptState, Point, Starting, Ending
  <2>2. HeldExactly'
    BY <1>1, <1>4, <1>9 DEF PopenReturns, Goes, At, HeldExactly, Shape, Thread, ScriptState, HeldPoint, Starting,
       Ending, threadRest
  <2>3. LockKept'
    BY <1>1, <1>4, <1>9 DEF PopenReturns, Goes, At, LockKept, Shape, Thread, ScriptState, Starting
  <2>4. RunningIsListed'
    BY <1>1, <1>4, <1>9 DEF PopenReturns, Goes, At, RunningIsListed, Shape, ScriptState
  <2>5. AllDead'
    BY <1>1, <1>3, <1>4, <1>9 DEF PopenReturns, Goes, At, AllDead, HasKilled, Shape, ScriptState
  <2>6. QED
    BY <1>2, <2>1, <2>2, <2>3, <2>4, <2>5
<1>10. CASE List
  <2>1. Shape'
    BY <1>1, <1>4, <1>10 DEF List, Goes, At, Shape, ScriptState, Point, Starting, Ending
  <2>2. HeldExactly'
    BY <1>1, <1>4, <1>10 DEF List, Goes, At, HeldExactly, Shape, Thread, ScriptState, HeldPoint, Starting,
       Ending, threadRest
  <2>3. LockKept'
    BY <1>1, <1>4, <1>10 DEF List, Goes, At, LockKept, Shape, Thread, ScriptState, Starting
  <2>4. RunningIsListed'
    BY <1>1, <1>4, <1>10 DEF List, Goes, At, RunningIsListed, Shape, ScriptState
  <2>5. AllDead'
    BY <1>1, <1>3, <1>4, <1>10 DEF List, Goes, At, AllDead, HasKilled, Shape, ScriptState
  <2>6. QED
    BY <1>2, <2>1, <2>2, <2>3, <2>4, <2>5
<1>11. CASE Release
  <2>1. Shape'
    BY <1>1, <1>4, <1>11 DEF Release, Unlocked, Free, Goes, At, Shape, ScriptState, Point, Starting, Ending
  <2>2. HeldExactly'
    BY <1>1, <1>4, <1>11 DEF Release, Unlocked, Free, Goes, At, HeldExactly, Shape, Thread, ScriptState, HeldPoint, Starting,
       Ending, threadRest
  <2>3. LockKept'
    BY <1>1, <1>4, <1>11 DEF Release, Unlocked, Free, Goes, At, LockKept, Shape, Thread, ScriptState, Starting
  <2>4. RunningIsListed'
    BY <1>1, <1>4, <1>11 DEF Release, Unlocked, Free, Goes, At, RunningIsListed, Shape, ScriptState
  <2>5. AllDead'
    BY <1>1, <1>3, <1>4, <1>11 DEF Release, Unlocked, Free, Goes, At, AllDead, HasKilled, Shape, ScriptState
  <2>6. QED
    BY <1>2, <2>1, <2>2, <2>3, <2>4, <2>5
<1>12. CASE CheckStarted
  <2>1. Shape'
    BY <1>1, <1>4, <1>12 DEF CheckStarted, At, Shape, ScriptState, Point, Starting, Ending
  <2>2. HeldExactly'
    BY <1>1, <1>4, <1>12 DEF CheckStarted, At, HeldExactly, Shape, Thread, ScriptState, HeldPoint, Starting,
       Ending, threadRest
  <2>3. LockKept'
    BY <1>1, <1>4, <1>12 DEF CheckStarted, At, LockKept, Shape, Thread, ScriptState, Starting
  <2>4. RunningIsListed'
    BY <1>1, <1>4, <1>12 DEF CheckStarted, At, RunningIsListed, Shape, ScriptState
  <2>5. AllDead'
    BY <1>1, <1>3, <1>4, <1>12 DEF CheckStarted, At, AllDead, HasKilled, Shape, ScriptState
  <2>6. QED
    BY <1>2, <2>1, <2>2, <2>3, <2>4, <2>5
<1>13. CASE Finish
  <2>1. Shape'
    BY <1>1, <1>4, <1>13 DEF Finish, Goes, At, Shape, ScriptState, Point, Starting, Ending
  <2>2. HeldExactly'
    BY <1>1, <1>4, <1>13 DEF Finish, Goes, At, HeldExactly, Shape, Thread, ScriptState, HeldPoint, Starting,
       Ending, threadRest
  <2>3. LockKept'
    BY <1>1, <1>4, <1>13 DEF Finish, Goes, At, LockKept, Shape, Thread, ScriptState, Starting
  <2>4. RunningIsListed'
    BY <1>1, <1>4, <1>13 DEF Finish, Goes, At, RunningIsListed, Shape, ScriptState
  <2>5. AllDead'
    BY <1>1, <1>3, <1>4, <1>13 DEF Finish, Goes, At, AllDead, HasKilled, Shape, ScriptState
  <2>6. QED
    BY <1>2, <2>1, <2>2, <2>3, <2>4, <2>5
<1>14. CASE Finally
  <2>1. /\ script.at = "finally" /\ held = 0 /\ UNCHANGED <<process, commands, starting>>
        /\ \/ script' = [script EXCEPT !.at = "last"] /\ held' = held
           \/ script' = [script EXCEPT !.at = "kill"]
                /\ held' = IF script_thread = "main" THEN held + 1 ELSE held
    BY <1>14 DEF Finally, Goes, Holds, At, HeldExactly, HeldPoint, Starting, Ending
  <2>2. /\ script' \in ScriptState
        /\ \/ script'.at = "last" /\ held' = 0
           \/ script'.at = "kill" /\ held' = IF script_thread = "main" THEN 1 ELSE 0
    BY <1>4, <2>1 DEF ScriptState, Point, Ending
  <2>3. Shape'
    BY <1>1, <2>1, <2>2 DEF Shape
  <2>4. HeldExactly'
    BY <1>1, <2>2 DEF HeldExactly, HeldPoint, Starting, Ending
  <2>5. LockKept' /\ RunningIsListed' /\ AllDead'
    BY <1>1, <1>3, <2>1, <2>2 DEF LockKept, RunningIsListed, AllDead, Starting
  <2>6. QED
    BY <1>2, <2>3, <2>4, <2>5
<1>15. CASE Kill
  <2>1. Shape'
    BY <1>1, <1>4, <1>15 DEF Kill, Killed, Goes, At, Shape, ScriptState, Point, Starting, Ending
  <2>2. HeldExactly'
    BY <1>1, <1>4, <1>15 DEF Kill, Killed, Goes, At, HeldExactly, Shape, Thread, ScriptState, HeldPoint, Starting,
       Ending, threadRest
  <2>3. LockKept'
    BY <1>1, <1>4, <1>15 DEF Kill, Killed, Goes, At, LockKept, Shape, Thread, ScriptState, Starting
  <2>4. RunningIsListed'
    BY <1>1, <1>4, <1>15 DEF Kill, Killed, Goes, At, RunningIsListed, Shape, ScriptState
  <2>5. AllDead'
    BY <1>1, <1>3, <1>4, <1>15 DEF Kill, Killed, Goes, At, AllDead, HasKilled, Shape, ScriptState
  <2>6. QED
    BY <1>2, <2>1, <2>2, <2>3, <2>4, <2>5
<1>16. CASE Unlist
  <2>1. Shape'
    BY <1>1, <1>4, <1>16 DEF Unlist, Goes, At, Shape, ScriptState, Point, Starting, Ending
  <2>2. HeldExactly'
    BY <1>1, <1>4, <1>16 DEF Unlist, Goes, At, HeldExactly, Shape, Thread, ScriptState, HeldPoint, Starting,
       Ending, threadRest
  <2>3. LockKept'
    BY <1>1, <1>4, <1>16 DEF Unlist, Goes, At, LockKept, Shape, Thread, ScriptState, Starting
  <2>4. RunningIsListed'
    BY <1>1, <1>4, <1>16 DEF Unlist, Goes, At, RunningIsListed, Shape, ScriptState
  <2>5. AllDead'
    BY <1>1, <1>3, <1>4, <1>16 DEF Unlist, Goes, At, AllDead, HasKilled, Shape, ScriptState
  <2>6. QED
    BY <1>2, <2>1, <2>2, <2>3, <2>4, <2>5
<1>17. CASE Leave
  <2>1. Shape'
    BY <1>1, <1>4, <1>17 DEF Leave, Left, Idle, At, Shape, ScriptState, Point, Starting, Ending
  <2>2. HeldExactly'
    BY <1>1, <1>4, <1>17 DEF Leave, Left, Idle, At, HeldExactly, Shape, Thread, ScriptState, HeldPoint, Starting,
       Ending, threadRest
  <2>3. LockKept'
    BY <1>1, <1>4, <1>17 DEF Leave, Left, Idle, At, LockKept, Shape, Thread, ScriptState, Starting
  <2>4. RunningIsListed'
    BY <1>1, <1>4, <1>17 DEF Leave, Left, Idle, At, RunningIsListed, Shape, ScriptState
  <2>5. AllDead'
    BY <1>1, <1>3, <1>4, <1>17 DEF Leave, Left, Idle, At, AllDead, HasKilled, Shape, ScriptState
  <2>6. QED
    BY <1>2, <2>1, <2>2, <2>3, <2>4, <2>5
<1>18. CASE Interrupt
  <2>1. Shape'
    BY <1>1, <1>4, <1>18 DEF Interrupt, signalVars, At, Shape, ScriptState, Point, Starting, Ending
  <2>2. HeldExactly'
    BY <1>1, <1>4, <1>18 DEF Interrupt, signalVars, At, HeldExactly, Shape, Thread, ScriptState, HeldPoint, Starting,
       Ending, threadRest
  <2>3. LockKept'
    BY <1>1, <1>4, <1>18 DEF Interrupt, signalVars, At, LockKept, Shape, Thread, ScriptState, Starting
  <2>4. RunningIsListed'
    BY <1>1, <1>4, <1>18 DEF Interrupt, signalVars, At, RunningIsListed, Shape, ScriptState
  <2>5. AllDead'
    BY <1>1, <1>3, <1>4, <1>18 DEF Interrupt, signalVars, At, AllDead, HasKilled, Shape, ScriptState
  <2>6. QED
    BY <1>2, <2>1, <2>2, <2>3, <2>4, <2>5
<1>19. QED
  BY <1>5, <1>6, <1>7, <1>8, <1>9, <1>10, <1>11, <1>12, <1>13, <1>14, <1>15, <1>16, <1>17, <1>18

(* A handler that is entered holds no lock yet, and has killed nothing. *)
LEMMA EnteringKeepsInv ==
  ASSUME SigtermInv, run # "over", Entered(handlers),
         UNCHANGED <<starting, gave_up, run, process, commands>>
  PROVE  /\ handlers' \in Seq(Frame) /\ terminated' \in BOOLEAN /\ pending' \in BOOLEAN
         /\ \A i \in DOMAIN handlers' : handlers'[i].listed => starting'.owner = "main"
         /\ KillsUnderLock' /\ Ends'
         /\ HasKilled' => HasKilled
<1>1. /\ handlers' \in Seq(Frame) /\ handlers' # <<>>
      /\ \A i \in DOMAIN handlers' :
           \/ i \in DOMAIN handlers /\ handlers'[i] = handlers[i]
           \/ handlers'[i] = [at |-> "wait", listed |-> FALSE]
      /\ pending' = FALSE /\ terminated' = TRUE
  BY EnteredFrames DEF SigtermInv, Shape
<1>2. \A i \in DOMAIN handlers' : handlers'[i].listed => starting'.owner = "main"
  BY <1>1 DEF SigtermInv, LockKept
<1>3. KillsUnderLock'
  BY <1>1 DEF SigtermInv, KillsUnderLock
<1>4. Ends'
  BY <1>1 DEF SigtermInv, Ends
<1>5. ASSUME HasKilled' PROVE HasKilled
  <2>1. CASE run = "exiting"
    BY <1>5, <2>1 DEF HasKilled, SigtermInv, Ends
  <2>2. CASE run # "exiting"
    <3>1. PICK i \in DOMAIN handlers' : handlers'[i].at = "end"
      BY <1>1, <1>5, <2>2 DEF HasKilled
    <3>2. i \in DOMAIN handlers /\ handlers[i].at = "end"
      BY <1>1, <3>1
    <3>3. handlers # <<>>
      BY <3>2
    <3>4. QED
      BY <1>5, <3>2, <3>3 DEF HasKilled, SigtermInv, Ends
  <2>3. QED
    BY <2>1, <2>2
<1>6. QED
  BY <1>1, <1>2, <1>3, <1>4, <1>5

(* While a handler is on its stack, the main thread is in neither block. *)
LEMMA HandlersOutsideBlocks ==
  ASSUME SigtermInv, handlers # <<>>
  PROVE  held = 0 /\ (script_thread = "main" => script.at \notin HeldPoint)
BY DEF SigtermInv, Shape, HeldExactly

(* SIGTERM arrives. *)
LEMMA TerminateKeepsInv ==
  ASSUME SigtermInv, terminate
  PROVE  SigtermInv'
<1> USE DEF SigtermInv
<1>1. /\ UNCHANGED <<script_thread, held, gave_up, commands, starting, process, script, run>>
      /\ run # "over"
  BY DEF terminate
<1>2. RunningIsListed'
  BY <1>1 DEF RunningIsListed
<1>3. CASE held > 0 /\ pending' = TRUE /\ UNCHANGED <<terminated, handlers>>
  <2>1. Shape' /\ HeldExactly' /\ LockKept'
    BY <1>1, <1>3 DEF Shape, HeldExactly, LockKept
  <2>2. KillsUnderLock' /\ AllDead' /\ Ends'
    BY <1>1, <1>3 DEF KillsUnderLock, AllDead, HasKilled, Ends
  <2>3. QED
    BY <1>2, <2>1, <2>2
<1>4. CASE held = 0 /\ Entered(handlers)
  <2>1. /\ handlers' \in Seq(Frame) /\ terminated' \in BOOLEAN /\ pending' \in BOOLEAN
        /\ \A i \in DOMAIN handlers' : handlers'[i].listed => starting'.owner = "main"
        /\ KillsUnderLock' /\ Ends'
        /\ HasKilled' => HasKilled
    BY <1>1, <1>4, EnteringKeepsInv
  <2>2. Shape' /\ HeldExactly'
    BY <1>1, <1>4, <2>1 DEF Shape, HeldExactly
  <2>3. LockKept' /\ AllDead'
    BY <1>1, <2>1 DEF LockKept, AllDead
  <2>4. QED
    BY <1>2, <2>1, <2>2, <2>3
<1>5. QED
  BY <1>3, <1>4 DEF terminate

(* A handler has the lock, or has waited in vain. *)
LEMMA HandlerWaitsKeepsInv ==
  ASSUME SigtermInv, HandlerWaits
  PROVE  SigtermInv'
<1> USE DEF SigtermInv
<1>1. /\ UNCHANGED <<script_thread, held, pending, terminated, commands, process, script, run>>
      /\ handlers # <<>> /\ handlers[Len(handlers)].at = "wait" /\ run # "over"
  BY DEF HandlerWaits, Handling
<1>2. held = 0 /\ RunningIsListed'
  BY <1>1, HandlersOutsideBlocks DEF RunningIsListed
<1>3. PICK got \in BOOLEAN :
        /\ Onward("kill", got)
        /\ \/ got /\ Locked("main") /\ UNCHANGED gave_up
           \/ ~got /\ starting.owner = "other" /\ gave_up' = TRUE /\ UNCHANGED starting
  BY DEF HandlerWaits
<1>4. /\ handlers' \in Seq(Frame) /\ handlers' # <<>> /\ DOMAIN handlers' = DOMAIN handlers
      /\ Len(handlers) \in DOMAIN handlers
      /\ handlers'[Len(handlers)] = [at |-> "kill", listed |-> got]
      /\ \A i \in DOMAIN handlers : i # Len(handlers) => handlers'[i] = handlers[i]
  BY <1>1, <1>3, OnwardFrames DEF Shape
<1>5. Shape' /\ HeldExactly' /\ Ends'
  BY <1>1, <1>2, <1>3, <1>4 DEF Shape, HeldExactly, Ends
<1>6. LockKept'
  <2>1. CASE got
    BY <1>1, <1>3, <2>1 DEF LockKept, Locked, Shape, Thread
  <2>2. CASE ~got
    BY <1>1, <1>3, <1>4, <2>2 DEF LockKept
  <2>3. QED
    BY <2>1, <2>2
<1>7. KillsUnderLock'
  BY <1>1, <1>3, <1>4 DEF KillsUnderLock
<1>8. AllDead'
  <2>1. HasKilled' => HasKilled
    BY <1>1, <1>3, <1>4 DEF HasKilled
  <2>2. QED
    BY <1>1, <2>1 DEF AllDead
<1>9. QED
  BY <1>2, <1>5, <1>6, <1>7, <1>8

(* A handler kills what is on the list: what runs, if it has the lock. *)
LEMMA HandlerKillsKeepsInv ==
  ASSUME SigtermInv, HandlerKills
  PROVE  SigtermInv'
<1> USE DEF SigtermInv
<1>1. /\ UNCHANGED <<script_thread, held, pending, terminated, gave_up, commands, starting, script,
                     run>>
      /\ handlers # <<>> /\ handlers[Len(handlers)].at = "kill" /\ run # "over"
  BY DEF HandlerKills, Handling
<1>2. held = 0 /\ (script_thread = "main" => script.at \notin HeldPoint)
  BY <1>1, HandlersOutsideBlocks
<1> DEFINE last == handlers[Len(handlers)].listed
<1>3. Len(handlers) \in DOMAIN handlers /\ last \in BOOLEAN
  <2>1. Len(handlers) \in DOMAIN handlers
    BY <1>1, EmptySeq, LenProperties DEF Shape
  <2>2. handlers[Len(handlers)] \in Frame
    BY <2>1, ElementOfSeq, LenProperties DEF Shape
  <2>3. QED
    BY <2>1, <2>2 DEF Frame
<1>4. /\ handlers' \in Seq(Frame) /\ handlers' # <<>> /\ DOMAIN handlers' = DOMAIN handlers
      /\ handlers'[Len(handlers)] = [at |-> "end", listed |-> last]
      /\ \A i \in DOMAIN handlers : i # Len(handlers) => handlers'[i] = handlers[i]
  BY <1>1, <1>3, OnwardFrames DEF Shape, HandlerKills
<1>5. process' = [p \in Commands |-> IF p \in commands \ Foreign THEN "ended" ELSE process[p]]
  BY DEF HandlerKills, Killed
<1>6. Shape' /\ HeldExactly' /\ Ends'
  BY <1>1, <1>2, <1>4, <1>5 DEF Shape, HeldExactly, Ends
<1>7. LockKept' /\ KillsUnderLock'
  BY <1>1, <1>3, <1>4 DEF LockKept, KillsUnderLock
<1>8. RunningIsListed'
  BY <1>1, <1>5 DEF RunningIsListed
<1>9. ASSUME HasKilled'
      PROVE  /\ script.at \notin {"fork", "forked", "append"}
             /\ \A p \in Commands \ Foreign : process'[p] # "running"
  <2>1. starting.owner = "main"
    BY <1>1, <1>3, <1>9 DEF HasKilled, KillsUnderLock, LockKept
  <2>2. script.at \notin Starting
    BY <1>2, <2>1 DEF LockKept, HeldPoint
  <2>3. QED
    BY <1>5, <2>2 DEF RunningIsListed, Starting
<1>10. AllDead'
  BY <1>1, <1>9 DEF AllDead
<1>11. QED
  BY <1>6, <1>7, <1>8, <1>10

(* SystemExit leaves the handlers: in the script, or in the console's thread. *)
LEMMA HandlerEndsKeepsInv ==
  ASSUME SigtermInv, HandlerEnds
  PROVE  SigtermInv'
<1> USE DEF SigtermInv
<1> DEFINE listed == {i \in DOMAIN handlers : handlers[i].listed}
<1>1. /\ UNCHANGED <<script_thread, held, pending, terminated, gave_up, commands, process>>
      /\ handlers # <<>> /\ handlers[Len(handlers)].at = "end" /\ run # "over" /\ handlers' = <<>>
      /\ listed = {} => UNCHANGED starting
      /\ \/ script_thread = "main" /\ script' = Raised("exit") /\ UNCHANGED run
         \/ script_thread # "main" /\ run' = "exiting" /\ UNCHANGED script
  BY DEF HandlerEnds, Handling
<1>2. held = 0 /\ (script_thread = "main" => script.at \notin HeldPoint)
  BY <1>1, HandlersOutsideBlocks
<1>3. /\ Raised("exit") \in ScriptState
      /\ Raised("exit").at \in {"idle", "ended", "finally", "release", "unhold", "resume"}
      /\ Raised("exit").at \in HeldPoint <=> script.at \in HeldPoint \ {"unhold"}
  BY RaisedTyped DEF Shape
<1>4. script' \in ScriptState /\ (script_thread = "main" => script'.at \notin HeldPoint)
  BY <1>1, <1>2, <1>3 DEF Shape
<1>5. Shape' /\ HeldExactly'
  BY <1>1, <1>2, <1>4, EmptySeq DEF Shape, HeldExactly
<1>6. LockKept'
  <2>1. CASE script_thread = "main"
    BY <1>1, <1>4, <2>1 DEF LockKept, HeldPoint
  <2>2. CASE script_thread # "main"
    BY <1>1, <2>2 DEF LockKept
  <2>3. QED
    BY <2>1, <2>2
<1>7. RunningIsListed'
  BY <1>1, <1>2, <1>4 DEF RunningIsListed, HeldPoint, Starting, Ending
<1>8. KillsUnderLock' /\ Ends'
  BY <1>1 DEF KillsUnderLock, Ends
<1>9. HasKilled' => HasKilled
  <2>1. Len(handlers) \in DOMAIN handlers
    BY <1>1, EmptySeq, LenProperties DEF Shape
  <2>2. QED
    BY <1>1, <2>1 DEF HasKilled
<1>10. AllDead'
  BY <1>1, <1>3, <1>9 DEF AllDead
<1>11. QED
  BY <1>5, <1>6, <1>7, <1>8, <1>10

(* A block ends, and with it a SIGTERM that it held back. *)
LEMMA BlockEndKeepsInv ==
  ASSUME SigtermInv, Unhold \/ Resume
  PROVE  SigtermInv'
<1> USE DEF SigtermInv
<1>1. /\ UNCHANGED <<script_thread, gave_up, run, commands, starting, process>>
      /\ script.at \in {"unhold", "resume"} /\ run # "over" /\ Resumes
      /\ \E at \in {"started", "finally", "last"} : script' = [script EXCEPT !.at = at]
  BY DEF Unhold, Resume, At, Goes
<1>2. script' \in ScriptState /\ script'.at \in {"started", "finally", "last"}
      /\ script'.cmd = script.cmd
  BY <1>1 DEF Shape, ScriptState, Point
<1>3. held = IF script_thread = "main" THEN 1 ELSE 0
  BY <1>1 DEF HeldExactly, HeldPoint, Ending
<1>4. held' = 0
  BY <1>1, <1>3 DEF Resumes
<1>5. HeldExactly' /\ RunningIsListed'
  BY <1>1, <1>2, <1>4 DEF HeldExactly, RunningIsListed, HeldPoint, Starting, Ending
<1>6. CASE UNCHANGED <<pending, terminated, handlers>>
  <2>1. CASE script_thread = "other" \/ script_thread = "main"
    <3>1. Shape' /\ LockKept'
      BY <1>1, <1>2, <1>4, <1>6 DEF Shape, LockKept, Starting
    <3>2. KillsUnderLock' /\ AllDead' /\ Ends'
      BY <1>1, <1>2, <1>6 DEF KillsUnderLock, AllDead, HasKilled, Ends
    <3>3. QED
      BY <1>5, <3>1, <3>2
  <2>2. QED
    BY <2>1 DEF Shape, Thread
<1>7. CASE Entered(handlers)
  <2>1. /\ handlers' \in Seq(Frame) /\ terminated' \in BOOLEAN /\ pending' \in BOOLEAN
        /\ \A i \in DOMAIN handlers' : handlers'[i].listed => starting'.owner = "main"
        /\ KillsUnderLock' /\ Ends'
        /\ HasKilled' => HasKilled
    BY <1>1, <1>7, EnteringKeepsInv
  <2>2. Shape' /\ LockKept'
    BY <1>1, <1>2, <1>4, <2>1 DEF Shape, LockKept, Starting
  <2>3. AllDead'
    BY <1>1, <1>2, <2>1 DEF AllDead
  <2>4. QED
    BY <1>5, <2>1, <2>2, <2>3
<1>8. QED
  BY <1>1, <1>6, <1>7 DEF Resumes

(* A command ends by itself, and the process ends. *)
LEMMA EndingKeepsInv ==
  ASSUME SigtermInv, CommandEnds \/ Exits
  PROVE  SigtermInv'
<1> USE DEF SigtermInv
<1>1. CASE CommandEnds
  <2>1. UNCHANGED <<script_thread, held, pending, terminated, handlers, gave_up, commands, starting,
                    script, run>>
    BY <1>1 DEF CommandEnds, signalVars
  <2>2. PICK p \in Commands : process' = [process EXCEPT ![p] = "ended"]
    BY <1>1 DEF CommandEnds
  <2>3. process' \in [Commands -> {"none", "running", "ended"}]
        /\ \A q \in Commands : process'[q] = "running" => process[q] = "running"
    BY <2>2 DEF Shape
  <2>4. Shape' /\ HeldExactly' /\ LockKept' /\ KillsUnderLock' /\ Ends'
    BY <2>1, <2>3 DEF Shape, HeldExactly, LockKept, KillsUnderLock, Ends
  <2>5. RunningIsListed' /\ AllDead'
    BY <2>1, <2>3 DEF RunningIsListed, AllDead, HasKilled
  <2>6. QED
    BY <2>4, <2>5
<1>2. CASE Exits
  <2>1. /\ UNCHANGED <<script_thread, held, pending, terminated, handlers, gave_up, commands,
                       starting, script, process>>
        /\ handlers = <<>> /\ run' = "over"
    BY <1>2 DEF Exits, signalVars
  <2>2. Shape' /\ HeldExactly' /\ LockKept' /\ RunningIsListed' /\ KillsUnderLock' /\ Ends'
    BY <2>1 DEF Shape, HeldExactly, LockKept, RunningIsListed, KillsUnderLock, Ends
  <2>3. AllDead'
    BY <2>1 DEF AllDead, HasKilled
  <2>4. QED
    BY <2>2, <2>3
<1>3. QED
  BY <1>1, <1>2

LEMMA InitInv == Init => SigtermInv
<1> SUFFICES ASSUME Init PROVE SigtermInv
  OBVIOUS
<1>1. Shape
  BY EmptySeq DEF Init, Shape, Idle, ScriptState, Point
<1>2. HeldExactly /\ LockKept
  BY DEF Init, HeldExactly, LockKept, Idle, HeldPoint, Starting, Ending
<1>3. RunningIsListed /\ KillsUnderLock /\ AllDead /\ Ends
  BY DEF Init, RunningIsListed, KillsUnderLock, AllDead, HasKilled, Ends, Idle
<1>4. QED
  BY <1>1, <1>2, <1>3 DEF SigtermInv

LEMMA NextInv == SigtermInv /\ [Next]_vars => SigtermInv'
<1> SUFFICES ASSUME SigtermInv, [Next]_vars PROVE SigtermInv'
  OBVIOUS
<1>1. CASE Handler
  BY <1>1, HandlerWaitsKeepsInv, HandlerKillsKeepsInv, HandlerEndsKeepsInv DEF Handler
<1>2. CASE Start \/ Command \/ Finish \/ Interrupt
  BY <1>2, ScriptKeepsInv, BlockEndKeepsInv DEF Command
<1>3. CASE CommandEnds \/ Exit \/ EndOfScript
  BY <1>3, EndingKeepsInv DEF Exit, EndOfScript
<1>4. CASE UNCHANGED vars
  BY <1>4 DEF vars, signalVars, SigtermInv, Shape, HeldExactly, LockKept, RunningIsListed,
     KillsUnderLock, AllDead, HasKilled, Ends
<1>5. QED
  BY <1>1, <1>2, <1>3, <1>4, TerminateKeepsInv DEF Next, Over

(* The invariant holds throughout. *)
THEOREM SigtermInvariant == Spec => []SigtermInv
<1>1. QED
  BY InitInv, NextInv, PTL DEF Spec

(* No command that the run may stop outlives a SIGTERM, for any number of commands,
   signals and interrupts (command's promise). *)
THEOREM NoCommandOutlivesTheRun == Spec => []EveryCommandDies
<1>1. SigtermInv => EveryCommandDies
  BY DEF SigtermInv, Ends, AllDead, HasKilled, EveryCommandDies
<1>2. QED
  BY <1>1, SigtermInvariant, PTL

(* A command starts only while no handler has the lock, and never after one had it. *)
LEMMA NoForkOnceListed ==
  ASSUME SigtermInv,
         (\E i \in DOMAIN handlers : handlers[i].listed) \/ (run = "exiting" /\ ~gave_up)
  PROVE  ~Fork
<1> USE DEF SigtermInv
<1>1. CASE \E i \in DOMAIN handlers : handlers[i].listed
  <2>1. starting.owner = "main" /\ handlers # <<>>
    BY <1>1 DEF LockKept
  <2>2. QED
    BY <2>1 DEF Fork, At, LockKept, Starting
<1>2. CASE run = "exiting" /\ ~gave_up
  BY <1>2 DEF Ends, AllDead, HasKilled, Fork, At
<1>3. QED
  BY <1>1, <1>2

(* Every other step may end a command, and starts none. *)
LEMMA OnlyForkStarts ==
  ASSUME SigtermInv, [Next]_vars, ~Fork, NEW p \in Commands, process[p] # "running"
  PROVE  process'[p] # "running"
<1>1. \/ UNCHANGED process
      \/ \E q \in Commands : process' = [process EXCEPT ![q] = "ended"]
      \/ \E S : Killed(S)
  BY DEF Next, Handler, Command, Over, vars, terminate, HandlerWaits, HandlerKills, HandlerEnds, Start,
     Lock, CheckStart, PopenReturns, List, Release, Unhold, CheckStarted, Finish, Finally, Kill, Unlist,
     Resume, Leave, Interrupt, CommandEnds, Exits, Exit, EndOfScript
<1>2. QED
  BY <1>1 DEF Killed, SigtermInv, Shape

(* No command starts once a handler has had the lock, whichever thread starts it, for
   any number of commands, signals and interrupts. *)
THEOREM NoneStarts == Spec => NoCommandStarts
<1> DEFINE Step ==
      (\E i \in DOMAIN handlers : handlers[i].listed) \/ (run = "exiting" /\ ~gave_up) =>
        \A p \in Commands : process[p] # "running" => process'[p] # "running"
<1>1. SigtermInv /\ [Next]_vars => Step
  BY NoForkOnceListed, OnlyForkStarts
<1>2. SigtermInv /\ [Next]_vars => [Step]_vars
  BY <1>1
<1>3. QED
  BY <1>2, SigtermInvariant, PTL DEF Spec, NoCommandStarts

----------------------------------------------------------------------------
(* Who has the lock, how many times, and when a SIGTERM is pending. *)

Listed == {i \in DOMAIN handlers : handlers[i].listed}

PendingIsHeld == pending => held = 1

WaitsUnlisted == \A i \in DOMAIN handlers : handlers[i].at = "wait" => ~handlers[i].listed

(* The lock is taken once by a start, or once by each handler that has it. *)
LockCounted ==
  starting = IF script.at \in Starting THEN [owner |-> script_thread, depth |-> 1]
             ELSE IF Listed = {} THEN Free
             ELSE [owner |-> "main", depth |-> Cardinality(Listed)]

Counts == PendingIsHeld /\ WaitsUnlisted /\ LockCounted

(* No handler has the lock while a start does. *)
LEMMA StartsAlone ==
  ASSUME SigtermInv, script.at \in Starting
  PROVE  Listed = {}
<1>1. starting.owner = script_thread /\ script_thread \in {"main", "other"}
  BY DEF SigtermInv, LockKept, Shape, Thread
<1>2. CASE script_thread = "main"
  BY <1>2, EmptySeq DEF SigtermInv, HeldExactly, HeldPoint, Listed
<1>3. CASE script_thread = "other"
  BY <1>1, <1>3 DEF SigtermInv, LockKept, Listed
<1>4. QED
  BY <1>1, <1>2, <1>3

LEMMA ListedIsFinite ==
  ASSUME handlers \in Seq(Frame)
  PROVE  IsFiniteSet(Listed)
<1>1. DOMAIN handlers = 1 .. Len(handlers) /\ Len(handlers) \in Nat
  BY LenProperties
<1>2. IsFiniteSet(1 .. Len(handlers))
  BY <1>1, FS_Interval
<1>3. QED
  BY <1>1, <1>2, FS_Subset DEF Listed

(* The script's own steps. *)
LEMMA ScriptCounts ==
  ASSUME SigtermInv, Counts,
         \/ Start \/ Lock \/ CheckStart \/ Fork \/ PopenReturns \/ List \/ Release \/ CheckStarted
         \/ Finish \/ Finally \/ Kill \/ Unlist \/ Leave \/ Interrupt
  PROVE  Counts'
<1>1. /\ UNCHANGED <<script_thread, pending, handlers>>
      /\ script_thread = "main" => handlers = <<>>
  BY DEF Start, Lock, CheckStart, Fork, PopenReturns, List, Release, CheckStarted,
     Finish, Finally, Kill, Unlist, Leave, Interrupt, threadRest, signalVars, At
<1>2. Listed' = Listed /\ WaitsUnlisted'
  BY <1>1 DEF Counts, WaitsUnlisted, Listed
<1>3. PendingIsHeld'
  <2>1. CASE Start \/ Finally
    <3>1. held = 0
      BY <2>1 DEF Start, Finally, At, SigtermInv, HeldExactly, HeldPoint, Starting, Ending
    <3>2. QED
      BY <1>1, <3>1 DEF Counts, PendingIsHeld
  <2>2. CASE ~Start /\ ~Finally
    <3>1. held' = held
      BY <2>2 DEF Lock, CheckStart, Fork, PopenReturns, List, Release, CheckStarted,
         Finish, Kill, Unlist, Leave, Interrupt, signalVars
    <3>2. QED
      BY <1>1, <3>1 DEF Counts, PendingIsHeld
  <2>3. QED
    BY <2>1, <2>2
<1>4. script \in ScriptState /\ script.at \in Points
      /\ \A exc \in {"error", "interrupt", "exit"} : Raised(exc).at \in Starting <=> script.at \in Starting
  BY RaisedTyped DEF SigtermInv, Shape, ScriptState, Points
<1>5. LockCounted'
  <2>1. CASE Lock
    <3>1. /\ script.at = "lock" /\ script'.at = "check"
          /\ starting.owner \in {"none", script_thread}
          /\ starting' = [owner |-> script_thread, depth |-> starting.depth + 1]
      BY <1>4, <2>1 DEF Lock, At, Locked, Goes, ScriptState
    <3>2. script_thread \in {"main", "other"}
      BY DEF SigtermInv, Shape, Thread
    <3>3. Listed = {}
      <4>1. CASE script_thread = "main"
        BY <1>1, <4>1, EmptySeq DEF Listed
      <4>2. CASE script_thread = "other"
        BY <3>1, <4>2 DEF SigtermInv, LockKept, Listed
      <4>3. QED
        BY <3>2, <4>1, <4>2
    <3>4. starting = Free
      BY <3>1, <3>3 DEF Counts, LockCounted, Starting
    <3>5. QED
      BY <1>1, <3>1, <3>4 DEF LockCounted, Starting, Free
  <2>2. CASE Release
    <3>1. script.at = "release" /\ script'.at = "unhold" /\ Unlocked(1)
      BY <1>4, <2>2 DEF Release, At, Goes, ScriptState
    <3>2. starting.depth = 1 /\ Listed = {}
      BY <3>1, StartsAlone DEF Counts, LockCounted, Starting
    <3>3. QED
      BY <1>2, <3>1, <3>2 DEF LockCounted, Unlocked, Starting
  <2>3. CASE ~Lock /\ ~Release
    <3>1. starting' = starting
      BY <2>3 DEF Start, CheckStart, Fork, PopenReturns, List, CheckStarted,
         Finish, Finally, Kill, Unlist, Leave, Interrupt
    <3>2. script'.at \in Starting <=> script.at \in Starting
      <4>1. CASE Start \/ PopenReturns \/ List \/ Kill \/ Unlist
        BY <1>4, <4>1 DEF Start, PopenReturns, List, Kill, Unlist, Idle, At, Goes, ScriptState, Starting, Ending
      <4>2. CASE CheckStart \/ Fork
        BY <1>4, <4>2 DEF CheckStart, Fork, At, Goes, ScriptState, Starting
      <4>3. CASE CheckStarted
        BY <1>4, <4>3 DEF CheckStarted, At, Goes, ScriptState, Starting
      <4>4. CASE Finish \/ Finally
        BY <1>4, <4>4 DEF Finish, Finally, At, Goes, ScriptState, Starting
      <4>5. CASE Leave
        <5>1. script.at = "last" /\ script'.at \in {"idle", "ended"}
          BY <4>5 DEF Leave, Left, Idle, At
        <5>2. QED
          BY <5>1 DEF Starting
      <4>6. CASE Interrupt
        BY <1>4, <4>6 DEF Interrupt
      <4>7. QED
        BY <2>3, <4>1, <4>2, <4>3, <4>4, <4>5, <4>6
    <3>3. QED
      BY <1>1, <1>2, <3>1, <3>2 DEF Counts, LockCounted
  <2>4. QED
    BY <2>1, <2>2, <2>3
<1>6. QED
  BY <1>2, <1>3, <1>5 DEF Counts

(* A handler that is entered has not got the lock. *)
LEMMA EnteringCounts ==
  ASSUME SigtermInv, WaitsUnlisted, Entered(handlers)
  PROVE  Listed' = Listed /\ WaitsUnlisted' /\ ~pending'
<1> DEFINE h == [at |-> "wait", listed |-> FALSE]
<1>1. handlers \in Seq(Frame) /\ h \in Frame /\ handlers' = Append(handlers, h) /\ ~pending'
  BY DEF SigtermInv, Shape, Entered, Frame
<1>2. /\ handlers' \in Seq(Frame) /\ Len(handlers') = Len(handlers) + 1
      /\ \A i \in 1..Len(handlers) : handlers'[i] = handlers[i]
      /\ handlers'[Len(handlers) + 1] = h
  BY <1>1, AppendProperties
<1>3. DOMAIN handlers' = 1..(Len(handlers) + 1) /\ DOMAIN handlers = 1..Len(handlers)
      /\ Len(handlers) \in Nat
  BY <1>1, <1>2, LenProperties
<1>4. Listed' = Listed
  BY <1>2, <1>3 DEF Listed
<1>5. WaitsUnlisted'
  BY <1>2, <1>3 DEF WaitsUnlisted
<1>6. QED
  BY <1>1, <1>4, <1>5

LEMMA TerminateCounts ==
  ASSUME SigtermInv, Counts, terminate
  PROVE  Counts'
<1>1. UNCHANGED <<script_thread, held, starting, script>>
  BY DEF terminate
<1>2. CASE held > 0 /\ pending' = TRUE /\ UNCHANGED <<terminated, handlers>>
  <2>1. held' = 1
    BY <1>1, <1>2 DEF SigtermInv, Shape
  <2>2. QED
    BY <1>1, <1>2, <2>1 DEF Counts, PendingIsHeld, WaitsUnlisted, LockCounted, Listed
<1>3. CASE held = 0 /\ Entered(handlers)
  <2>1. Listed' = Listed /\ WaitsUnlisted' /\ ~pending'
    BY <1>3, EnteringCounts DEF Counts
  <2>2. QED
    BY <1>1, <2>1 DEF Counts, PendingIsHeld, LockCounted
<1>4. QED
  BY <1>2, <1>3 DEF terminate

LEMMA BlockEndCounts ==
  ASSUME SigtermInv, Counts, Unhold \/ Resume
  PROVE  Counts'
<1>1. /\ UNCHANGED <<script_thread, starting>>
      /\ script.at \in {"unhold", "resume"} /\ Resumes
      /\ \E at \in {"started", "finally", "last"} : script' = [script EXCEPT !.at = at]
  BY DEF Unhold, Resume, At, Goes
<1>2. script.at \notin Starting /\ script'.at \notin Starting
  BY <1>1 DEF SigtermInv, Shape, ScriptState, Starting
<1>3. script_thread \in {"main", "other"}
      /\ held = IF script_thread = "main" THEN 1 ELSE 0
  BY <1>1 DEF SigtermInv, Shape, Thread, HeldExactly, HeldPoint, Ending
<1>4. CASE UNCHANGED handlers /\ pending' = pending
  <2>1. ~pending
    BY <1>1, <1>3, <1>4 DEF Resumes, Entered, Counts, PendingIsHeld
  <2>2. QED
    BY <1>1, <1>2, <1>4, <2>1 DEF Counts, PendingIsHeld, WaitsUnlisted, LockCounted, Listed
<1>5. CASE Entered(handlers)
  <2>1. Listed' = Listed /\ WaitsUnlisted' /\ ~pending'
    BY <1>5, EnteringCounts DEF Counts
  <2>2. QED
    BY <1>1, <1>2, <2>1 DEF Counts, PendingIsHeld, LockCounted
<1>6. QED
  BY <1>1, <1>4, <1>5 DEF Resumes

(* A handler takes the lock once more, keeps it, or gives back what all have taken. *)
LEMMA HandlerCounts ==
  ASSUME SigtermInv, Counts, Handler
  PROVE  Counts'
<1>1. UNCHANGED <<script_thread, held, pending>> /\ handlers # <<>> /\ handlers \in Seq(Frame)
  BY DEF Handler, HandlerWaits, HandlerKills, HandlerEnds, Handling, SigtermInv, Shape
<1>2. PendingIsHeld'
  BY <1>1 DEF Counts, PendingIsHeld
<1>3. Len(handlers) \in DOMAIN handlers /\ handlers[Len(handlers)] \in Frame
  BY <1>1, EmptySeq, LenProperties, ElementOfSeq
<1>4. script_thread \in {"main", "other"} /\ (script_thread = "main" => script.at \notin Starting)
  BY <1>1, HandlersOutsideBlocks DEF SigtermInv, Shape, Thread, HeldPoint
<1>5. CASE HandlerWaits
  <2>1. PICK got \in BOOLEAN :
          /\ Onward("kill", got) /\ script' = script /\ handlers[Len(handlers)].at = "wait"
          /\ \/ got /\ Locked("main")
             \/ ~got /\ starting' = starting
    BY <1>5 DEF HandlerWaits, Handling
  <2>2. /\ DOMAIN handlers' = DOMAIN handlers
        /\ handlers'[Len(handlers)] = [at |-> "kill", listed |-> got]
        /\ \A i \in DOMAIN handlers : i # Len(handlers) => handlers'[i] = handlers[i]
    BY <1>1, <2>1, OnwardFrames
  <2>3. WaitsUnlisted' /\ Len(handlers) \notin Listed
    BY <1>3, <2>1, <2>2 DEF Counts, WaitsUnlisted, Listed
  <2>4. CASE ~got
    <3>1. Listed' = Listed
      BY <1>3, <2>2, <2>3, <2>4 DEF Listed
    <3>2. QED
      BY <1>1, <1>2, <2>1, <2>3, <2>4, <3>1 DEF Counts, LockCounted
  <2>5. CASE got
    <3>1. Listed' = Listed \cup {Len(handlers)}
      BY <1>3, <2>2, <2>5 DEF Listed
    <3>2. IsFiniteSet(Listed) /\ Cardinality(Listed') = Cardinality(Listed) + 1
      BY <1>1, <2>3, <3>1, ListedIsFinite, FS_AddElement
    <3>3. script.at \notin Starting
      BY <1>4, <2>1, <2>5 DEF Locked, Counts, LockCounted
    <3>4. starting.depth = Cardinality(Listed)
      BY <3>2, <3>3, FS_EmptySet DEF Counts, LockCounted, Free
    <3>5. starting' = [owner |-> "main", depth |-> Cardinality(Listed) + 1]
      BY <2>1, <2>5, <3>4 DEF Locked
    <3>6. starting' = [owner |-> "main", depth |-> Cardinality(Listed')] /\ Listed' # {}
      BY <3>1, <3>2, <3>5
    <3>7. script'.at \notin Starting
      BY <2>1, <3>3
    <3>8. LockCounted'
      BY <3>6, <3>7, Zenon DEF LockCounted
    <3>9. QED
      BY <1>2, <2>3, <3>8 DEF Counts
  <2>6. QED
    BY <2>4, <2>5
<1>6. CASE HandlerKills
  <2>1. /\ DOMAIN handlers' = DOMAIN handlers
        /\ handlers'[Len(handlers)] = [at |-> "end", listed |-> handlers[Len(handlers)].listed]
        /\ \A i \in DOMAIN handlers : i # Len(handlers) => handlers'[i] = handlers[i]
    BY <1>1, <1>3, <1>6, OnwardFrames DEF HandlerKills, Frame
  <2>2. Listed' = Listed /\ WaitsUnlisted'
    BY <2>1 DEF Listed, Counts, WaitsUnlisted
  <2>3. QED
    BY <1>1, <1>2, <1>6, <2>2 DEF HandlerKills, Counts, LockCounted
<1>7. CASE HandlerEnds
  <2>1. /\ handlers' = <<>>
        /\ IF Listed = {} THEN UNCHANGED starting ELSE Unlocked(Cardinality(Listed))
        /\ IF script_thread = "main" THEN script' = Raised("exit") ELSE UNCHANGED script
    BY <1>7 DEF HandlerEnds, Listed
  <2>2. Listed' = {} /\ WaitsUnlisted'
    BY <2>1, EmptySeq DEF Listed, WaitsUnlisted
  <2>3. script'.at \in Starting <=> script.at \in Starting
    BY <2>1, RaisedTyped DEF SigtermInv, Shape
  <2>4. CASE Listed = {}
    BY <1>1, <1>2, <2>1, <2>2, <2>3, <2>4 DEF Counts, LockCounted
  <2>5. CASE Listed # {}
    <3>1. script.at \notin Starting /\ starting.depth = Cardinality(Listed)
      BY <2>5, StartsAlone DEF Counts, LockCounted
    <3>2. QED
      BY <1>2, <2>1, <2>2, <2>3, <2>5, <3>1 DEF Counts, LockCounted, Unlocked
  <2>6. QED
    BY <2>4, <2>5
<1>8. QED
  BY <1>5, <1>6, <1>7 DEF Handler

LEMMA NextCounts == SigtermInv /\ Counts /\ [Next]_vars => Counts'
<1> SUFFICES ASSUME SigtermInv, Counts, [Next]_vars PROVE Counts'
  OBVIOUS
<1>1. CASE Start \/ Command \/ Finish \/ Interrupt
  BY <1>1, ScriptCounts, BlockEndCounts DEF Command
<1>2. CASE CommandEnds \/ Exit \/ EndOfScript \/ UNCHANGED vars
  <2>1. UNCHANGED <<script_thread, held, pending, handlers, starting, script>>
    BY <1>2 DEF CommandEnds, Exit, EndOfScript, Exits, vars, signalVars
  <2>2. QED
    BY <2>1 DEF Counts, PendingIsHeld, WaitsUnlisted, LockCounted, Listed
<1>3. QED
  BY <1>1, <1>2, TerminateCounts, HandlerCounts DEF Next, Over

(* Outside command() nothing is held back and the script's thread has no lock, however
   many commands, signals and interrupts there were. *)
THEOREM NothingStaysHeld == Spec => []NothingHeldBetween
<1>1. Init => Counts
  <2> SUFFICES ASSUME Init PROVE Counts
    OBVIOUS
  <2>1. Listed = {} /\ WaitsUnlisted
    BY EmptySeq DEF Init, Listed, WaitsUnlisted
  <2>2. QED
    BY <2>1 DEF Init, Counts, PendingIsHeld, LockCounted, Idle, Starting
<1>2. SigtermInv /\ Counts => NothingHeldBetween
  <2> SUFFICES ASSUME SigtermInv, Counts, script.at \in {"idle", "ended"}, handlers = <<>>
               PROVE  held = 0 /\ ~pending /\ starting.owner # script_thread
    BY DEF NothingHeldBetween
  <2>1. held = 0 /\ ~pending
    BY DEF SigtermInv, HeldExactly, HeldPoint, Starting, Ending, Counts, PendingIsHeld
  <2>2. Listed = {}
    BY EmptySeq DEF Listed
  <2>3. starting = Free /\ script_thread \in {"main", "other"}
    BY <2>2 DEF Counts, LockCounted, Starting, SigtermInv, Shape, Thread
  <2>4. QED
    BY <2>1, <2>3 DEF Free
<1>3. QED
  BY <1>1, <1>2, NextCounts, SigtermInvariant, PTL DEF Spec
=============================================================================
