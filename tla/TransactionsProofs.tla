------------------------- MODULE TransactionsProofs -------------------------
(***************************************************************************)
(* Theorems about Transactions, for any number of connections, any nesting *)
(* of batches, prompts and halt scripts, and any of the signals. First:    *)
(* what the operations on the stack of batches preserve, its type and      *)
(* which connections it has on record.                                     *)
(***************************************************************************)
EXTENDS Transactions, SequenceTheorems, FiniteSetTheorems, TLAPS

Stack == Seq(Level)

(* A function on 1 .. n is a sequence of length n. *)
LEMMA FunctionIsSeq ==
  ASSUME NEW S, NEW n \in Nat, NEW f \in [1 .. n -> S]
  PROVE  f \in Seq(S) /\ Len(f) = n
<1>1. f \in Seq(S)
  BY SeqDef
<1>2. Len(f) \in Nat /\ DOMAIN f = 1 .. Len(f)
  BY <1>1, LenProperties
<1>3. DOMAIN f = 1 .. n
  OBVIOUS
<1>4. QED
  BY <1>1, <1>2, <1>3

(* What a stack is, as a function of its depth. *)
LEMMA StackIs ==
  ASSUME NEW L \in Stack
  PROVE  /\ Len(L) \in Nat
         /\ DOMAIN L = 1 .. Len(L)
         /\ L \in [1 .. Len(L) -> Level]
         /\ in_batch(L) <=> Len(L) # 0
  BY LenProperties, EmptySeq DEF Stack, in_batch

(* fail_enclosing marks the levels and changes nothing else. *)
LEMMA FailEnclosing ==
  ASSUME NEW L \in Stack
  PROVE  /\ fail_enclosing(L) \in Stack
         /\ Len(fail_enclosing(L)) = Len(L)
         /\ in_batch(fail_enclosing(L)) <=> in_batch(L)
         /\ \A x : uses_db(fail_enclosing(L), x) <=> uses_db(L, x)
<1>1. fail_enclosing(L) \in [1 .. Len(L) -> Level]
  <2>1. L \in [1 .. Len(L) -> Level] /\ DOMAIN L = 1 .. Len(L)
    BY StackIs
  <2>2. \A i \in 1 .. Len(L) : [L[i] EXCEPT !.failed = TRUE] \in Level
    BY <2>1 DEF Level
  <2>3. QED
    BY <2>1, <2>2 DEF fail_enclosing
<1>2. fail_enclosing(L) \in Stack /\ Len(fail_enclosing(L)) = Len(L)
  BY <1>1, StackIs, FunctionIsSeq DEF Stack
<1>3. \A i \in 1 .. Len(L) : fail_enclosing(L)[i].dbs_used = L[i].dbs_used
  BY StackIs DEF fail_enclosing, Level
<1>4. \A x : uses_db(fail_enclosing(L), x) <=> uses_db(L, x)
  BY <1>1, <1>3, StackIs DEF uses_db
<1>5. QED
  BY <1>2, <1>4, StackIs

(* using_db records the connection at the innermost level. *)
LEMMA UsingDb ==
  ASSUME NEW L \in Stack, NEW c \in Conn
  PROVE  /\ using_db(L, c) \in Stack
         /\ in_batch(using_db(L, c)) <=> in_batch(L)
         /\ in_batch(L) => uses_db(using_db(L, c), c)
         /\ \A x : uses_db(L, x) => uses_db(using_db(L, c), x)
         /\ \A x : uses_db(using_db(L, c), x) => uses_db(L, x) \/ x = c
<1>1. CASE ~in_batch(L)
  BY <1>1 DEF using_db
<1>2. CASE in_batch(L)
  <2> DEFINE n == Len(L)
             M == using_db(L, c)
  <2>1. n \in Nat \ {0} /\ n \in 1 .. n /\ L \in [1 .. n -> Level]
    BY <1>2, StackIs
  <2>2. M = [L EXCEPT ![n] = [L[n] EXCEPT !.dbs_used = L[n].dbs_used \cup {c}]]
    BY <1>2, <2>1 DEF using_db
  <2>3. M \in [1 .. n -> Level]
    BY <2>1, <2>2 DEF Level
  <2>4. M \in Stack /\ Len(M) = n
    BY <2>1, <2>3, FunctionIsSeq DEF Stack
  <2>5. /\ M[n].dbs_used = L[n].dbs_used \cup {c}
        /\ \A i \in 1 .. n : i # n => M[i] = L[i]
    BY <2>1, <2>2 DEF Level
  <2>6. DOMAIN M = 1 .. n /\ DOMAIN L = 1 .. n
    BY <2>1, <2>3
  <2>7. in_batch(M)
    BY <2>1, <2>4, StackIs
  <2>8. uses_db(M, c)
    BY <2>1, <2>5, <2>6 DEF uses_db
  <2> HIDE DEF M, n
  <2>9. ASSUME NEW x, uses_db(L, x) PROVE uses_db(M, x)
    <3>1. PICK i \in 1 .. n : x \in L[i].dbs_used
      BY <2>6, <2>9 DEF uses_db
    <3>2. x \in M[i].dbs_used
      BY <2>5, <3>1
    <3>3. QED
      BY <2>6, <3>2 DEF uses_db
  <2>10. ASSUME NEW x, uses_db(M, x) PROVE uses_db(L, x) \/ x = c
    <3>1. PICK i \in 1 .. n : x \in M[i].dbs_used
      BY <2>6, <2>10 DEF uses_db
    <3>2. x = c \/ x \in L[i].dbs_used
      BY <2>5, <3>1
    <3>3. QED
      BY <2>6, <3>2 DEF uses_db
  <2>11. QED
    BY <1>2, <2>4, <2>7, <2>8, <2>9, <2>10 DEF M, n
<1>3. QED
  BY <1>1, <1>2

(* A new level has no connection on record. *)
LEMMA NewBatch ==
  ASSUME NEW L \in Stack
  PROVE  /\ new_batch(L) \in Stack
         /\ \A x : uses_db(new_batch(L), x) <=> uses_db(L, x)
  BY DEF Stack, Level, new_batch, uses_db

(* The levels outside d, as a stack of their own. *)
LEMMA ShorterIs ==
  ASSUME NEW L \in Stack, NEW d \in 1 .. Len(L)
  PROVE  /\ Shorter(L, d) \in Stack
         /\ Len(Shorter(L, d)) = d - 1
         /\ DOMAIN Shorter(L, d) = 1 .. d - 1
         /\ \A i \in 1 .. d - 1 : Shorter(L, d)[i] = L[i]
<1>1. Len(L) \in Nat /\ d \in Int /\ \A i \in 1 .. d - 1 : L[i] \in Level
  BY StackIs
<1>2. /\ Shorter(L, d) \in Stack
      /\ Len(Shorter(L, d)) = IF 1 <= d - 1 THEN d - 1 - 1 + 1 ELSE 0
      /\ \A i \in 1 .. d - 1 - 1 + 1 : Shorter(L, d)[i] = L[1 + i - 1]
  BY <1>1, SubSeqProperties DEF Shorter, Stack
<1>3. Len(Shorter(L, d)) = d - 1
  BY <1>1, <1>2
<1>4. \A i \in 1 .. d - 1 : Shorter(L, d)[i] = L[i]
  BY <1>1, <1>2
<1>5. QED
  BY <1>2, <1>3, <1>4, StackIs

(* Popping the innermost level loses only what it has on record. *)
LEMMA PopInnermost ==
  ASSUME NEW L \in Stack, in_batch(L)
  PROVE  /\ Len(L) \in Nat \ {0}
         /\ L[Len(L)] \in Level
         /\ Shorter(L, Len(L)) \in Stack
         /\ \A x : uses_db(Shorter(L, Len(L)), x) => uses_db(L, x)
         /\ \A x : uses_db(L, x) =>
              uses_db(Shorter(L, Len(L)), x) \/ x \in L[Len(L)].dbs_used
<1>1. Len(L) \in 1 .. Len(L) /\ Len(L) \in Nat \ {0} /\ L \in [1 .. Len(L) -> Level]
  BY StackIs
<1> DEFINE O == Shorter(L, Len(L))
<1>2. /\ O \in Stack
      /\ DOMAIN O = 1 .. Len(L) - 1
      /\ \A i \in 1 .. Len(L) - 1 : O[i] = L[i]
  BY <1>1, ShorterIs
<1>3. DOMAIN L = 1 .. Len(L) /\ L[Len(L)] \in Level
  BY <1>1
<1>4. \A x : uses_db(O, x) => uses_db(L, x)
  BY <1>1, <1>2, <1>3 DEF uses_db
<1>5. \A x : uses_db(L, x) => uses_db(O, x) \/ x \in L[Len(L)].dbs_used
  BY <1>1, <1>2, <1>3 DEF uses_db
<1>6. QED
  BY <1>1, <1>2, <1>3, <1>4, <1>5

(* Abandoning the levels from d on: what they have on record stays on record at
   the enclosing level, or has to be rolled back. *)
LEMMA AbandonTo ==
  ASSUME NEW L \in Stack, NEW d \in Nat \ {0}
  PROVE  /\ abandon_to(L, d) \in Stack
         /\ \A x : uses_db(abandon_to(L, d), x) => uses_db(L, x)
         /\ \A x : uses_db(L, x) => uses_db(abandon_to(L, d), x) \/ x \in Orphans(L, d)
         /\ Orphans(L, d) \subseteq Conn
<1> DEFINE n == Len(L)
           M == abandon_to(L, d)
<1>1. n \in Nat /\ L \in [1 .. n -> Level] /\ DOMAIN L = 1 .. n
  BY StackIs
<1>2. \A e \in Nat : UsedFrom(L, e) \subseteq Conn
                     \/ e = 0
  BY <1>1 DEF UsedFrom, Level
<1>3. Orphans(L, d) \subseteq Conn
  BY <1>2 DEF Orphans
<1>4. CASE d > n
  BY <1>3, <1>4 DEF abandon_to
<1>5. CASE d <= n /\ d = 1
  <2>1. M = <<>> /\ Orphans(L, d) = UsedFrom(L, 1)
    BY <1>1, <1>5 DEF abandon_to, Orphans
  <2>2. M \in Stack /\ \A x : ~uses_db(M, x)
    BY <2>1 DEF Stack, uses_db
  <2>3. \A x : uses_db(L, x) => x \in UsedFrom(L, 1)
    BY <1>1 DEF uses_db, UsedFrom
  <2>4. QED
    BY <1>3, <2>1, <2>2, <2>3
<1>6. CASE d <= n /\ d # 1
  <2> DEFINE O == Shorter(L, d)
             U == UsedFrom(L, d)
  <2>1. d \in 1 .. n /\ d - 1 \in 1 .. d - 1 /\ d - 1 \in Nat
    BY <1>1, <1>6
  <2>2. O \in Stack /\ Len(O) = d - 1 /\ \A i \in 1 .. d - 1 : O[i] = L[i]
    BY <2>1, ShorterIs
  <2>3. O \in [1 .. d - 1 -> Level]
    BY <2>2, StackIs
  <2>4. M = [O EXCEPT ![d - 1] = [O[d - 1] EXCEPT !.dbs_used = O[d - 1].dbs_used \cup U]]
    BY <1>1, <1>6, <2>1, <2>3 DEF abandon_to
  <2>5. U \subseteq Conn
    BY <1>2
  <2>6. M \in [1 .. d - 1 -> Level]
    BY <2>1, <2>3, <2>4, <2>5 DEF Level
  <2>7. M \in Stack
    BY <2>1, <2>6, FunctionIsSeq DEF Stack
  <2>8. /\ M[d - 1].dbs_used = L[d - 1].dbs_used \cup U
        /\ \A i \in 1 .. d - 1 : i # d - 1 => M[i] = L[i]
    BY <2>1, <2>2, <2>3, <2>4 DEF Level
  <2>9. DOMAIN M = 1 .. d - 1
    BY <2>6
  <2>10. \A x : uses_db(M, x) => uses_db(L, x)
    <3>1. \A x \in U : uses_db(L, x)
      BY <1>1, <2>1 DEF UsedFrom, uses_db
    <3>2. \A i \in 1 .. d - 1 : i \in DOMAIN L
      BY <1>1, <1>6
    <3>3. QED
      BY <2>1, <2>8, <2>9, <3>1, <3>2 DEF uses_db
  <2>11. \A x : uses_db(L, x) => uses_db(M, x)
    <3> SUFFICES ASSUME NEW x, NEW i \in 1 .. n, x \in L[i].dbs_used
                 PROVE  uses_db(M, x)
      BY <1>1 DEF uses_db
    <3>1. CASE i < d
      <4>1. i \in 1 .. d - 1
        BY <1>1, <2>1, <3>1
      <4>2. x \in M[i].dbs_used
        BY <2>8, <4>1
      <4>3. QED
        BY <2>9, <4>1, <4>2 DEF uses_db
    <3>2. CASE i >= d
      <4>1. x \in U
        BY <1>1, <2>1, <3>2 DEF UsedFrom
      <4>2. QED
        BY <2>1, <2>8, <2>9, <4>1 DEF uses_db
    <3>3. QED
      BY <1>1, <2>1, <3>1, <3>2
  <2>12. QED
    BY <1>3, <2>7, <2>10, <2>11
<1>7. QED
  BY <1>1, <1>4, <1>5, <1>6

-----------------------------------------------------------------------------
Pending == [Conn -> SUBSET Mark]

(* Own work that execsql has not left behind. *)
Held(work) == Own(work) /\ ~Left(work)

(* What a settlement leaves pending. *)
LEMMA SettleIs ==
  ASSUME NEW p \in Pending, NEW S, NEW D, Settle(p, S, D)
  PROVE  /\ pending' \in Pending
         /\ fate' \in [Conn -> Fate]
         /\ \A c \in Conn : pending'[c] = IF c \in S \cup D THEN {} ELSE p[c]
<1>1. \A c \in Conn : pending'[c] = IF c \in S \cup D THEN {} ELSE p[c]
  BY DEF Settle
<1>2. pending' \in Pending
  BY <1>1 DEF Settle, Pending
<1>3. \A c \in Conn : (CASE p[c] = {}  -> "kept"
                         [] p[c] # {} /\ c \in S -> "stored"
                         [] p[c] # {} /\ c \in D \ S -> "discarded"
                         [] OTHER -> "kept") \in Fate
  BY DEF Fate
<1>4. fate' \in [Conn -> Fate]
  BY <1>3 DEF Settle
<1>5. QED
  BY <1>1, <1>2, <1>4

(* Condemning work changes only the mark of execsql's own. *)
LEMMA CondemnedIs ==
  ASSUME NEW p \in Pending
  PROVE  /\ Condemned(p) \in Pending
         /\ \A c \in Conn : Held(Condemned(p)[c]) <=> Held(p[c])
  BY DEF Condemned, Pending, Mark, Held, Own, Left

(* Of the work left behind on the connections C, execsql holds no more; it keeps
   its marks. *)
LEMMA LeftBehindIs ==
  ASSUME NEW p \in Pending, NEW C, NEW m \in {"torn", "cut"}
  PROVE  /\ LeftBehind(p, C, m) \in Pending
         /\ \A c \in Conn : Held(LeftBehind(p, C, m)[c]) <=> Held(p[c]) /\ c \notin C
         /\ \A c \in Conn : \A x \in {"own", "dead"} :
              x \in LeftBehind(p, C, m)[c] <=> x \in p[c]
  BY DEF LeftBehind, Held, Own, Left, Pending, Mark

(* A statement leaves work only on its connection, and execsql's own only if
   AUTOCOMMIT is on there. *)
LEMMA HoldingIs ==
  ASSUME pending \in Pending, NEW c \in Conn
  PROVE  /\ Holding(c) \in Pending
         /\ \A x \in Conn : Held(Holding(c)[x]) => Held(pending[x]) \/ (x = c /\ autocommit[c])
<1>1. LiveMark(c) \in Mark /\ (LiveMark(c) \in {"own", "dead"} => autocommit[c])
  BY DEF LiveMark, Mark
<1>2. QED
  BY <1>1 DEF Holding, Written, Pending, Held, Own, Left, Mark

(* A failure marks the levels of L and condemns what it does not settle. *)
LEMMA FailsIs ==
  ASSUME pending \in Pending, NEW L \in Stack, NEW S, NEW D, Fails(L, S, D)
  PROVE  /\ batchlevels' \in Stack
         /\ \A x : uses_db(batchlevels', x) <=> uses_db(L, x)
         /\ in_batch(batchlevels') <=> in_batch(L)
         /\ doomed' \in BOOLEAN
         /\ pending' \in Pending
         /\ fate' \in [Conn -> Fate]
         /\ \A c \in Conn : Held(pending'[c]) => Held(pending[c]) /\ c \notin S \cup D
<1>1. batchlevels' = fail_enclosing(L) /\ doomed' = in_batch(L)
  BY DEF Fails
<1>2. Condemned(pending) \in Pending
      /\ \A c \in Conn : Held(Condemned(pending)[c]) <=> Held(pending[c])
  BY CondemnedIs
<1>3. /\ pending' \in Pending
      /\ fate' \in [Conn -> Fate]
      /\ \A c \in Conn : pending'[c] = IF c \in S \cup D THEN {} ELSE Condemned(pending)[c]
  BY <1>2, SettleIs DEF Fails
<1>4. \A c \in Conn : Held(pending'[c]) => Held(pending[c]) /\ c \notin S \cup D
  BY <1>2, <1>3 DEF Held, Own, Left
<1>5. QED
  BY <1>1, <1>3, <1>4, FailEnclosing DEF in_batch

Control ==
  /\ frames \in Seq(Frame)
  /\ pc \in {"ready", "ran", "inserted", "loaded", "halting", "raised", "over"}
  /\ exc \in {"none", "break", "error", "exit", "ctrlc", "term"}
  /\ (exc = "none") <=> (pc # "raised")
  /\ on \in Conn \cup {"none"}
  /\ (on = "none") <=> (pc \notin {"ran", "inserted", "loaded"})
  /\ halting \in BOOLEAN

(* Leaving a frame leaves the outer ones. *)
LEMMA PoppedIs ==
  ASSUME frames \in Seq(Frame), frames # <<>>, Popped
  PROVE  frames' \in Seq(Frame)
<1>1. Len(frames) \in Nat \ {0} /\ \A i \in 1 .. Len(frames) - 1 : frames[i] \in Frame
  BY LenProperties, EmptySeq
<1>2. QED
  BY <1>1, SubSeqProperties DEF Popped

(* The frame on top of the stack of frames. *)
LEMMA TopIsFrame ==
  ASSUME frames \in Seq(Frame), frames # <<>>
  PROVE  Top \in Frame /\ (Top.kind = "batch" => Top.level \in Nat \ {0})
<1>1. Top \in Frame
  BY LenProperties, EmptySeq DEF Top
<1>2. QED
  BY <1>1 DEF Frame

(* Every step keeps the control state well typed. *)
LEMMA ControlStep ==
  ASSUME TypeOK, Next
  PROVE  Control'
<1> USE TransactionsAssumption, ConnAssumption
<1>1. Control
  BY DEF TypeOK, Control
<1>2. CASE Statement
  BY <1>1, <1>2 DEF TypeOK, ConnTypeOK, Control, Statement, RunSql, InsertRows, Load,
     FinishStatement, FailStatement, LoadCommits, LoadWrites, FinishLoad, FailLoad,
     FailLoadAfterCreate, FailMetacommand, RaiseError, Runs, CarriesOn, Halts, Goes,
     Raises, control
<1>3. CASE Setting
  BY <1>1, <1>3 DEF Control, Setting, AutocommitOn, AutocommitOff, Use, Connect, Disconnect,
     CarriesOn, Halts, Goes, Raises
<1>4. CASE Batch
  <2>1. AtEndBatch /\ Popped => frames' \in Seq(Frame)
    BY <1>1, PoppedIs DEF AtEndBatch, TopIs, Control
  <2>2. CASE BeginBatch
    <3>1. [kind |-> "batch", level |-> Len(batchlevels) + 1] \in Frame
      BY LenProperties DEF TypeOK, BatchTypeOK, Frame
    <3>2. frames' \in Seq(Frame)
      BY <1>1, <2>2, <3>1 DEF BeginBatch, Pushed, Control
    <3>3. QED
      BY <1>1, <2>2, <3>2 DEF Control, BeginBatch, Goes
  <2>3. CASE RollbackBatch
    BY <1>1, <2>3 DEF Control, RollbackBatch, CarriesOn, Goes
  <2>4. CASE CommitBatch
    BY <1>1, <2>1, <2>4 DEF Control, CommitBatch, Goes
  <2>5. CASE RefuseBatch \/ FailCommitBatch
    BY <1>1, <2>1, <2>5 DEF Control, RefuseBatch, FailCommitBatch, EndsWithError, Goes,
       Halts, Raises
  <2>6. QED
    BY <1>4, <2>2, <2>3, <2>4, <2>5 DEF Batch
<1>5. CASE Leaving
  <2>1. \A kind : TopIs(kind) /\ Popped => frames' \in Seq(Frame)
    BY <1>1, PoppedIs DEF TopIs, Control
  <2>2. \A kind \in {"input", "deferred"} : Pushed(kind, 0) => frames' \in Seq(Frame)
    BY <1>1 DEF Pushed, Control, Frame
  <2>3. CASE Break \/ BreakCaught \/ Halt \/ Quit
    BY <1>1, <2>3 DEF Control, Break, BreakCaught, Halt, Quit, CarriesOn, Goes, Raises
  <2>4. CASE OpenInput \/ CloseInput
    BY <1>1, <2>1, <2>2, <2>4 DEF Control, OpenInput, CloseInput, Goes
  <2>5. CASE ExitNow \/ EndHaltScript
    BY <1>1, <2>1, <2>2, <2>5 DEF Control, ExitNow, EndHaltScript, Goes, Raises
  <2>6. CASE UnwindBatch \/ UnwindOther
    BY <1>1, <2>1, <2>6 DEF Control, UnwindBatch, UnwindOther
  <2>7. CASE ErrorAtPrompt \/ InterruptAtPrompt
    BY <1>1, <2>1, <2>7 DEF Control, ErrorAtPrompt, InterruptAtPrompt, BackAtPrompt, Goes,
       Raises
  <2>8. CASE ErrorAtTop \/ EndRun
    BY <1>1, <2>8 DEF Control, ErrorAtTop, EndRun, Goes
  <2>9. QED
    BY <1>5, <2>3, <2>4, <2>5, <2>6, <2>7, <2>8 DEF Leaving
<1>6. CASE Signal
  <2>1. \A kind : TopIs(kind) /\ Popped => frames' \in Seq(Frame)
    BY <1>1, PoppedIs DEF TopIs, Control
  <2>2. CASE InterruptCommitBatch \/ InterruptStatement \/ InterruptMetacommand
    BY <1>1, <2>2 DEF Control, InterruptCommitBatch, InterruptStatement,
       InterruptMetacommand, Interrupted, Raises
  <2>3. CASE Interrupt
    BY <1>1, <2>3 DEF Control, Interrupt, Raises
  <2>4. CASE InterruptExit \/ InterruptUnwind
    BY <1>1, <2>1, <2>4 DEF Control, InterruptExit, InterruptUnwind, AbandonInterrupted, Raises
  <2>5. QED
    BY <1>6, <2>2, <2>3, <2>4 DEF Signal
<1>7. CASE Done
  BY <1>1, <1>7 DEF Control, Done, vars, control
<1>8. QED
  BY <1>2, <1>3, <1>4, <1>5, <1>6, <1>7 DEF Next

Data ==
  /\ ConnTypeOK
  /\ batchlevels \in Stack
  /\ sql_error \in BOOLEAN
  /\ doomed \in BOOLEAN

(* A settlement of well-typed work keeps the connections well typed. *)
LEMMA SettledIs ==
  ASSUME Data, NEW p \in Pending, NEW S, NEW D, Settle(p, S, D),
         pool' \subseteq Conn, current_db' \in Conn, autocommit' \in [Conn -> BOOLEAN]
  PROVE  ConnTypeOK'
  BY SettleIs DEF ConnTypeOK, Pending

(* Every step keeps the connections and the batches well typed. *)
LEMMA DataStep ==
  ASSUME TypeOK, Next
  PROVE  Data'
<1> USE TransactionsAssumption, ConnAssumption
<1>1. /\ Data /\ pending \in Pending /\ batchlevels \in Stack
      /\ pool \subseteq Conn /\ current_db \in Conn /\ autocommit \in [Conn -> BOOLEAN]
  BY DEF TypeOK, ConnTypeOK, BatchTypeOK, Data, Pending, Stack
<1>2. \A p \in Pending : \A S, D : Settle(p, S, D) /\ KeepSettings => ConnTypeOK'
  BY <1>1, SettledIs DEF KeepSettings
<1>3. \A L \in Stack : \A S, D : Fails(L, S, D) /\ KeepSettings =>
        ConnTypeOK' /\ batchlevels' \in Stack /\ doomed' \in BOOLEAN
  BY <1>1, FailsIs DEF ConnTypeOK, KeepSettings, Pending
<1>4. \A c \in Conn : Holding(c) \in Pending
  BY <1>1, HoldingIs
<1>5. Condemned(pending) \in Pending
  BY <1>1, CondemnedIs
<1>6. \A c \in Conn : using_db(batchlevels, c) \in Stack
  BY <1>1, UsingDb
<1>7. CASE Statement
  <2>1. CASE \E effect \in SqlEffects : RunSql(effect)
    BY <1>1, <1>2, <1>4, <1>6, <2>1 DEF RunSql, Runs, Untouched, SqlEffects, Data
  <2>2. CASE \E c \in Conn : InsertRows(c) \/ Load(c)
    BY <1>1, <1>2, <1>4, <1>6, <2>2 DEF InsertRows, Load, Runs, Untouched, Data
  <2>3. CASE FinishStatement \/ LoadCommits \/ FinishLoad
    BY <1>1, <1>2, <2>3 DEF FinishStatement, LoadCommits, FinishLoad, Data
  <2>4. CASE LoadWrites
    BY <1>1, <1>2, <1>4, <2>4 DEF LoadWrites, Untouched, Data, TypeOK
  <2>5. CASE FailStatement \/ FailLoad \/ FailMetacommand
    BY <1>1, <1>3, <2>5 DEF FailStatement, FailLoad, FailMetacommand, Data
  <2>6. CASE FailLoadAfterCreate
    <3>1. \A p : p = LeftBehind(pending, {c \in {on} : ~uses_db(batchlevels, c)}, "torn") =>
            p \in Pending /\ Condemned(p) \in Pending
      BY <1>1, LeftBehindIs, CondemnedIs
    <3>2. QED
      BY <1>1, <1>2, <2>6, <3>1, FailEnclosing
         DEF FailLoadAfterCreate, Untouched, Data, in_batch
  <2>7. CASE RaiseError
    BY <1>1, <1>2, <1>3, <1>5, <1>6, <2>7 DEF RaiseError, Untouched, Data, in_batch
  <2>8. QED
    BY <1>7, <2>1, <2>2, <2>3, <2>4, <2>5, <2>6, <2>7 DEF Statement
<1>8. CASE Setting
  <2>1. CASE AutocommitOn
    <3>1. autocommit' \in [Conn -> BOOLEAN] /\ UNCHANGED <<pool, current_db, sql_error>>
      BY <1>1, <2>1 DEF AutocommitOn
    <3>2. CASE Fails(batchlevels, {}, {current_db})
      BY <1>1, <3>1, <3>2, FailsIs DEF Data, ConnTypeOK, Pending
    <3>3. CASE /\ \E S, D : Settle(pending, S, D)
               /\ UNCHANGED <<batchlevels, doomed>>
      BY <1>1, <3>1, <3>3, SettledIs DEF Data
    <3>4. QED
      BY <2>1, <3>2, <3>3 DEF AutocommitOn, Untouched
  <2>2. CASE AutocommitOff
    <3>1. [pending EXCEPT ![current_db] = IF pending[current_db] = {} THEN {} ELSE {"other"}]
            \in Pending
      BY <1>1 DEF Pending, Mark
    <3>2. QED
      BY <1>1, <2>2, <3>1, SettledIs DEF AutocommitOff, AutocommitTurnedOff, Untouched, Data
  <2>3. CASE \E c \in Conn : Use(c) \/ Connect(c) \/ Disconnect(c)
    <3>1. PICK c \in Conn : Use(c) \/ Connect(c) \/ Disconnect(c)
      BY <2>3
    <3>2. CASE Use(c)
      BY <1>1, <3>2, SettledIs DEF Use, MadeCurrent, Untouched, Data
    <3>3. CASE Connect(c)
      BY <1>1, <3>3, SettledIs DEF Connect, Connected, Untouched, Data
    <3>4. CASE Disconnect(c)
      BY <1>1, <3>4, SettledIs DEF Disconnect, Disconnected, Untouched, Data
    <3>5. QED
      BY <3>1, <3>2, <3>3, <3>4
  <2>4. QED
    BY <1>8, <2>1, <2>2, <2>3 DEF Setting
<1>9. \A L \in Stack : Pops(L) => batchlevels' \in Stack /\ doomed' \in BOOLEAN
  BY <1>1 DEF Pops, in_batch, Data
<1>10. \A d \in Nat \ {0} : abandon_to(batchlevels, d) \in Stack
  BY <1>1, AbandonTo
<1>11. in_batch(batchlevels) =>
         /\ Len(batchlevels) \in Nat \ {0}
         /\ Shorter(batchlevels, Len(batchlevels)) \in Stack
  BY <1>1, PopInnermost
<1>12. \A L \in Stack : \A S, R : Interrupted(L, S, R) =>
         ConnTypeOK' /\ batchlevels' \in Stack /\ doomed' \in BOOLEAN
  BY <1>3 DEF Interrupted
<1>13. Top.kind = "batch" /\ frames # <<>> => Top.level \in Nat \ {0}
  BY TopIsFrame DEF TypeOK
<1>14. \A d \in Nat \ {0} : AbandonInterrupted(d) =>
         ConnTypeOK' /\ batchlevels' \in Stack /\ doomed' \in BOOLEAN
  <2> SUFFICES ASSUME NEW d \in Nat \ {0}, AbandonInterrupted(d)
               PROVE  ConnTypeOK' /\ batchlevels' \in Stack /\ doomed' \in BOOLEAN
    OBVIOUS
  <2>1. PICK k \in d .. Len(batchlevels) + 1 :
          /\ batchlevels' = abandon_to(batchlevels, k)
          /\ \E R \in SUBSET Managed(Orphans(batchlevels, k)) :
               Settle(Condemned(pending), {}, R)
    BY DEF AbandonInterrupted
  <2>2. k \in Nat \ {0}
    BY <1>1, StackIs
  <2>3. ConnTypeOK'
    BY <1>2, <1>5, <2>1 DEF AbandonInterrupted
  <2>4. QED
    BY <1>10, <2>1, <2>2, <2>3 DEF AbandonInterrupted, in_batch
<1>15. CASE Batch
  <2>1. CASE BeginBatch
    BY <1>1, <1>2, <2>1, NewBatch DEF BeginBatch, Untouched, Data
  <2>2. CASE RollbackBatch
    BY <1>1, <1>2, <2>2 DEF RollbackBatch, Data
  <2>3. CASE CommitBatch
    BY <1>1, <1>2, <1>9, <1>11, <2>3 DEF CommitBatch, Untouched, Data
  <2>4. CASE RefuseBatch
    <3>1. Len(batchlevels) \in Nat \ {0}
      BY <1>1, <2>4, StackIs DEF RefuseBatch, failure
    <3>2. QED
      BY <1>1, <1>3, <1>10, <2>4, <3>1 DEF RefuseBatch, EndsWithError, Data
  <2>5. CASE FailCommitBatch
    BY <1>1, <1>3, <1>11, <2>5 DEF FailCommitBatch, EndsWithError, Data
  <2>6. QED
    BY <1>15, <2>1, <2>2, <2>3, <2>4, <2>5 DEF Batch
<1>16. CASE Leaving
  <2>1. CASE Break \/ BreakCaught \/ Halt \/ Quit \/ OpenInput \/ CloseInput
             \/ UnwindOther \/ ErrorAtTop \/ EndHaltScript
    BY <1>1, <1>2, <2>1 DEF Break, BreakCaught, Halt, Quit, OpenInput, CloseInput,
       UnwindOther, ErrorAtTop, EndHaltScript, Untouched, Data
  <2>2. CASE ExitNow
    <3>1. <<>> \in Stack
      BY DEF Stack
    <3>2. QED
      BY <1>1, <1>2, <1>9, <2>2, <3>1 DEF ExitNow, Data
  <2>3. CASE UnwindBatch
    BY <1>1, <1>2, <1>9, <1>10, <1>13, <2>3 DEF UnwindBatch, TopIs, Data
  <2>4. CASE ErrorAtPrompt
    BY <1>1, <1>3, <2>4 DEF ErrorAtPrompt, Data
  <2>5. CASE InterruptAtPrompt
    <3>1. \A C : LeftBehind(Condemned(pending), C, "cut") \in Pending
      BY <1>1, LeftBehindIs, CondemnedIs
    <3>2. QED
      BY <1>1, <1>2, <2>5, <3>1, FailEnclosing
         DEF InterruptAtPrompt, RolledBackAfterInterrupt, Data, in_batch
  <2>6. CASE EndRun
    <3>1. \A C : LeftBehind(pending, C, "cut") \in Pending
      BY <1>1, LeftBehindIs
    <3>2. QED
      BY <1>1, <2>6, <3>1, SettledIs DEF EndRun, RolledBackAfterInterrupt, Data
  <2>7. QED
    BY <1>16, <2>1, <2>2, <2>3, <2>4, <2>5, <2>6 DEF Leaving
<1>17. CASE Signal
  <2>1. CASE InterruptCommitBatch
    BY <1>1, <1>11, <1>12, <2>1 DEF InterruptCommitBatch, Data
  <2>2. CASE Interrupt
    BY <1>1, <1>2, <1>5, <2>2 DEF Interrupt, Untouched, Data, in_batch
  <2>3. CASE InterruptStatement \/ InterruptMetacommand
    BY <1>1, <1>12, <2>3 DEF InterruptStatement, InterruptMetacommand, Data
  <2>4. CASE InterruptExit
    BY <1>1, <1>14, <2>4 DEF InterruptExit, AbandonInterrupted, Data
  <2>5. CASE InterruptUnwind
    BY <1>1, <1>13, <1>14, <2>5 DEF InterruptUnwind, AbandonInterrupted, TopIs, Data
  <2>6. QED
    BY <1>17, <2>1, <2>2, <2>3, <2>4, <2>5 DEF Signal
<1>18. CASE Done
  BY <1>1, <1>18 DEF Done, vars, connVars, Data, ConnTypeOK
<1>19. QED
  BY <1>7, <1>8, <1>15, <1>16, <1>17, <1>18 DEF Next

(* Every reachable state is well typed. *)
THEOREM TypeCorrect == Spec => []TypeOK
<1>1. Init => TypeOK
  <2> SUFFICES ASSUME Init PROVE TypeOK
    OBVIOUS
  <2>1. ConnTypeOK
    BY ConnAssumption DEF Init, ConnInit, ConnTypeOK, Fate
  <2>2. BatchTypeOK /\ frames \in Seq(Frame)
    BY EmptySeq DEF Init, BatchInit, BatchTypeOK
  <2>3. QED
    BY <2>1, <2>2 DEF Init, TypeOK
<1>2. TypeOK /\ [Next]_vars => TypeOK'
  <2>1. ASSUME TypeOK, Next PROVE TypeOK'
    BY <2>1, ControlStep, DataStep DEF TypeOK, Control, Data, BatchTypeOK, Stack
  <2>2. ASSUME TypeOK, UNCHANGED vars PROVE TypeOK'
    BY <2>2 DEF vars, connVars, control, TypeOK, ConnTypeOK, BatchTypeOK
  <2>3. QED
    BY <2>1, <2>2
<1>3. QED
  BY <1>1, <1>2, PTL DEF Spec

----------------------------------------------------------------------------
(* Nothing is orphaned *)

Inv == TypeOK /\ SettledInv

(* A settlement leaves execsql's own work only where it does not reach. *)
LEMMA SettleOwn ==
  ASSUME NEW p \in Pending, NEW S, NEW D, Settle(p, S, D)
  PROVE  \A c \in Conn : Held(pending'[c]) <=> Held(p[c]) /\ c \notin S \cup D
  BY SettleIs DEF Held, Own, Left

(* The invariant after a step that ends a statement, or is taken between two,
   and changes no setting: own work has to be on record with the new stack,
   unless an interrupt unwinds. *)
LEMMA Between ==
  ASSUME Inv, TypeOK', KeepSettings, pc # "over", pc' # "over", on' = "none",
         \A c \in Conn : Held(pending'[c]) =>
           Held(pending[c]) /\ (uses_db(batchlevels', c) \/ Interruption'),
         \A c \in Conn : uses_db(batchlevels', c) => uses_db(batchlevels, c)
  PROVE  SettledInv'
<1>1. NothingOrphaned'
  BY DEF NothingOrphaned, Held
<1>2. UsedConnectionsStayOpen'
  BY DEF Inv, SettledInv, UsedConnectionsStayOpen, KeepSettings
<1>3. OwnWorkIsManaged'
  BY DEF Inv, SettledInv, OwnWorkIsManaged, Held, KeepSettings
<1>4. StatementOnRecord'
  BY DEF StatementOnRecord, TypeOK
<1>5. QED
  BY <1>1, <1>2, <1>3, <1>4 DEF SettledInv

(* The invariant after a step that a statement on c takes. *)
LEMMA During ==
  ASSUME Inv, TypeOK', KeepSettings, pc # "over", pc' # "over", ~Interruption,
         NEW c \in pool, on' = c, on \in {"none", c},
         \A x \in Conn : Held(pending'[x]) => Held(pending[x]) \/ (x = c /\ autocommit[c]),
         \A x \in Conn : uses_db(batchlevels, x) => uses_db(batchlevels', x),
         \A x \in Conn : uses_db(batchlevels', x) => uses_db(batchlevels, x) \/ x = c,
         pc' \in {"ran", "inserted"} /\ in_batch(batchlevels') => uses_db(batchlevels', c)
  PROVE  SettledInv'
<1>1. NothingOrphaned'
  BY TransactionsAssumption DEF Inv, SettledInv, NothingOrphaned, Held
<1>2. UsedConnectionsStayOpen'
  BY DEF Inv, SettledInv, UsedConnectionsStayOpen, KeepSettings
<1>3. OwnWorkIsManaged'
  BY DEF Inv, SettledInv, OwnWorkIsManaged, Held, KeepSettings
<1>4. StatementOnRecord'
  BY DEF StatementOnRecord, KeepSettings
<1>5. QED
  BY <1>1, <1>2, <1>3, <1>4 DEF SettledInv

(* Statements, EXECUTE, IMPORT and COPY, and errors. *)
LEMMA StatementStep ==
  ASSUME Inv, TypeOK', Statement
  PROVE  SettledInv'
<1> USE TransactionsAssumption, ConnAssumption
<1>1. /\ pending \in Pending /\ batchlevels \in Stack
      /\ pool \subseteq Conn /\ current_db \in Conn
      /\ pc # "over" => current_db \in pool
  BY DEF Inv, TypeOK, ConnTypeOK, BatchTypeOK, Pending, Stack, SettledInv,
     UsedConnectionsStayOpen
<1>2. \A c \in Conn : pc \notin {"raised"} /\ Held(pending[c]) => uses_db(batchlevels, c) \/ c = on
  BY DEF Inv, SettledInv, NothingOrphaned, Held, Interruption
<1>3. \A c \in Conn : Held(pending[c]) => autocommit[c]
  BY DEF Inv, SettledInv, OwnWorkIsManaged, Held
<1>4. on # "none" => on \in pool /\ on \in Conn
  BY <1>1 DEF Inv, SettledInv, StatementOnRecord
<1>5. (on = "none") <=> (pc \notin {"ran", "inserted", "loaded"})
  BY DEF Inv, TypeOK
<1>6. (pc \in {"ran", "inserted"} /\ in_batch(batchlevels)) => uses_db(batchlevels, on)
  BY DEF Inv, SettledInv, StatementOnRecord
<1>7. \A S, D : Fails(batchlevels, S, D) =>
        /\ \A x : uses_db(batchlevels', x) <=> uses_db(batchlevels, x)
        /\ \A c \in Conn : Held(pending'[c]) => Held(pending[c]) /\ c \notin S \cup D
  BY <1>1, FailsIs
<1>8. CASE \E effect \in SqlEffects : RunSql(effect)
  <2>1. PICK effect \in SqlEffects : RunSql(effect)
    BY <1>8
  <2>2. Holding(current_db) \in Pending
        /\ \A x \in Conn : Held(Holding(current_db)[x]) =>
             Held(pending[x]) \/ (x = current_db /\ autocommit[current_db])
    BY <1>1, HoldingIs
  <2>3. \A x \in Conn : Held(pending'[x]) =>
          Held(pending[x]) \/ (x = current_db /\ autocommit[current_db])
    BY <1>1, <2>1, <2>2, SettleOwn DEF RunSql, Untouched, SqlEffects
  <2>4. batchlevels' = using_db(batchlevels, current_db) /\ pc = "ready"
        /\ pc' = "ran" /\ on' = current_db /\ KeepSettings
    BY <2>1 DEF RunSql, Runs
  <2>5. QED
    BY <1>1, <1>5, <2>3, <2>4, UsingDb, During DEF Interruption
<1>9. CASE \E c \in Conn : InsertRows(c) \/ Load(c)
  <2>1. PICK c \in Conn : InsertRows(c) \/ Load(c)
    BY <1>9
  <2>2. Holding(c) \in Pending
        /\ \A x \in Conn : Held(Holding(c)[x]) => Held(pending[x]) \/ (x = c /\ autocommit[c])
    BY <1>1, HoldingIs
  <2>3. \A x \in Conn : Held(pending'[x]) => Held(pending[x]) \/ (x = c /\ autocommit[c])
    BY <2>1, <2>2, SettleOwn DEF InsertRows, Load, Untouched
  <2>4. /\ pc = "ready" /\ on' = c /\ KeepSettings /\ c \in pool
        /\ \/ pc' = "inserted" /\ batchlevels' = using_db(batchlevels, c)
           \/ pc' = "loaded" /\ batchlevels' = batchlevels
    BY <2>1 DEF InsertRows, Load, Runs
  <2>5. QED
    BY <1>1, <1>5, <2>3, <2>4, UsingDb, During DEF Interruption
<1>10. CASE LoadCommits \/ LoadWrites
  <2>1. /\ pc = "loaded" /\ pc' = pc /\ on' = on /\ KeepSettings
        /\ batchlevels' = batchlevels
    BY <1>10 DEF LoadCommits, LoadWrites, control
  <2>2. on \in pool /\ on \in Conn
    BY <1>4, <1>5, <2>1
  <2>3. Holding(on) \in Pending
        /\ \A x \in Conn : Held(Holding(on)[x]) => Held(pending[x]) \/ (x = on /\ autocommit[on])
    BY <1>1, <2>2, HoldingIs
  <2>4. \A x \in Conn : Held(pending'[x]) => Held(pending[x]) \/ (x = on /\ autocommit[on])
    BY <1>1, <1>10, <2>3, SettleOwn DEF LoadCommits, LoadWrites, Untouched
  <2>5. QED
    BY <2>1, <2>2, <2>4, During DEF Interruption
<1>11. CASE FinishStatement
  <2>1. on \in Conn /\ on \in pool
    BY <1>4, <1>5, <1>11 DEF FinishStatement
  <2>2. \A c \in Conn : Held(pending'[c]) => Held(pending[c]) /\ (c = on => Holds(on))
    BY <1>1, <1>11, SettleOwn DEF FinishStatement
  <2>3. \A c \in Conn : Held(pending'[c]) => uses_db(batchlevels, c)
    BY <1>2, <1>3, <1>6, <1>11, <2>1, <2>2 DEF FinishStatement, Holds
  <2>4. batchlevels' = batchlevels /\ KeepSettings /\ on' = "none" /\ pc' = "ready" /\ pc # "over"
    BY <1>11 DEF FinishStatement, CarriesOn, Goes
  <2>5. QED
    BY <2>2, <2>3, <2>4, Between
<1>12. CASE FinishLoad
  <2>1. on \in Conn
    BY <1>4, <1>5, <1>12 DEF FinishLoad
  <2>2. \A c \in Conn : Held(pending'[c]) => Held(pending[c]) /\ c # on
    BY <1>1, <1>3, <1>12, <2>1, SettleOwn DEF FinishLoad, Managed
  <2>3. batchlevels' = batchlevels /\ KeepSettings /\ on' = "none" /\ pc' = "ready" /\ pc = "loaded"
    BY <1>12 DEF FinishLoad, CarriesOn, Goes
  <2>4. QED
    BY <1>2, <2>2, <2>3, Between
<1>13. CASE FailStatement \/ FailLoad \/ FailMetacommand
  <2>1. PICK D : /\ Fails(batchlevels, {}, D)
                 /\ on # "none" => on \in D
    BY <1>5, <1>13 DEF FailStatement, FailLoad, FailMetacommand
  <2>2. /\ KeepSettings /\ on' = "none" /\ pc' # "over"
        /\ pc \notin {"raised", "over"}
    BY <1>13 DEF FailStatement, FailLoad, FailMetacommand, CarriesOn, Halts, Goes, Raises
  <2>3. QED
    BY <1>2, <1>4, <1>7, <2>1, <2>2, Between
<1>14. CASE FailLoadAfterCreate
  <2> DEFINE lost == {c \in {on} : ~uses_db(batchlevels, c)}
             p == LeftBehind(pending, lost, "torn")
             q == IF in_batch(batchlevels) THEN Condemned(p) ELSE p
  <2>1. p \in Pending /\ \A c \in Conn : Held(p[c]) <=> Held(pending[c]) /\ c \notin lost
    BY <1>1, LeftBehindIs
  <2>2. q \in Pending /\ \A c \in Conn : Held(q[c]) <=> Held(p[c])
    BY <2>1, CondemnedIs
  <2>7. Settle(q, {}, {})
    BY <1>14 DEF FailLoadAfterCreate, Untouched
  <2> HIDE DEF q
  <2>3. \A c \in Conn : Held(pending'[c]) => Held(pending[c]) /\ c \notin lost
    BY <2>1, <2>2, <2>7, SettleOwn
  <2>4. \A x : uses_db(batchlevels', x) <=> uses_db(batchlevels, x)
    BY <1>1, <1>14, FailEnclosing DEF FailLoadAfterCreate
  <2>5. KeepSettings /\ on' = "none" /\ pc' # "over" /\ pc = "loaded"
    BY <1>14 DEF FailLoadAfterCreate, CarriesOn, Halts, Goes, Raises
  <2>6. QED
    BY <1>2, <2>3, <2>4, <2>5, Between
<1>15. CASE RaiseError
  <2>1. /\ KeepSettings /\ on' = "none" /\ pc' = "raised" /\ pc = "ready"
    BY <1>15 DEF RaiseError, Raises
  <2>2. CASE \E D : Fails(batchlevels, {}, D)
    BY <1>2, <1>5, <1>7, <2>1, <2>2, Between
  <2>3. CASE /\ \/ batchlevels' = batchlevels
                \/ batchlevels' = using_db(batchlevels, current_db)
             /\ Untouched(Condemned(pending))
    <3>1. \A c \in Conn : Held(pending'[c]) => Held(pending[c])
      BY <1>1, <2>3, CondemnedIs, SettleOwn DEF Untouched
    <3>2. \A x : uses_db(batchlevels, x) => uses_db(batchlevels', x)
      BY <1>1, <2>3, UsingDb
    <3>3. \A x \in Conn : uses_db(batchlevels', x) => x \in pool
      BY <1>1, <2>1, <2>3, UsingDb DEF Inv, SettledInv, UsedConnectionsStayOpen
    <3>4. NothingOrphaned'
      BY <1>2, <1>5, <2>1, <3>1, <3>2 DEF NothingOrphaned, Held
    <3>5. UsedConnectionsStayOpen' /\ OwnWorkIsManaged'
      BY <2>1, <3>1, <3>3 DEF Inv, SettledInv, UsedConnectionsStayOpen, OwnWorkIsManaged, Held,
         KeepSettings
    <3>6. StatementOnRecord'
      BY <2>1 DEF StatementOnRecord
    <3>7. QED
      BY <3>4, <3>5, <3>6 DEF SettledInv
  <2>4. QED
    BY <1>15, <2>2, <2>3 DEF RaiseError
<1>16. QED
  BY <1>8, <1>9, <1>10, <1>11, <1>12, <1>13, <1>14, <1>15 DEF Statement

(* AUTOCOMMIT, USE, CONNECT and DISCONNECT. *)
LEMMA SettingStep ==
  ASSUME Inv, TypeOK', Setting
  PROVE  SettledInv'
<1> USE TransactionsAssumption, ConnAssumption
<1>1. /\ pending \in Pending /\ batchlevels \in Stack
      /\ pool \subseteq Conn /\ current_db \in Conn /\ autocommit \in [Conn -> BOOLEAN]
  BY DEF Inv, TypeOK, ConnTypeOK, BatchTypeOK, Pending, Stack
<1>2. pc = "ready" /\ on = "none" /\ on' = "none" /\ pc' \notin {"over", "ran", "inserted"}
  BY DEF Inv, TypeOK, Setting, AutocommitOn, AutocommitOff, Use, Connect, Disconnect,
     CarriesOn, Halts, Goes, Raises
<1>3. \A c \in Conn : Held(pending[c]) => uses_db(batchlevels, c) /\ autocommit[c] /\ c \in pool
  BY <1>2 DEF Inv, SettledInv, NothingOrphaned, Held, Interruption, OwnWorkIsManaged
<1>4. /\ {Initial, current_db} \subseteq pool
      /\ \A c \in Conn : uses_db(batchlevels, c) => c \in pool
  BY <1>2 DEF Inv, SettledInv, UsedConnectionsStayOpen
<1>5. SUFFICES /\ {Initial, current_db'} \subseteq pool'
               /\ \A c \in Conn : uses_db(batchlevels', c) <=> uses_db(batchlevels, c)
               /\ \A c \in Conn : uses_db(batchlevels, c) => c \in pool'
               /\ \A c \in Conn : Held(pending'[c]) =>
                    Held(pending[c]) /\ autocommit'[c]
  BY <1>2, <1>3 DEF SettledInv, NothingOrphaned, Held, UsedConnectionsStayOpen, OwnWorkIsManaged,
     StatementOnRecord
<1>6. CASE AutocommitOn
  <2>1. UNCHANGED <<pool, current_db>> /\ \A c \in Conn : autocommit[c] => autocommit'[c]
    BY <1>1, <1>6 DEF AutocommitOn
  <2>2. CASE \E D : Fails(batchlevels, {}, D)
    BY <1>1, <1>3, <1>4, <2>1, <2>2, FailsIs
  <2>3. CASE batchlevels' = batchlevels /\ \E S, D : Settle(pending, S, D)
    BY <1>1, <1>3, <1>4, <2>1, <2>3, SettleOwn
  <2>4. QED
    BY <1>6, <2>2, <2>3 DEF AutocommitOn, Untouched
<1>7. CASE AutocommitOff
  <2> DEFINE p == [pending EXCEPT ![current_db] =
                     IF pending[current_db] = {} THEN {} ELSE {"other"}]
  <2>1. p \in Pending /\ \A c \in Conn : Held(p[c]) => Held(pending[c]) /\ c # current_db
    BY <1>1 DEF Pending, Mark, Held, Own, Left
  <2>2. /\ autocommit' = [autocommit EXCEPT ![current_db] = FALSE]
        /\ Settle(p, {}, {}) /\ UNCHANGED <<pool, current_db, batchlevels>>
    BY <1>7 DEF AutocommitOff, AutocommitTurnedOff, Untouched
  <2>3. \A c \in Conn : Held(pending'[c]) => Held(pending[c]) /\ c # current_db
    BY <2>1, <2>2, SettleOwn
  <2>4. QED
    BY <1>1, <1>3, <1>4, <2>2, <2>3
<1>8. CASE \E c \in Conn : Use(c)
  BY <1>1, <1>3, <1>4, <1>8, SettleOwn DEF Use, MadeCurrent, Untouched
<1>9. CASE \E c \in Conn : Connect(c)
  <2>1. PICK c \in Conn : Connect(c)
    BY <1>9
  <2>2. /\ pool' = pool \cup {c} /\ autocommit' = [autocommit EXCEPT ![c] = TRUE]
        /\ Settle(pending, {}, {c}) /\ UNCHANGED <<current_db, batchlevels>>
    BY <2>1 DEF Connect, Connected
  <2>3. \A x \in Conn : Held(pending'[x]) => Held(pending[x])
    BY <1>1, <2>2, SettleOwn
  <2>4. QED
    BY <1>1, <1>3, <1>4, <2>2, <2>3
<1>10. CASE \E c \in Conn : Disconnect(c)
  <2>1. PICK c \in Conn : Disconnect(c)
    BY <1>10
  <2>2. /\ pool' = pool \ {c} /\ autocommit' = [autocommit EXCEPT ![c] = TRUE]
        /\ current_db' = IF c = current_db THEN Initial ELSE current_db
        /\ c # Initial /\ ~uses_db(batchlevels, c)
        /\ Settle(pending, {}, {c}) /\ UNCHANGED batchlevels
    BY <2>1 DEF Disconnect, Disconnected
  <2>3. \A x \in Conn : Held(pending'[x]) => Held(pending[x])
    BY <1>1, <2>2, SettleOwn
  <2>4. QED
    BY <1>1, <1>3, <1>4, <2>2, <2>3
<1>11. QED
  BY <1>6, <1>7, <1>8, <1>9, <1>10 DEF Setting

(* BEGIN BATCH, ROLLBACK BATCH and the ways END BATCH ends. *)
LEMMA BatchStep ==
  ASSUME Inv, TypeOK', Batch
  PROVE  SettledInv'
<1>1. /\ pending \in Pending /\ batchlevels \in Stack
  BY DEF Inv, TypeOK, ConnTypeOK, BatchTypeOK, Pending, Stack
<1>2. pc = "ready" /\ on = "none" /\ on' = "none" /\ pc' # "over" /\ KeepSettings
  BY DEF Inv, TypeOK, Batch, BeginBatch, RollbackBatch, CommitBatch, RefuseBatch,
     FailCommitBatch, AtEndBatch, EndsWithError, CarriesOn, Halts, Goes, Raises
<1>3. \A c \in Conn : Held(pending[c]) => uses_db(batchlevels, c) /\ autocommit[c]
  BY <1>2, TransactionsAssumption
     DEF Inv, SettledInv, NothingOrphaned, Held, Interruption, OwnWorkIsManaged
<1>4. SUFFICES /\ \A c \in Conn : Held(pending'[c]) =>
                    Held(pending[c]) /\ uses_db(batchlevels', c)
               /\ \A c \in Conn : uses_db(batchlevels', c) => uses_db(batchlevels, c)
  BY <1>2, Between
<1>5. CASE BeginBatch \/ RollbackBatch
  BY <1>1, <1>3, <1>5, SettleOwn, NewBatch DEF BeginBatch, RollbackBatch, Untouched
<1>6. CASE CommitBatch
  <2>1. CASE in_batch(batchlevels)
    <3>1. /\ Settle(pending, Managed(Innermost.dbs_used), {})
          /\ batchlevels' = Shorter(batchlevels, Len(batchlevels))
      BY <1>6, <2>1 DEF CommitBatch, Pops
    <3>2. \A c \in Conn : Held(pending'[c]) => Held(pending[c]) /\ c \notin Innermost.dbs_used
      BY <1>1, <1>3, <3>1, SettleOwn DEF Managed
    <3>3. QED
      BY <1>1, <1>3, <2>1, <3>1, <3>2, PopInnermost DEF Innermost
  <2>2. CASE ~in_batch(batchlevels)
    BY <1>1, <1>3, <1>6, <2>2, SettleOwn DEF CommitBatch, Untouched
  <2>3. QED
    BY <2>1, <2>2
<1>7. CASE RefuseBatch
  <2> DEFINE n == Len(batchlevels)
             L == abandon_to(batchlevels, n)
  <2>1. n \in Nat \ {0}
    BY <1>1, <1>7, StackIs DEF RefuseBatch, failure
  <2>2. /\ L \in Stack
        /\ \A x : uses_db(L, x) => uses_db(batchlevels, x)
        /\ \A x : uses_db(batchlevels, x) => uses_db(L, x) \/ x \in Orphans(batchlevels, n)
    BY <1>1, <2>1, AbandonTo
  <2>3. Fails(L, {}, Managed(Orphans(batchlevels, n)))
    BY <1>7 DEF RefuseBatch
  <2>4. /\ \A x : uses_db(batchlevels', x) <=> uses_db(L, x)
        /\ \A c \in Conn : Held(pending'[c]) =>
             Held(pending[c]) /\ c \notin Managed(Orphans(batchlevels, n))
    BY <1>1, <2>2, <2>3, FailsIs
  <2>5. QED
    BY <1>3, <2>2, <2>4 DEF Managed
<1>8. CASE FailCommitBatch
  <2> DEFINE used == Managed(Innermost.dbs_used)
             L == Shorter(batchlevels, Len(batchlevels))
  <2>1. PICK S \in SUBSET used : Fails(L, S, used \ S)
    BY <1>8 DEF FailCommitBatch
  <2>2. /\ L \in Stack
        /\ \A x : uses_db(L, x) => uses_db(batchlevels, x)
        /\ \A x : uses_db(batchlevels, x) => uses_db(L, x) \/ x \in Innermost.dbs_used
    BY <1>1, <1>8, PopInnermost DEF FailCommitBatch, Innermost
  <2>3. /\ \A x : uses_db(batchlevels', x) <=> uses_db(L, x)
        /\ \A c \in Conn : Held(pending'[c]) => Held(pending[c]) /\ c \notin used
    BY <1>1, <2>1, <2>2, FailsIs
  <2>4. QED
    BY <1>3, <2>2, <2>3 DEF Managed
<1>9. QED
  BY <1>5, <1>6, <1>7, <1>8 DEF Batch

(* BREAK, halts, prompts, unwinding and the end of the run. *)
LEMMA LeavingStep ==
  ASSUME Inv, TypeOK', Leaving
  PROVE  SettledInv'
<1>1. /\ pending \in Pending /\ batchlevels \in Stack /\ pool \subseteq Conn
      /\ frames \in Seq(Frame)
      /\ (on = "none") <=> (pc \notin {"ran", "inserted", "loaded"})
  BY DEF Inv, TypeOK, ConnTypeOK, BatchTypeOK, Pending, Stack
<1>2. /\ pc \in {"ready", "halting", "raised"} /\ on = "none" /\ on' = "none"
  BY <1>1, TransactionsAssumption
     DEF Leaving, Break, BreakCaught, Halt, Quit, OpenInput, CloseInput, ExitNow, EndHaltScript,
     UnwindBatch, ErrorAtPrompt, InterruptAtPrompt, UnwindOther, ErrorAtTop, EndRun,
     Interruption, BackAtPrompt, CarriesOn, Goes, Raises
<1>3. \A c \in Conn : Held(pending[c]) =>
        /\ uses_db(batchlevels, c) \/ Interruption
        /\ autocommit[c] /\ c \in pool
  BY <1>2, TransactionsAssumption
     DEF Inv, SettledInv, NothingOrphaned, Held, OwnWorkIsManaged
<1>4. CASE EndRun
  <2> DEFINE after == IF Interruption THEN Managed(pool \cap Borrowed) ELSE {}
  <2>1. PICK C \in SUBSET after :
          Settle(LeftBehind(pending, C, "cut"), {}, ClosedAll \cup (after \ C))
    BY <1>4 DEF EndRun, RolledBackAfterInterrupt
  <2>2. /\ LeftBehind(pending, C, "cut") \in Pending
        /\ \A c \in Conn :
             Held(LeftBehind(pending, C, "cut")[c]) <=> Held(pending[c]) /\ c \notin C
    BY <1>1, LeftBehindIs
  <2>3. \A c \in Conn : Held(pending'[c]) => Held(pending[c]) /\ c \in Borrowed /\ c \notin after
    <3>1. \A c \in Conn : Held(pending'[c]) =>
            Held(LeftBehind(pending, C, "cut")[c]) /\ c \notin ClosedAll \cup (after \ C)
      BY <2>1, <2>2, SettleOwn
    <3> HIDE DEF after
    <3>2. QED
      BY <2>2, <3>1 DEF ClosedAll
  <2>4. \A c \in Conn : Held(pending'[c]) => Held(pending[c]) /\ ~Interruption
    BY <1>3, <2>3 DEF Managed
  <2>5. UNCHANGED <<autocommit, batchlevels>> /\ pc' = "over" /\ on' = "none"
    BY <1>4 DEF EndRun, Goes
  <2>6. NothingOrphaned' /\ OwnWorkIsManaged'
    BY <1>3, <2>4, <2>5 DEF NothingOrphaned, Held, OwnWorkIsManaged
  <2>7. UsedConnectionsStayOpen' /\ StatementOnRecord'
    BY <2>5 DEF UsedConnectionsStayOpen, StatementOnRecord
  <2>8. QED
    BY <2>6, <2>7 DEF SettledInv
<1>5. CASE Break \/ BreakCaught \/ Halt \/ Quit \/ OpenInput \/ CloseInput \/ EndHaltScript
           \/ UnwindOther \/ ErrorAtTop
  <2>1. Untouched(pending) /\ KeepSettings /\ batchlevels' = batchlevels /\ pc' # "over"
        /\ (Interruption => Interruption')
    BY <1>2, <1>5 DEF Break, BreakCaught, Halt, Quit, OpenInput, CloseInput, EndHaltScript,
       UnwindOther, ErrorAtTop, CarriesOn, Goes, Raises, Interruption
  <2>2. \A c \in Conn : Held(pending'[c]) => Held(pending[c])
    BY <1>1, <2>1, SettleOwn DEF Untouched
  <2>3. QED
    BY <1>2, <1>3, <2>1, <2>2, Between
<1>6. ASSUME NEW d \in Nat \ {0},
             batchlevels' = abandon_to(batchlevels, d),
             Settle(pending, {}, Managed(Orphans(batchlevels, d))),
             KeepSettings, pc' # "over", Interruption => Interruption'
      PROVE  SettledInv'
  <2>1. /\ \A x : uses_db(batchlevels', x) => uses_db(batchlevels, x)
        /\ \A x : uses_db(batchlevels, x) =>
             uses_db(batchlevels', x) \/ x \in Orphans(batchlevels, d)
    BY <1>1, <1>6, AbandonTo
  <2>2. \A c \in Conn : Held(pending'[c]) =>
          Held(pending[c]) /\ c \notin Managed(Orphans(batchlevels, d))
    BY <1>1, <1>6, SettleOwn
  <2>3. \A c \in Conn : Held(pending'[c]) =>
          Held(pending[c]) /\ (uses_db(batchlevels', c) \/ Interruption')
    BY <1>3, <1>6, <2>1, <2>2 DEF Managed
  <2>4. QED
    BY <1>2, <1>6, <2>1, <2>3, Between
<1>7. CASE ExitNow
  <2>1. abandon_to(batchlevels, 1) = <<>>
    BY <1>1, StackIs, EmptySeq DEF abandon_to, in_batch
  <2>2. QED
    BY <1>6, <1>7, <2>1 DEF ExitNow, Pops, Goes, Raises, Interruption
<1>8. CASE UnwindBatch
  <2>1. Top.level \in Nat \ {0}
    BY <1>1, <1>8, TopIsFrame DEF UnwindBatch, TopIs
  <2>2. QED
    BY <1>6, <1>8, <2>1 DEF UnwindBatch, Pops, Interruption
<1>9. CASE ErrorAtPrompt
  <2>1. Fails(batchlevels, {}, {}) /\ KeepSettings /\ ~Interruption /\ pc' # "over"
    BY <1>9 DEF ErrorAtPrompt, BackAtPrompt, Goes, Interruption
  <2>2. QED
    BY <1>1, <1>2, <1>3, <2>1, FailsIs, Between
<1>10. CASE InterruptAtPrompt
  <2>1. PICK C \in SUBSET Managed(pool) :
          Settle(LeftBehind(Condemned(pending), C, "cut"), {}, Managed(pool) \ C)
    <3>1. \A D : {} \cup D = D
      OBVIOUS
    <3>2. QED
      BY <1>10, <3>1 DEF InterruptAtPrompt, RolledBackAfterInterrupt
  <2> DEFINE p == Condemned(pending)
  <2>2. p \in Pending /\ \A c \in Conn : Held(p[c]) <=> Held(pending[c])
    BY <1>1, CondemnedIs
  <2>3. /\ LeftBehind(p, C, "cut") \in Pending
        /\ \A c \in Conn : Held(LeftBehind(p, C, "cut")[c]) <=> Held(p[c]) /\ c \notin C
    BY <2>2, LeftBehindIs
  <2>4. \A c \in Conn : ~Held(pending'[c])
    BY <1>3, <2>1, <2>2, <2>3, SettleOwn DEF Managed
  <2>5. \A x : uses_db(batchlevels', x) <=> uses_db(batchlevels, x)
    BY <1>1, <1>10, FailEnclosing DEF InterruptAtPrompt
  <2>6. KeepSettings /\ pc' # "over"
    BY <1>2, <1>10 DEF InterruptAtPrompt, BackAtPrompt, Goes, Raises
  <2>7. QED
    BY <1>2, <2>4, <2>5, <2>6, Between
<1>11. QED
  BY <1>4, <1>5, <1>7, <1>8, <1>9, <1>10 DEF Leaving

(* Signals. *)
LEMMA SignalStep ==
  ASSUME Inv, TypeOK', Signal
  PROVE  SettledInv'
<1>1. /\ pending \in Pending /\ batchlevels \in Stack /\ frames \in Seq(Frame)
  BY DEF Inv, TypeOK, ConnTypeOK, BatchTypeOK, Pending, Stack
<1>2. \A i \in Interrupts : Raises(i) => Interruption' /\ on' = "none" /\ pc' # "over"
  BY TransactionsAssumption DEF Raises, Interruption
<1>3. SUFFICES ASSUME KeepSettings, pc # "over", \E i \in Interrupts : Raises(i)
               PROVE  /\ \A c \in Conn : Held(pending'[c]) => Held(pending[c])
                      /\ \A c \in Conn : uses_db(batchlevels', c) => uses_db(batchlevels, c)
  <2>1. KeepSettings /\ pc # "over" /\ \E i \in Interrupts : Raises(i)
    BY DEF Signal, InterruptCommitBatch, Interrupt, InterruptStatement, InterruptMetacommand,
       InterruptExit, InterruptUnwind, AbandonInterrupted, Interrupted, AtEndBatch
  <2>2. QED
    BY <1>2, <1>3, <2>1, Between
<1>4. \A L \in Stack : \A S, D : Fails(L, S, D) =>
        /\ \A x : uses_db(batchlevels', x) <=> uses_db(L, x)
        /\ \A c \in Conn : Held(pending'[c]) => Held(pending[c])
  BY <1>1, FailsIs
<1>5. CASE InterruptCommitBatch
  <2>1. /\ Shorter(batchlevels, Len(batchlevels)) \in Stack
        /\ \A x : uses_db(Shorter(batchlevels, Len(batchlevels)), x) => uses_db(batchlevels, x)
    BY <1>1, <1>5, PopInnermost DEF InterruptCommitBatch
  <2>2. QED
    BY <1>4, <1>5, <2>1 DEF InterruptCommitBatch, Interrupted
<1>6. CASE InterruptStatement \/ InterruptMetacommand
  BY <1>1, <1>4, <1>6 DEF InterruptStatement, InterruptMetacommand, Interrupted
<1>7. \A S, D : Settle(Condemned(pending), S, D) =>
        \A c \in Conn : Held(pending'[c]) => Held(pending[c])
  BY <1>1, CondemnedIs, SettleOwn
<1>8. CASE Interrupt
  BY <1>7, <1>8 DEF Interrupt, Untouched
<1>9. ASSUME NEW d \in Nat \ {0}, AbandonInterrupted(d)
      PROVE  /\ \A c \in Conn : Held(pending'[c]) => Held(pending[c])
             /\ \A c \in Conn : uses_db(batchlevels', c) => uses_db(batchlevels, c)
  <2>1. PICK k \in d .. Len(batchlevels) + 1 :
          /\ batchlevels' = abandon_to(batchlevels, k)
          /\ \E R \in SUBSET Managed(Orphans(batchlevels, k)) :
               Settle(Condemned(pending), {}, R)
    BY <1>9 DEF AbandonInterrupted
  <2>2. k \in Nat \ {0}
    BY <1>1, StackIs
  <2>3. QED
    BY <1>1, <1>7, <2>1, <2>2, AbandonTo
<1>10. CASE InterruptExit
  BY <1>9, <1>10 DEF InterruptExit
<1>11. CASE InterruptUnwind
  BY <1>1, <1>9, <1>11, TopIsFrame DEF InterruptUnwind, TopIs
<1>12. QED
  BY <1>5, <1>6, <1>8, <1>10, <1>11 DEF Signal

(* The invariant is inductive. *)
LEMMA InvInductive ==
  Spec => []Inv
<1>1. Init => SettledInv
  <2> SUFFICES ASSUME Init PROVE SettledInv
    OBVIOUS
  <2>1. /\ \A c \in Conn : pending[c] = {}
        /\ batchlevels = <<>> /\ pool = {Initial} /\ current_db = Initial
        /\ on = "none" /\ pc = "ready"
    BY DEF Init, ConnInit, BatchInit
  <2>2. \A c : ~uses_db(batchlevels, c)
    <3>1. DOMAIN batchlevels = {}
      BY <2>1
    <3>2. QED
      BY <3>1 DEF uses_db
  <2>3. QED
    BY <2>1, <2>2 DEF SettledInv, NothingOrphaned, UsedConnectionsStayOpen,
       OwnWorkIsManaged, StatementOnRecord, Held, Own, Left
<1>2. Inv /\ TypeOK' /\ [Next]_vars => SettledInv'
  <2>1. ASSUME Inv, TypeOK', Next PROVE SettledInv'
    <3>1. CASE Done
      BY <2>1, <3>1 DEF Done, vars, connVars, control, Inv, SettledInv, NothingOrphaned, Held,
         UsedConnectionsStayOpen, OwnWorkIsManaged, StatementOnRecord, Interruption
    <3>2. QED
      BY <2>1, <3>1, StatementStep, SettingStep, BatchStep, LeavingStep, SignalStep DEF Next
  <2>2. ASSUME Inv, UNCHANGED vars PROVE SettledInv'
    BY <2>2 DEF vars, connVars, control, Inv, SettledInv, NothingOrphaned, Held,
       UsedConnectionsStayOpen, OwnWorkIsManaged, StatementOnRecord, Interruption
  <2>3. QED
    BY <2>1, <2>2
<1>3. QED
  BY <1>1, <1>2, TypeCorrect, PTL DEF Spec, Inv

(* Execsql's uncommitted work, the connections of open batches and the
   statement that is running are always settled as SettledInv says. *)
THEOREM SettledAlways == Spec => []SettledInv
<1>1. Inv => SettledInv
  BY DEF Inv
<1>2. QED
  BY <1>1, InvInductive, PTL

(* However statements succeed, fail or are interrupted, between two statements
   execsql's uncommitted work is only on connections an open batch will settle. *)
THEOREM OrphanFree == Spec => []NothingOrphaned
<1>1. Inv => NothingOrphaned
  BY DEF Inv, SettledInv
<1>2. QED
  BY <1>1, InvInductive, PTL

(* The connection in use, the first one and those an open batch has to settle
   are connected in every state of a run. *)
THEOREM ConnectionsStayOpen == Spec => []UsedConnectionsStayOpen
<1>1. Inv => UsedConnectionsStayOpen
  BY DEF Inv, SettledInv
<1>2. QED
  BY <1>1, InvInductive, PTL

-----------------------------------------------------------------------------
(***************************************************************************)
(* Theorems about Transactions in which only SIGTERM interrupts: every     *)
(* level of the stack of batches is of a BEGIN BATCH that is being         *)
(* executed, and so the caller of execsql.run gets a clean connection.     *)
(* (Ctrl-C at a prompt may leave a level behind.)                          *)
(***************************************************************************)

IsBatch(i) == i \in DOMAIN frames /\ frames[i].kind = "batch"

(* Every level has the frame that opened it, and the frames of batches above that
   one have deeper levels. *)
Covered(n) ==
  \E i \in DOMAIN frames :
    /\ IsBatch(i) /\ frames[i].level = n
    /\ \A j \in DOMAIN frames : j > i /\ IsBatch(j) => frames[j].level > n

LevelsCovered == \A n \in 1 .. Len(batchlevels) : Covered(n)

(* While SIGTERM's exception unwinds, levels may be left that no frame will pop. *)
CoverInv == Interruption \/ pc = "over" \/ LevelsCovered

LevelsInv == Inv /\ CoverInv

NoCtrlC == exc # "ctrlc"

(* How many levels the operations on the stack leave. *)
LEMMA UsingLen ==
  ASSUME NEW L \in Stack, NEW c
  PROVE  Len(using_db(L, c)) = Len(L)
<1>1. DOMAIN using_db(L, c) = DOMAIN L /\ DOMAIN L = 1 .. Len(L) /\ Len(L) \in Nat
  BY StackIs DEF using_db
<1>2. QED
  BY <1>1 DEF using_db, Stack

LEMMA AbandonLen ==
  ASSUME NEW L \in Stack, NEW d \in Nat \ {0}
  PROVE  Len(abandon_to(L, d)) \in Nat /\ Len(abandon_to(L, d)) < d
         /\ Len(abandon_to(L, d)) <= Len(L)
<1>1. Len(L) \in Nat
  BY StackIs
<1>2. CASE d > Len(L)
  BY <1>1, <1>2 DEF abandon_to
<1>3. CASE d <= Len(L) /\ d = 1
  BY <1>1, <1>3, EmptySeq DEF abandon_to
<1>4. CASE d <= Len(L) /\ d # 1
  <2>1. d \in 1 .. Len(L) /\ Shorter(L, d) \in Stack /\ Len(Shorter(L, d)) = d - 1
    BY <1>1, <1>4, ShorterIs
  <2> DEFINE O == Shorter(L, d)
             M == [O EXCEPT ![d - 1].dbs_used = @ \cup UsedFrom(L, d)]
  <2>2. abandon_to(L, d) = M
    BY <1>1, <1>4 DEF abandon_to
  <2>3. Len(M) = Len(O)
    <3> HIDE DEF O
    <3>1. O \in Stack
      BY <2>1 DEF O
    <3>2. QED
      BY <3>1 DEF Stack
  <2>4. QED
    BY <1>1, <1>4, <2>1, <2>2, <2>3
<1>5. QED
  BY <1>1, <1>2, <1>3, <1>4

(* The frames stay, and no level is added. *)
LEMMA SameFrames ==
  ASSUME LevelsCovered, frames' = frames, batchlevels \in Stack,
         Len(batchlevels') \in Nat, Len(batchlevels') <= Len(batchlevels)
  PROVE  LevelsCovered'
<1>1. Len(batchlevels) \in Nat
  BY StackIs
<1>2. QED
  BY <1>1 DEF LevelsCovered, Covered, IsBatch

(* A prompt or a halt script is entered. *)
LEMMA OtherPushed ==
  ASSUME LevelsCovered, frames \in Seq(Frame), batchlevels \in Stack,
         NEW kind \in {"input", "deferred"}, Pushed(kind, 0),
         Len(batchlevels') \in Nat, Len(batchlevels') <= Len(batchlevels)
  PROVE  LevelsCovered'
<1> DEFINE f == [kind |-> kind, level |-> 0]
<1>1. Len(batchlevels) \in Nat /\ f \in Frame /\ frames' = Append(frames, f)
  BY StackIs DEF Pushed, Frame
<1>2. /\ Len(frames) \in Nat /\ Len(frames') = Len(frames) + 1
      /\ \A i \in 1 .. Len(frames) : frames'[i] = frames[i]
      /\ frames'[Len(frames) + 1] = f
      /\ DOMAIN frames = 1 .. Len(frames) /\ DOMAIN frames' = 1 .. Len(frames) + 1
  BY <1>1, AppendProperties, LenProperties
<1>3. \A j \in DOMAIN frames' : IsBatch(j)' => j \in DOMAIN frames /\ IsBatch(j) /\ frames'[j] = frames[j]
  BY <1>2 DEF IsBatch
<1>4. ASSUME NEW n \in 1 .. Len(batchlevels)'
      PROVE  Covered(n)'
  <2>1. Covered(n)
    BY <1>1, <1>4 DEF LevelsCovered
  <2>2. QED
    BY <1>2, <1>3, <2>1 DEF Covered, IsBatch
<1>5. QED
  BY <1>4 DEF LevelsCovered

(* What leaving the frame on top leaves. *)
LEMMA AfterPop ==
  ASSUME frames \in Seq(Frame), frames # <<>>, Popped
  PROVE  /\ Len(frames) \in Nat \ {0} /\ DOMAIN frames = 1 .. Len(frames)
         /\ DOMAIN frames' = 1 .. Len(frames) - 1
         /\ \A i \in DOMAIN frames' : frames'[i] = frames[i]
<1>1. Len(frames) \in Nat \ {0} /\ DOMAIN frames = 1 .. Len(frames)
      /\ \A i \in 1 .. Len(frames) - 1 : frames[i] \in Frame
  BY LenProperties, EmptySeq
<1>2. /\ frames' \in Seq(Frame)
      /\ Len(frames') = IF 1 <= Len(frames) - 1 THEN Len(frames) - 1 - 1 + 1 ELSE 0
      /\ \A i \in 1 .. Len(frames) - 1 - 1 + 1 : frames'[i] = frames[1 + i - 1]
  BY <1>1, SubSeqProperties DEF Popped
<1>3. Len(frames') = Len(frames) - 1
  <2>1. CASE Len(frames) = 1
    BY <1>2, <2>1
  <2>2. CASE Len(frames) # 1
    <3>1. Len(frames) \in Nat /\ 1 <= Len(frames) - 1
      BY <1>1, <2>2
    <3>2. Len(frames') = Len(frames) - 1 - 1 + 1
      BY <1>2, <3>1
    <3>3. QED
      BY <3>1, <3>2
  <2>3. QED
    BY <2>1, <2>2
<1>4. DOMAIN frames' = 1 .. Len(frames')
  BY <1>2, LenProperties
<1>5. ASSUME NEW i \in 1 .. Len(frames) - 1 PROVE frames'[i] = frames[i]
  <2>1. i \in Int /\ i \in 1 .. Len(frames) - 1 - 1 + 1 /\ 1 + i - 1 = i
    BY <1>1, <1>5
  <2>2. frames'[i] = frames[1 + i - 1]
    BY <1>2, <2>1
  <2>3. QED
    BY <2>1, <2>2
<1>6. QED
  BY <1>1, <1>3, <1>4, <1>5

(* A prompt or a halt script is left. *)
LEMMA OtherPopped ==
  ASSUME LevelsCovered, frames \in Seq(Frame), batchlevels \in Stack,
         frames # <<>>, Top.kind # "batch", Popped,
         Len(batchlevels') \in Nat, Len(batchlevels') <= Len(batchlevels)
  PROVE  LevelsCovered'
<1>1. /\ Len(batchlevels) \in Nat
      /\ Len(frames) \in Nat \ {0} /\ DOMAIN frames = 1 .. Len(frames)
      /\ DOMAIN frames' = 1 .. Len(frames) - 1
      /\ \A i \in DOMAIN frames' : frames'[i] = frames[i]
  BY StackIs, AfterPop
<1>2. \A i \in DOMAIN frames : IsBatch(i) => i \in DOMAIN frames'
  BY <1>1 DEF IsBatch, Top
<1>3. ASSUME NEW n \in 1 .. Len(batchlevels)'
      PROVE  Covered(n)'
  <2>1. Covered(n)
    BY <1>1, <1>3 DEF LevelsCovered
  <2>2. QED
    BY <1>1, <1>2, <2>1 DEF Covered, IsBatch
<1>4. QED
  BY <1>3 DEF LevelsCovered

(* A batch's block is left: its level and the deeper ones are gone. *)
LEMMA BatchPopped ==
  ASSUME LevelsCovered, frames \in Seq(Frame), batchlevels \in Stack,
         TopIs("batch"), Popped,
         Len(batchlevels') \in Nat, Len(batchlevels') <= Len(batchlevels),
         Len(batchlevels') < Top.level
  PROVE  LevelsCovered'
<1>1. /\ Len(batchlevels) \in Nat /\ frames # <<>>
      /\ Len(frames) \in Nat \ {0} /\ DOMAIN frames = 1 .. Len(frames)
      /\ DOMAIN frames' = 1 .. Len(frames) - 1
      /\ \A i \in DOMAIN frames' : frames'[i] = frames[i]
      /\ Top.level \in Nat
  BY StackIs, AfterPop, TopIsFrame DEF TopIs
<1>2. ASSUME NEW n \in 1 .. Len(batchlevels)'
      PROVE  Covered(n)'
  <2>1. PICK i \in DOMAIN frames :
          /\ IsBatch(i) /\ frames[i].level = n
          /\ \A j \in DOMAIN frames : j > i /\ IsBatch(j) => frames[j].level > n
    BY <1>1, <1>2 DEF LevelsCovered, Covered
  <2>2. i # Len(frames)
    BY <1>1, <1>2, <2>1 DEF Top
  <2>3. i \in DOMAIN frames'
    BY <1>1, <2>2
  <2>4. QED
    BY <1>1, <2>1, <2>3 DEF Covered, IsBatch
<1>3. QED
  BY <1>2 DEF LevelsCovered

(* At END BATCH the innermost level is not deeper than its frame's. *)
LEMMA InnermostIsTop ==
  ASSUME LevelsCovered, frames \in Seq(Frame), batchlevels \in Stack, TopIs("batch")
  PROVE  Len(batchlevels) \in Nat /\ Top.level \in Nat \ {0} /\ Len(batchlevels) <= Top.level
<1>1. Len(batchlevels) \in Nat /\ frames # <<>> /\ Top.level \in Nat \ {0}
      /\ Len(frames) \in Nat \ {0} /\ DOMAIN frames = 1 .. Len(frames)
  BY StackIs, TopIsFrame, LenProperties, EmptySeq DEF TopIs
<1>2. CASE Len(batchlevels) = 0
  BY <1>1, <1>2
<1>3. CASE Len(batchlevels) # 0
  <2>1. Len(batchlevels) \in 1 .. Len(batchlevels)
    BY <1>1, <1>3
  <2>2. PICK i \in DOMAIN frames :
          /\ IsBatch(i) /\ frames[i].level = Len(batchlevels)
          /\ \A j \in DOMAIN frames : j > i /\ IsBatch(j) => frames[j].level > Len(batchlevels)
    BY <2>1 DEF LevelsCovered, Covered
  <2>3. IsBatch(Len(frames))
    BY <1>1 DEF IsBatch, TopIs, Top
  <2>4. QED
    BY <1>1, <2>2, <2>3 DEF Top
<1>4. QED
  BY <1>2, <1>3

(* A new batch's frame is on top of those of the levels around it. *)
LEMMA BatchPushed ==
  ASSUME LevelsCovered, frames \in Seq(Frame), batchlevels \in Stack,
         Pushed("batch", Len(batchlevels) + 1), batchlevels' = new_batch(batchlevels)
  PROVE  LevelsCovered'
<1> DEFINE f == [kind |-> "batch", level |-> Len(batchlevels) + 1]
<1>1. Len(batchlevels) \in Nat /\ f \in Frame /\ frames' = Append(frames, f)
  BY StackIs DEF Pushed, Frame
<1>2. Len(batchlevels') = Len(batchlevels) + 1
  BY AppendProperties DEF new_batch, Stack, Level
<1>3. PICK k : k = Len(frames) + 1
  OBVIOUS
<1>4. /\ k \in Nat /\ frames'[k] = f
      /\ DOMAIN frames = 1 .. k - 1 /\ DOMAIN frames' = 1 .. k
      /\ \A i \in 1 .. k - 1 : frames'[i] = frames[i]
  BY <1>1, <1>3, AppendProperties, LenProperties
<1>5. \A j \in DOMAIN frames' : j # k =>
        j \in DOMAIN frames /\ frames'[j] = frames[j] /\ (IsBatch(j)' <=> IsBatch(j))
  BY <1>4 DEF IsBatch
<1>6. k \in DOMAIN frames' /\ IsBatch(k)' /\ frames'[k].level = Len(batchlevels) + 1
  BY <1>3, <1>4, LenProperties DEF IsBatch
<1>7. ASSUME NEW n \in 1 .. Len(batchlevels)'
      PROVE  Covered(n)'
  <2>1. CASE n = Len(batchlevels) + 1
    <3>1. \A j \in DOMAIN frames' : ~(j > k)
      BY <1>4
    <3>2. QED
      BY <1>6, <2>1, <3>1 DEF Covered
  <2>2. CASE n # Len(batchlevels) + 1
    <3>1. n \in 1 .. Len(batchlevels)
      BY <1>1, <1>2, <2>2
    <3>2. PICK i \in DOMAIN frames :
            /\ IsBatch(i) /\ frames[i].level = n
            /\ \A j \in DOMAIN frames : j > i /\ IsBatch(j) => frames[j].level > n
      BY <3>1 DEF LevelsCovered, Covered
    <3>3. i \in DOMAIN frames' /\ IsBatch(i)' /\ frames'[i].level = n
      BY <1>4, <1>5, <3>2
    <3>4. frames'[k].level > n
      BY <1>1, <1>6, <3>1
    <3>5. \A j \in DOMAIN frames' : j > i /\ IsBatch(j)' => frames'[j].level > n
      BY <1>5, <3>2, <3>4
    <3>6. QED
      BY <3>3, <3>5 DEF Covered
  <2>3. QED
    BY <2>1, <2>2
<1>8. QED
  BY <1>7 DEF LevelsCovered

(* Every step keeps the levels covered, but a signal's, and the run's last. *)
LEMMA CoverStep ==
  ASSUME Inv, LevelsCovered, ~Interruption, Next, ~Interruption', pc' # "over"
  PROVE  LevelsCovered'
<1>1. /\ frames \in Seq(Frame) /\ batchlevels \in Stack /\ Len(batchlevels) \in Nat
      /\ current_db \in Conn
      /\ on \in Conn \cup {"none"}
      /\ (on = "none") <=> (pc \notin {"ran", "inserted", "loaded"})
  BY StackIs DEF Inv, TypeOK, BatchTypeOK, ConnTypeOK, Stack
<1>3. \A i \in Interrupts : ~Raises(i)
  BY TransactionsAssumption DEF Raises, Interruption
<1>4. \A L \in Stack : \A S, D : Fails(L, S, D) => Len(batchlevels') = Len(L)
  BY FailEnclosing DEF Fails
<1>5. CASE Statement
  <2>1. frames' = frames
    BY <1>5 DEF Statement, RunSql, InsertRows, Load, FinishStatement, FailStatement,
       LoadCommits, LoadWrites, FinishLoad, FailLoad, FailLoadAfterCreate, FailMetacommand, RaiseError,
       Interruption, Runs, CarriesOn, Halts, Goes, Raises, control
  <2>2. Len(batchlevels') = Len(batchlevels)
    <3>1. \A c : Len(using_db(batchlevels, c)) = Len(batchlevels)
      BY <1>1, UsingLen
    <3>2. Len(fail_enclosing(batchlevels)) = Len(batchlevels)
      BY <1>1, FailEnclosing
    <3>3. CASE \/ \E effect \in SqlEffects : RunSql(effect)
               \/ \E c \in Conn : InsertRows(c) \/ Load(c)
      <4>1. batchlevels' = batchlevels \/ \E c : batchlevels' = using_db(batchlevels, c)
        BY <3>3 DEF RunSql, InsertRows, Load
      <4>2. QED
        BY <3>1, <4>1
    <3>4. CASE FinishStatement \/ LoadCommits \/ LoadWrites \/ FinishLoad \/ FailLoadAfterCreate
      BY <3>2, <3>4 DEF FinishStatement, LoadCommits, LoadWrites, FinishLoad, FailLoadAfterCreate
    <3>5. CASE FailStatement \/ FailLoad \/ FailMetacommand
      BY <1>1, <1>4, <3>5 DEF FailStatement, FailLoad, FailMetacommand
    <3>6. CASE RaiseError
      BY <1>1, <1>4, <3>1, <3>6 DEF RaiseError
    <3>7. QED
      BY <1>5, <3>3, <3>4, <3>5, <3>6 DEF Statement
  <2>3. QED
    BY <1>1, <2>1, <2>2, SameFrames
<1>6. CASE Setting
  <2>1. frames' = frames
    BY <1>6 DEF Setting, AutocommitOn, AutocommitOff, Use, Connect, Disconnect,
       Interruption, CarriesOn, Halts, Goes, Raises
  <2>2. Len(batchlevels') = Len(batchlevels)
    BY <1>1, <1>4, <1>6 DEF Setting, AutocommitOn, AutocommitOff, Use, Connect, Disconnect
  <2>3. QED
    BY <1>1, <2>1, <2>2, SameFrames
<1>7. CASE Batch
  <2>2. CASE BeginBatch
    BY <1>1, <2>2, BatchPushed DEF BeginBatch
  <2>3. CASE RollbackBatch
    BY <1>1, <2>3, SameFrames DEF RollbackBatch, CarriesOn
  <2>4. CASE CommitBatch \/ RefuseBatch \/ FailCommitBatch
    <3>1. TopIs("batch") /\ Top.level \in Nat \ {0} /\ Len(batchlevels) <= Top.level
      BY <1>1, <2>4, InnermostIsTop DEF CommitBatch, RefuseBatch, FailCommitBatch, AtEndBatch
    <3>2. in_batch(batchlevels) =>
            /\ Len(batchlevels) \in 1 .. Len(batchlevels)
            /\ Shorter(batchlevels, Len(batchlevels)) \in Stack
            /\ Len(Shorter(batchlevels, Len(batchlevels))) = Len(batchlevels) - 1
            /\ abandon_to(batchlevels, Len(batchlevels)) \in Stack
            /\ Len(abandon_to(batchlevels, Len(batchlevels))) < Len(batchlevels)
      <4>1. SUFFICES ASSUME in_batch(batchlevels)
                     PROVE  LET n == Len(batchlevels) IN
                            /\ n \in 1 .. n
                            /\ Shorter(batchlevels, n) \in Stack
                            /\ Len(Shorter(batchlevels, n)) = n - 1
                            /\ abandon_to(batchlevels, n) \in Stack
                            /\ Len(abandon_to(batchlevels, n)) < n
        OBVIOUS
      <4>2. Len(batchlevels) \in 1 .. Len(batchlevels) /\ Len(batchlevels) \in Nat \ {0}
        BY <1>1, <4>1, StackIs
      <4>3. /\ Shorter(batchlevels, Len(batchlevels)) \in Stack
            /\ Len(Shorter(batchlevels, Len(batchlevels))) = Len(batchlevels) - 1
        BY <1>1, <4>2, ShorterIs
      <4>4. /\ abandon_to(batchlevels, Len(batchlevels)) \in Stack
            /\ Len(abandon_to(batchlevels, Len(batchlevels))) < Len(batchlevels)
        BY <1>1, <4>2, AbandonTo, AbandonLen
      <4>5. QED
        BY <4>2, <4>3, <4>4
    <3>3. failure(batchlevels) => in_batch(batchlevels)
      BY <1>1, StackIs DEF failure
    <3>4. /\ Len(batchlevels') \in Nat /\ Len(batchlevels') <= Len(batchlevels)
          /\ Len(batchlevels') < Top.level
      <4>1. CASE ~in_batch(batchlevels)
        <5>1. batchlevels' = batchlevels /\ Len(batchlevels) = 0
          BY <1>1, <2>4, <3>3, <4>1, StackIs DEF CommitBatch, RefuseBatch, FailCommitBatch
        <5>2. QED
          BY <3>1, <5>1
      <4>2. CASE in_batch(batchlevels) /\ CommitBatch
        <5>1. batchlevels' = Shorter(batchlevels, Len(batchlevels))
          BY <4>2 DEF CommitBatch, Pops
        <5>2. QED
          BY <1>1, <3>1, <3>2, <4>2, <5>1
      <4>3. CASE in_batch(batchlevels) /\ RefuseBatch
        <5>1. Len(batchlevels') = Len(abandon_to(batchlevels, Len(batchlevels)))
          BY <1>4, <3>2, <4>3 DEF RefuseBatch
        <5>2. Len(abandon_to(batchlevels, Len(batchlevels))) \in Nat
          BY <3>2, <4>3, StackIs
        <5>3. QED
          BY <1>1, <3>1, <3>2, <4>3, <5>1, <5>2
      <4>4. CASE in_batch(batchlevels) /\ FailCommitBatch
        <5>1. Len(batchlevels') = Len(batchlevels) - 1
          BY <1>4, <3>2, <4>4 DEF FailCommitBatch
        <5>2. QED
          BY <1>1, <3>1, <3>2, <4>4, <5>1
      <4>5. QED
        BY <2>4, <4>1, <4>2, <4>3, <4>4
    <3>5. Popped \/ frames' = frames
      BY <2>4 DEF CommitBatch, RefuseBatch, FailCommitBatch, EndsWithError, Halts
    <3>6. QED
      BY <1>1, <3>1, <3>4, <3>5, BatchPopped, SameFrames
  <2>5. QED
    BY <1>7, <2>2, <2>3, <2>4 DEF Batch
<1>8. CASE Leaving
  <2>1. ~EndRun
    BY DEF EndRun, Goes
  <2>2. CASE Break \/ BreakCaught \/ Halt \/ Quit \/ ErrorAtTop
    BY <1>1, <2>2, SameFrames DEF Break, BreakCaught, Halt, Quit, ErrorAtTop, CarriesOn
  <2>3. CASE OpenInput
    BY <1>1, <2>3, OtherPushed DEF OpenInput
  <2>4. CASE CloseInput \/ EndHaltScript \/ UnwindOther
    <3>1. frames # <<>> /\ Top.kind # "batch" /\ Popped /\ batchlevels' = batchlevels
      BY <2>4 DEF CloseInput, EndHaltScript, UnwindOther, TopIs
    <3>2. QED
      BY <1>1, <3>1, OtherPopped
  <2>5. CASE ErrorAtPrompt
    <3>1. frames # <<>> /\ Top.kind # "batch" /\ Popped /\ Len(batchlevels') = Len(batchlevels)
      BY <1>1, <1>4, <2>5 DEF ErrorAtPrompt, TopIs
    <3>2. QED
      BY <1>1, <3>1, OtherPopped
  <2>6. CASE ExitNow
    <3>1. batchlevels' = <<>> /\ Len(batchlevels') = 0
      BY <2>6, EmptySeq DEF ExitNow, Pops
    <3>2. 1 .. Len(batchlevels') = {}
      BY <3>1
    <3>3. LevelsCovered'
      BY <3>2 DEF LevelsCovered
    <3>4. QED
      BY <3>3
  <2>7. CASE UnwindBatch
    <3>1. TopIs("batch") /\ Popped /\ Top.level \in Nat \ {0}
          /\ batchlevels' = abandon_to(batchlevels, Top.level)
      BY <1>1, <2>7, TopIsFrame DEF UnwindBatch, Pops, TopIs
    <3>2. QED
      BY <1>1, <3>1, AbandonLen, BatchPopped
  <2>8. QED
    BY <1>8, <2>1, <2>2, <2>3, <2>4, <2>5, <2>6, <2>7 DEF Leaving, InterruptAtPrompt
<1>9. CASE Signal
  BY <1>3, <1>9 DEF Signal, InterruptCommitBatch, Interrupt, InterruptStatement, InterruptMetacommand,
     InterruptExit, InterruptUnwind, AbandonInterrupted, Interrupted
<1>10. CASE Done
  BY <1>10 DEF Done, vars, control, LevelsCovered, Covered, IsBatch
<1>11. QED
  BY <1>5, <1>6, <1>7, <1>8, <1>9, <1>10 DEF Next

(* Where Ctrl-C does not come, only the end of the run stops an interrupt's way
   out. *)
LEMMA TermStep ==
  ASSUME "ctrlc" \notin Interrupts, exc # "ctrlc", Next
  PROVE  exc' # "ctrlc" /\ (Interruption /\ pc' # "over" => Interruption')
<1>1. \A i \in Interrupts : Raises(i) => Interruption' /\ exc' # "ctrlc"
  BY TransactionsAssumption DEF Raises, Interruption
<1>2. CASE Statement
  BY <1>2 DEF Statement, RunSql, InsertRows, Load, FinishStatement, FailStatement, LoadCommits,
     LoadWrites, FinishLoad, FailLoad, FailLoadAfterCreate, FailMetacommand, RaiseError,
     Interruption, Runs, CarriesOn, Halts, Goes, Raises, control
<1>3. CASE Setting \/ Batch
  BY <1>3 DEF Setting, AutocommitOn, AutocommitOff, Use, Connect, Disconnect, Batch, BeginBatch,
     RollbackBatch, CommitBatch, RefuseBatch, FailCommitBatch, AtEndBatch, EndsWithError,
     Interruption, CarriesOn, Halts, Goes, Raises
<1>4. CASE Leaving
  BY <1>4 DEF Leaving, Break, BreakCaught, Halt, Quit, OpenInput, CloseInput, ExitNow, EndHaltScript,
     UnwindBatch, ErrorAtPrompt, InterruptAtPrompt, UnwindOther, ErrorAtTop, EndRun, BackAtPrompt,
     Interruption, CarriesOn, Goes, Raises
<1>5. CASE Signal
  BY <1>1, <1>5 DEF Signal, InterruptCommitBatch, Interrupt, InterruptStatement,
     InterruptMetacommand, InterruptExit, InterruptUnwind, AbandonInterrupted, Interrupted
<1>6. CASE Done
  BY <1>6 DEF Done, vars, control, Interruption
<1>7. QED
  BY <1>2, <1>3, <1>4, <1>5, <1>6 DEF Next

(* A run that is over does nothing more. *)
LEMMA OverStays ==
  ASSUME Next, pc = "over"
  PROVE  Done
<1>1. CASE Statement
  BY <1>1 DEF Statement, RunSql, InsertRows, Load, FinishStatement, FailStatement, LoadCommits,
     LoadWrites, FinishLoad, FailLoad, FailLoadAfterCreate, FailMetacommand, RaiseError
<1>2. CASE Setting \/ Batch
  BY <1>2 DEF Setting, AutocommitOn, AutocommitOff, Use, Connect, Disconnect, Batch, BeginBatch,
     RollbackBatch, CommitBatch, RefuseBatch, FailCommitBatch, AtEndBatch
<1>3. CASE Leaving
  BY <1>3 DEF Leaving, Break, BreakCaught, Halt, Quit, OpenInput, CloseInput, ExitNow, EndHaltScript,
     UnwindBatch, ErrorAtPrompt, InterruptAtPrompt, UnwindOther, ErrorAtTop, EndRun, Interruption
<1>4. CASE Signal
  BY <1>4 DEF Signal, InterruptCommitBatch, Interrupt, InterruptStatement, InterruptMetacommand,
     InterruptExit, InterruptUnwind, AtEndBatch
<1>5. QED
  BY <1>1, <1>2, <1>3, <1>4 DEF Next

(* Only the end of the run leaves it over. *)
LEMMA OnlyEndRun ==
  ASSUME Next, ~EndRun, pc' = "over"
  PROVE  Done
<1>1. CASE Statement
  BY <1>1 DEF Statement, RunSql, InsertRows, Load, FinishStatement, FailStatement,
     LoadCommits, LoadWrites, FinishLoad, FailLoad, FailLoadAfterCreate, FailMetacommand, RaiseError,
     Runs, CarriesOn, Halts, Goes, Raises, control
<1>2. CASE Setting \/ Batch
  BY <1>2 DEF Setting, AutocommitOn, AutocommitOff, Use, Connect, Disconnect,
     Batch, BeginBatch, RollbackBatch, CommitBatch, RefuseBatch, FailCommitBatch, EndsWithError,
     CarriesOn, Halts, Goes, Raises
<1>3. CASE Leaving
  BY <1>3 DEF Leaving, Break, BreakCaught, Halt, Quit, OpenInput, CloseInput, ExitNow,
     EndHaltScript, UnwindBatch, ErrorAtPrompt, InterruptAtPrompt, UnwindOther, ErrorAtTop, BackAtPrompt,
     CarriesOn, Goes, Raises, Interruption
<1>4. CASE Signal
  BY <1>4 DEF Signal, InterruptCommitBatch, Interrupt, InterruptStatement, InterruptMetacommand,
     InterruptExit, InterruptUnwind, AbandonInterrupted, Interrupted, Raises
<1>5. QED
  BY <1>1, <1>2, <1>3, <1>4 DEF Next

(* Where Ctrl-C does not come, the levels are covered in every state of a run. *)
LEMMA CoverInvariant ==
  ASSUME "ctrlc" \notin Interrupts
  PROVE  Spec => [](LevelsInv /\ NoCtrlC)
<1>1. Init => CoverInv /\ NoCtrlC
  <2> SUFFICES ASSUME Init PROVE CoverInv /\ NoCtrlC
    OBVIOUS
  <2>1. Len(batchlevels) = 0
    BY EmptySeq DEF Init, BatchInit
  <2>2. 1 .. Len(batchlevels) = {}
    BY <2>1
  <2>3. QED
    BY <2>2 DEF Init, CoverInv, LevelsCovered, NoCtrlC
<1>2. Inv /\ CoverInv /\ NoCtrlC /\ [Next]_vars => CoverInv' /\ NoCtrlC'
  <2>1. ASSUME Inv, CoverInv, NoCtrlC, Next PROVE CoverInv' /\ NoCtrlC'
    <3>1. exc' # "ctrlc" /\ (Interruption /\ pc' # "over" => Interruption')
      BY <2>1, TermStep DEF NoCtrlC
    <3>2. pc = "over" => pc' = "over"
      BY <2>1, OverStays DEF Done, vars, control
    <3>3. QED
      BY <2>1, <3>1, <3>2, CoverStep DEF CoverInv, NoCtrlC
  <2>2. ASSUME CoverInv, NoCtrlC, UNCHANGED vars PROVE CoverInv' /\ NoCtrlC'
    BY <2>2 DEF vars, control, NoCtrlC, CoverInv, Interruption, LevelsCovered, Covered, IsBatch
  <2>3. QED
    BY <2>1, <2>2
<1>3. QED
  BY <1>1, <1>2, InvInductive, PTL DEF Spec, LevelsInv

(* Where only SIGTERM interrupts, every level on the stack between two statements
   belongs to a BEGIN BATCH block that is being executed. *)
THEOREM EveryLevelHasItsBlock ==
  ASSUME "ctrlc" \notin Interrupts
  PROVE  Spec => []NoLevelOutlivesItsBlock
<1>1. LevelsInv => NoLevelOutlivesItsBlock
  <2> SUFFICES ASSUME LevelsInv, pc = "ready"
               PROVE  Len(batchlevels) <= Cardinality({i \in DOMAIN frames : frames[i].kind = "batch"})
    BY DEF NoLevelOutlivesItsBlock
  <2> DEFINE B == {i \in DOMAIN frames : frames[i].kind = "batch"}
             n == Len(batchlevels)
  <2>1. LevelsCovered /\ n \in Nat /\ Len(frames) \in Nat /\ DOMAIN frames = 1 .. Len(frames)
    BY StackIs, LenProperties DEF LevelsInv, CoverInv, Interruption, Inv, TypeOK, BatchTypeOK, Stack
  <2>2. IsFiniteSet(B)
    <3>1. IsFiniteSet(1 .. Len(frames)) /\ B \subseteq 1 .. Len(frames)
      BY <2>1, FS_Interval
    <3> HIDE DEF B
    <3>2. QED
      BY <3>1, FS_Subset
  <2>3. PICK frame : frame = [m \in 1 .. n |-> CHOOSE i \in B : frames[i].level = m]
    OBVIOUS
  <2>4. \A m \in 1 .. n : frame[m] \in B /\ frames[frame[m]].level = m
    BY <2>1, <2>3 DEF LevelsCovered, Covered, IsBatch
  <2>5. frame \in Injection(1 .. n, B)
    <3> HIDE DEF B
    <3>1. frame \in [1 .. n -> B]
      BY <2>3, <2>4
    <3>2. \A a, b \in 1 .. n : frame[a] = frame[b] => a = b
      BY <2>4
    <3>3. QED
      BY <3>1, <3>2 DEF Injection, IsInjective
  <2>6. IsFiniteSet(1 .. n) /\ Cardinality(1 .. n) = n
    <3>1. n \in Nat
      BY <2>1
    <3> HIDE DEF n
    <3>2. IsFiniteSet(1 .. n) /\ Cardinality(1 .. n) = IF 1 > n THEN 0 ELSE n - 1 + 1
      BY <3>1, FS_Interval
    <3>3. QED
      BY <3>1, <3>2
  <2>7. n <= Cardinality(B)
    <3> HIDE DEF B, n
    <3>1. Cardinality(1 .. n) <= Cardinality(B)
      BY <2>2, <2>5, <2>6, FS_Injection
    <3>2. QED
      BY <3>1, <2>6
  <2>8. QED
    BY <2>7
<1>2. QED
  BY <1>1, CoverInvariant, PTL

(* The step that ends a run leaves of the run's own work on the caller's connection
   only what was left behind and what a level on the stack holds. *)
LEMMA EndRunLeaves ==
  ASSUME Inv, EndRun, NEW c \in Borrowed, Own(pending'[c]), ~Left(pending'[c])
  PROVE  ~Interruption /\ uses_db(batchlevels, c)
<1> DEFINE after == IF Interruption THEN Managed(pool \cap Borrowed) ELSE {}
<1>1. c \in Conn /\ c # "none" /\ pending \in Pending /\ pc # "over" /\ on = "none"
  BY ConnAssumption, TransactionsAssumption DEF EndRun, Inv, TypeOK, ConnTypeOK, Pending
<1>2. PICK C \in SUBSET after :
        Settle(LeftBehind(pending, C, "cut"), {}, ClosedAll \cup (after \ C))
  BY DEF EndRun, RolledBackAfterInterrupt
<1>3. /\ LeftBehind(pending, C, "cut") \in Pending
      /\ Held(LeftBehind(pending, C, "cut")[c]) <=> Held(pending[c]) /\ c \notin C
  BY <1>1, LeftBehindIs
<1> HIDE DEF after
<1>4. Held(pending'[c])
  BY DEF Held
<1>5. Held(LeftBehind(pending, C, "cut")[c]) /\ c \notin ClosedAll \cup (after \ C)
  BY <1>1, <1>2, <1>3, <1>4, SettleOwn
<1>6. Held(pending[c]) /\ c \notin after
  BY <1>3, <1>5
<1>7. /\ autocommit[c] /\ c \in pool
      /\ uses_db(batchlevels, c) \/ Interruption
  BY <1>1, <1>6 DEF Inv, SettledInv, NothingOrphaned, OwnWorkIsManaged, Held
<1>8. QED
  BY <1>6, <1>7 DEF after, Managed

(* Where only SIGTERM interrupts, a run that ends without an exception has no
   level left. *)
LEMMA NoLevelAtTheEnd ==
  ASSUME LevelsInv, frames = <<>>, ~Interruption, pc # "over", NEW c
  PROVE  ~uses_db(batchlevels, c)
<1>1. LevelsCovered /\ DOMAIN frames = {} /\ batchlevels \in Stack
  BY DEF LevelsInv, CoverInv, Inv, TypeOK, BatchTypeOK, Stack
<1>2. 1 .. Len(batchlevels) = {}
  BY <1>1 DEF LevelsCovered, Covered
<1>3. QED
  BY <1>1, <1>2, StackIs DEF uses_db

LEMMA CleanStep ==
  ASSUME Inv, "ctrlc" \notin Interrupts => LevelsInv,
         CallerGetsCleanConnection, [Next]_vars
  PROVE  CallerGetsCleanConnection'
<1>1. CASE EndRun
  <2>1. batchlevels' = batchlevels /\ frames = <<>> /\ pc # "over"
    BY <1>1 DEF EndRun
  <2>2. ASSUME NEW c \in Borrowed, Own(pending'[c]), ~Left(pending'[c])
        PROVE  "ctrlc" \in Interrupts /\ uses_db(batchlevels', c)
    <3>1. ~Interruption /\ uses_db(batchlevels, c)
      BY <1>1, <2>2, EndRunLeaves
    <3>2. QED
      BY <2>1, <3>1, NoLevelAtTheEnd
  <2>3. QED
    BY <2>2 DEF CallerGetsCleanConnection
<1>2. CASE Next /\ ~EndRun
  <2>1. CASE pc' # "over"
    BY <2>1 DEF CallerGetsCleanConnection
  <2>2. CASE pc' = "over"
    <3>1. Done
      BY <1>2, <2>2, OnlyEndRun DEF Inv
    <3>2. QED
      BY <3>1 DEF Done, vars, connVars, control, CallerGetsCleanConnection
  <2>3. QED
    BY <2>1, <2>2
<1>3. CASE UNCHANGED vars
  BY <1>3 DEF vars, connVars, control, CallerGetsCleanConnection
<1>4. QED
  BY <1>1, <1>2, <1>3

(* On the connection that execsql.run's caller goes on using, nothing of the run's
   own is left to store, however the run ended and whichever signals interrupted it,
   but for what a failed IMPORT, or a rollback that a further signal cut short, has
   left there and, where there is Ctrl-C, what a level left on the stack holds. *)
THEOREM CallersConnectionIsClean == Spec => []CallerGetsCleanConnection
<1>1. Init => CallerGetsCleanConnection
  BY DEF Init, CallerGetsCleanConnection
<1>2. CASE "ctrlc" \in Interrupts
  <2>1. Inv /\ CallerGetsCleanConnection /\ [Next]_vars => CallerGetsCleanConnection'
    BY <1>2, CleanStep
  <2>2. QED
    BY <1>1, <2>1, InvInductive, PTL DEF Spec
<1>3. CASE "ctrlc" \notin Interrupts
  <2>1. LevelsInv /\ CallerGetsCleanConnection /\ [Next]_vars => CallerGetsCleanConnection'
    BY CleanStep DEF LevelsInv
  <2>2. Spec => []LevelsInv
    BY <1>3, CoverInvariant
  <2>3. QED
    BY <1>1, <2>1, <2>2, PTL DEF Spec
<1>4. QED
  BY <1>2, <1>3

-----------------------------------------------------------------------------
(***************************************************************************)
(* Theorems about what a step of Transactions does to uncommitted work:    *)
(* what may be stored, what may be discarded and what is left alone, for   *)
(* any connections, any nesting and any of the signals.                    *)
(***************************************************************************)

(* Condemned work that was not left behind. *)
Dead(work) == "dead" \in work /\ ~Left(work)

(* Work that a failure or an interrupt has condemned belongs to a stack in which
   something has failed, unless the interrupt is still unwinding. *)
DeadIsDoomed ==
  \A c \in Conn : Dead(pending[c]) => doomed \/ Interruption \/ pc = "over"

(* The stack is left without going through its END BATCH. *)
OnTheWayOut == (pc = "raised" /\ exc # "break") \/ pc = "halting"

(* The outermost level says that something in the stack has failed, unless the
   stack is being left. *)
DoomedIsMarked ==
  doomed => /\ in_batch(batchlevels)
            /\ batchlevels[1].failed \/ OnTheWayOut \/ pc = "over"

(* From a failure or an interrupt on, nothing counts as work to commit. *)
NoneToCommit ==
  doomed \/ Interruption => \A c \in Conn : "own" \notin pending[c]

(* A level that has outlived its block is in a stack in which something failed. *)
LevelsDoomed == Interruption \/ pc = "over" \/ doomed \/ LevelsCovered

DoomInv == DeadIsDoomed /\ DoomedIsMarked /\ NoneToCommit /\ LevelsDoomed

OutcomesInv == Inv /\ DoomInv

(* What a settlement stores and discards. *)
LEMMA SettleFate ==
  ASSUME NEW p \in Pending, NEW S, NEW D, Settle(p, S, D)
  PROVE  \A c \in Conn : /\ fate'[c] = "stored" => c \in S
                         /\ fate'[c] = "discarded" => c \in D
                         /\ c \notin S \cup D => fate'[c] = "kept"
<1> SUFFICES ASSUME NEW c \in Conn
             PROVE  /\ fate'[c] = "stored" => c \in S
                    /\ fate'[c] = "discarded" => c \in D
                    /\ c \notin S \cup D => fate'[c] = "kept"
  OBVIOUS
<1>1. fate'[c] = CASE p[c] = {}  -> "kept"
                   [] p[c] # {} /\ c \in S -> "stored"
                   [] p[c] # {} /\ c \in D \ S -> "discarded"
                   [] OTHER -> "kept"
  BY DEF Settle
<1>2. CASE p[c] = {}
  BY <1>1, <1>2
<1>3. CASE p[c] # {}
  BY <1>1, <1>3
<1>4. QED
  BY <1>2, <1>3

(* Condemned work is not to commit. *)
LEMMA CondemnedMarks ==
  ASSUME NEW p \in Pending, NEW S, NEW D, Settle(Condemned(p), S, D)
  PROVE  \A c \in Conn : "own" \notin pending'[c]
<1>1. Condemned(p) \in Pending /\ \A c \in Conn : "own" \notin Condemned(p)[c]
  BY CondemnedIs DEF Condemned, Pending, Mark
<1>2. QED
  BY <1>1, SettleIs

(* The mark of new work follows from what has happened to the stack. *)
LEMMA HoldingMarks ==
  ASSUME pending \in Pending, NEW c \in Conn
  PROVE  \A x \in Conn :
           /\ Dead(Holding(c)[x]) => Dead(pending[x]) \/ doomed
           /\ "own" \in Holding(c)[x] => "own" \in pending[x] \/ ~doomed
BY DEF Holding, Written, LiveMark, Pending, Dead, Left

(* The outermost level's mark under the operations on the stack. *)
LEMMA FirstLevel ==
  ASSUME NEW L \in Stack, in_batch(L)
  PROVE  /\ fail_enclosing(L)[1].failed
         /\ \A c : in_batch(using_db(L, c)) /\ using_db(L, c)[1].failed = L[1].failed
         /\ in_batch(new_batch(L)) /\ new_batch(L)[1].failed = L[1].failed
         /\ \A d \in Nat \ {0} : in_batch(abandon_to(L, d)) => abandon_to(L, d)[1].failed = L[1].failed
<1>1. /\ Len(L) \in Nat \ {0} /\ 1 \in 1 .. Len(L) /\ DOMAIN L = 1 .. Len(L)
      /\ L \in [1 .. Len(L) -> Level] /\ L # <<>>
  BY StackIs DEF in_batch
<1>2. fail_enclosing(L)[1].failed
  BY <1>1 DEF fail_enclosing, Level
<1>3. ASSUME NEW c
      PROVE  in_batch(using_db(L, c)) /\ using_db(L, c)[1].failed = L[1].failed
  <2>1. using_db(L, c) = [L EXCEPT ![Len(L)] = [L[Len(L)] EXCEPT !.dbs_used = L[Len(L)].dbs_used \cup {c}]]
    BY DEF using_db
  <2>2. using_db(L, c)[1].failed = L[1].failed
    BY <1>1, <2>1 DEF Level
  <2>3. 1 \in DOMAIN using_db(L, c)
    BY <1>1, <2>1
  <2>4. QED
    BY <2>2, <2>3 DEF in_batch
<1>4. in_batch(new_batch(L)) /\ new_batch(L)[1].failed = L[1].failed
  <2> DEFINE e == [dbs_used |-> {}, failed |-> FALSE]
  <2>1. e \in Level
    BY DEF Level
  <2>2. Append(L, e) \in Seq(Level) /\ Len(Append(L, e)) = Len(L) + 1 /\ Append(L, e)[1] = L[1]
    BY <1>1, <2>1, AppendProperties DEF Stack
  <2>3. Append(L, e) # <<>>
    BY <1>1, <2>2, EmptySeq
  <2>4. QED
    BY <2>2, <2>3 DEF new_batch, in_batch
<1>5. ASSUME NEW d \in Nat \ {0}, in_batch(abandon_to(L, d))
      PROVE  abandon_to(L, d)[1].failed = L[1].failed
  <2>1. CASE d > Len(L)
    BY <2>1 DEF abandon_to
  <2>2. CASE d <= Len(L) /\ d # 1
    <3> DEFINE O == Shorter(L, d)
    <3>1. d \in 1 .. Len(L) /\ 1 \in 1 .. d - 1
      BY <1>1, <2>2
    <3>2. O \in Stack /\ Len(O) = d - 1 /\ \A i \in 1 .. d - 1 : O[i] = L[i]
      BY <3>1, ShorterIs
    <3>3. O \in [1 .. d - 1 -> Level] /\ O[1] = L[1]
      BY <3>1, <3>2, StackIs
    <3>4. abandon_to(L, d) = [O EXCEPT ![d - 1] = [O[d - 1] EXCEPT !.dbs_used = O[d - 1].dbs_used \cup UsedFrom(L, d)]]
      BY <1>1, <2>2, <3>3 DEF abandon_to
    <3>5. QED
      BY <3>1, <3>3, <3>4 DEF Level
  <2>3. CASE d <= Len(L) /\ d = 1
    BY <1>1, <1>5, <2>3 DEF abandon_to, in_batch
  <2>4. QED
    BY <1>1, <2>1, <2>2, <2>3
<1>6. QED
  BY <1>2, <1>3, <1>4, <1>5

(* A step that fails nothing: the stack stays doomed as long as it is not empty. *)
Kept ==
  /\ doomed' = (doomed /\ in_batch(batchlevels'))
  /\ doomed /\ in_batch(batchlevels') => batchlevels'[1].failed = batchlevels[1].failed
  /\ doomed /\ on' # "none" => in_batch(batchlevels')
  /\ \A c \in Conn :
       /\ Dead(pending'[c]) => Dead(pending[c]) \/ doomed
       /\ "own" \in pending'[c] => "own" \in pending[c] \/ (~doomed /\ ~Interruption)
  /\ Interruption' <=> Interruption
  /\ OnTheWayOut => OnTheWayOut' \/ ~in_batch(batchlevels')

(* A step that fails, or an interrupt: all there is to commit is condemned. *)
Condemning ==
  /\ doomed' = in_batch(batchlevels')
  /\ on' = "none"
  /\ in_batch(batchlevels') => batchlevels'[1].failed \/ OnTheWayOut'
  /\ \A c \in Conn : "own" \notin pending'[c]

SameStack ==
  \/ batchlevels' = batchlevels
  \/ batchlevels' = new_batch(batchlevels)
  \/ \E c : batchlevels' = using_db(batchlevels, c)

LEMMA KeepsStack ==
  ASSUME batchlevels \in Stack, doomed \in BOOLEAN, doomed => in_batch(batchlevels), doomed' = doomed,
         NEW p \in Pending, NEW S, NEW D, Settle(p, S, D),
         \A c \in Conn : /\ Dead(p[c]) => Dead(pending[c]) \/ doomed
                         /\ "own" \in p[c] => "own" \in pending[c] \/ (~doomed /\ ~Interruption),
         SameStack,
         Interruption' <=> Interruption, OnTheWayOut => OnTheWayOut'
  PROVE  Kept
<1>1. doomed => in_batch(batchlevels') /\ batchlevels'[1].failed = batchlevels[1].failed
  BY FirstLevel DEF SameStack
<1>2. \A c \in Conn : pending'[c] = p[c] \/ pending'[c] = {}
  BY SettleIs
<1>3. QED
  BY <1>1, <1>2 DEF Kept, Dead

LEMMA FailsCondemns ==
  ASSUME pending \in Pending, NEW L \in Stack, NEW S, NEW D, Fails(L, S, D), on' = "none"
  PROVE  Condemning
<1>1. batchlevels' = fail_enclosing(L) /\ doomed' = in_batch(L)
      /\ (in_batch(batchlevels') <=> in_batch(L))
  BY FailsIs DEF Fails
<1>2. \A c \in Conn : "own" \notin pending'[c]
  BY CondemnedMarks DEF Fails
<1>3. QED
  BY <1>1, <1>2, FirstLevel DEF Condemning, in_batch

(* Levels are taken off the stack without a failure. *)
LEMMA PopsKeep ==
  ASSUME pending \in Pending, on' = "none",
         NEW L, Pops(L), in_batch(L) => L[1].failed = batchlevels[1].failed,
         NEW S, NEW D, Settle(pending, S, D),
         Interruption' <=> Interruption,
         OnTheWayOut => OnTheWayOut' \/ ~in_batch(L)
  PROVE  Kept
<1>1. doomed' = (doomed /\ in_batch(batchlevels')) /\ batchlevels' = L
  BY DEF Pops
<1>2. \A c \in Conn : pending'[c] = pending[c] \/ pending'[c] = {}
  BY SettleIs
<1>3. QED
  BY <1>1, <1>2 DEF Kept, Dead

Typed ==
  /\ pending \in Pending /\ batchlevels \in Stack /\ frames \in Seq(Frame) /\ doomed \in BOOLEAN
  /\ current_db \in Conn /\ on \in Conn \cup {"none"}
  /\ (on = "none") <=> (pc \notin {"ran", "inserted", "loaded"})

LEMMA StatementIs ==
  ASSUME Typed, doomed => in_batch(batchlevels), Statement
  PROVE  Kept \/ Condemning
<1>1. ~Interruption /\ ~OnTheWayOut
  BY DEF Statement, RunSql, InsertRows, Load, FinishStatement, FailStatement, LoadCommits, LoadWrites,
     FinishLoad, FailLoad, FailLoadAfterCreate, FailMetacommand, RaiseError, Interruption, OnTheWayOut
<1>2. \A y \in Conn :
        /\ Holding(y) \in Pending
        /\ \A x \in Conn : /\ Dead(Holding(y)[x]) => Dead(pending[x]) \/ doomed
                           /\ "own" \in Holding(y)[x] => "own" \in pending[x] \/ ~doomed
  BY HoldingIs, HoldingMarks DEF Typed
<1>3. CASE \E effect \in SqlEffects : RunSql(effect)
  <2>1. /\ doomed' = doomed /\ ~Interruption'
        /\ batchlevels' = using_db(batchlevels, current_db)
        /\ \E S, D : Settle(Holding(current_db), S, D) \/ Settle(pending, S, D)
    BY <1>3 DEF RunSql, SqlEffects, Runs, Untouched, Interruption
  <2>2. \A p \in {Holding(current_db), pending} :
          /\ p \in Pending
          /\ \A c \in Conn :
               /\ Dead(p[c]) => Dead(pending[c]) \/ doomed
               /\ "own" \in p[c] => "own" \in pending[c] \/ (~doomed /\ ~Interruption)
    BY <1>1, <1>2 DEF Typed
  <2>3. PICK p \in {Holding(current_db), pending} : \E S, D : Settle(p, S, D)
    BY <2>1
  <2>4. (Interruption' <=> Interruption) /\ (OnTheWayOut => OnTheWayOut')
    BY <1>1, <2>1
  <2>5. QED
    BY <2>1, <2>2, <2>3, <2>4, KeepsStack DEF Typed, SameStack
<1>4. CASE \E c \in Conn : InsertRows(c) \/ Load(c)
  <2>1. PICK c \in Conn : InsertRows(c) \/ Load(c)
    BY <1>4
  <2>2. /\ doomed' = doomed /\ ~Interruption'
        /\ batchlevels' = using_db(batchlevels, c) \/ batchlevels' = batchlevels
        /\ Settle(Holding(c), {}, {})
    BY <2>1 DEF InsertRows, Load, Runs, Untouched, Interruption
  <2>3. (Interruption' <=> Interruption) /\ (OnTheWayOut => OnTheWayOut')
    BY <1>1, <2>2
  <2>4. \A x \in Conn :
          /\ Dead(Holding(c)[x]) => Dead(pending[x]) \/ doomed
          /\ "own" \in Holding(c)[x] => "own" \in pending[x] \/ (~doomed /\ ~Interruption)
    BY <1>1, <1>2
  <2>5. Holding(c) \in Pending
    BY <1>2
  <2>6. QED
    BY <2>2, <2>3, <2>4, <2>5, KeepsStack DEF Typed, SameStack
<1>5. CASE FinishStatement \/ LoadCommits \/ FinishLoad
  <2>1. /\ doomed' = doomed /\ ~Interruption' /\ batchlevels' = batchlevels
        /\ \E S, D : Settle(pending, S, D)
    BY <1>5 DEF FinishStatement, LoadCommits, FinishLoad, CarriesOn, Goes, control, Interruption
  <2>2. QED
    BY <1>1, <2>1, KeepsStack DEF Typed, SameStack
<1>6. CASE LoadWrites
  <2>1. /\ doomed' = doomed /\ ~Interruption' /\ batchlevels' = batchlevels /\ on \in Conn
        /\ Settle(Holding(on), {}, {})
    BY <1>6 DEF LoadWrites, Untouched, control, Interruption, Typed
  <2>2. QED
    BY <1>1, <1>2, <2>1, KeepsStack DEF Typed, SameStack
<1>7. CASE FailStatement \/ FailLoad \/ FailMetacommand
  <2>1. on' = "none" /\ \E S, D : Fails(batchlevels, S, D)
    BY <1>7 DEF FailStatement, FailLoad, FailMetacommand, CarriesOn, Halts, Goes, Raises
  <2>2. QED
    BY <2>1, FailsCondemns DEF Typed
<1>8. CASE FailLoadAfterCreate
  <2> DEFINE p == LeftBehind(pending, {c \in {on} : ~uses_db(batchlevels, c)}, "torn")
  <2>1. /\ p \in Pending
        /\ \A c \in Conn : /\ "own" \in p[c] => "own" \in pending[c]
                           /\ Dead(p[c]) => Dead(pending[c])
    <3>1. /\ p \in Pending
          /\ \A c \in Conn : \A x \in {"own", "dead"} : x \in p[c] <=> x \in pending[c]
      BY LeftBehindIs DEF Typed
    <3>2. \A c \in Conn : Left(pending[c]) => Left(p[c])
      BY DEF LeftBehind, Left, Typed, Pending
    <3> HIDE DEF p
    <3>3. QED
      BY <3>1, <3>2 DEF Dead
  <2>2. /\ on' = "none"
        /\ Settle(IF in_batch(batchlevels) THEN Condemned(p) ELSE p, {}, {})
        /\ batchlevels' = fail_enclosing(batchlevels) /\ doomed' = in_batch(batchlevels)
    BY <1>8 DEF FailLoadAfterCreate, Untouched, CarriesOn, Halts, Goes, Raises
  <2> HIDE DEF p
  <2>3. CASE in_batch(batchlevels)
    <3>1. \A c \in Conn : "own" \notin pending'[c]
      BY <2>1, <2>2, <2>3, CondemnedMarks
    <3>2. QED
      BY <2>2, <2>3, <3>1, FailEnclosing, FirstLevel DEF Condemning, Typed, in_batch
  <2>4. CASE ~in_batch(batchlevels)
    <3>1. batchlevels' = batchlevels /\ doomed' = doomed
      BY <2>2, <2>4 DEF fail_enclosing, in_batch, Typed
    <3>2. ~Interruption'
      BY <1>8 DEF FailLoadAfterCreate, CarriesOn, Halts, Goes, Raises, Interruption
    <3>3. Settle(p, {}, {})
      BY <2>2, <2>4
    <3>4. QED
      BY <1>1, <2>1, <3>1, <3>2, <3>3, KeepsStack DEF Typed, SameStack
  <2>5. QED
    BY <2>3, <2>4
<1>9. CASE RaiseError
  <2>1. on' = "none" /\ OnTheWayOut'
    BY <1>9 DEF RaiseError, Raises, OnTheWayOut
  <2>2. CASE \E D : Fails(batchlevels, {}, D)
    BY <2>1, <2>2, FailsCondemns DEF Typed
  <2>3. CASE /\ batchlevels' = batchlevels \/ batchlevels' = using_db(batchlevels, current_db)
             /\ doomed' = in_batch(batchlevels)
             /\ Untouched(Condemned(pending))
    <3>1. in_batch(batchlevels') <=> in_batch(batchlevels)
      BY <2>3, UsingDb DEF Typed
    <3>2. \A c \in Conn : "own" \notin pending'[c]
      BY <2>3, CondemnedMarks DEF Untouched, Typed
    <3>3. QED
      BY <2>1, <2>3, <3>1, <3>2 DEF Condemning, in_batch
  <2>4. QED
    BY <1>9, <2>2, <2>3 DEF RaiseError
<1>10. QED
  BY <1>3, <1>4, <1>5, <1>6, <1>7, <1>8, <1>9 DEF Statement

LEMMA SettingIs ==
  ASSUME Typed, doomed => in_batch(batchlevels), Setting
  PROVE  Kept \/ Condemning
<1>1. ~Interruption /\ ~OnTheWayOut
  BY DEF Setting, AutocommitOn, AutocommitOff, Use, Connect, Disconnect, Interruption, OnTheWayOut
<1>2. CASE Fails(batchlevels, {}, {current_db}) /\ on' = "none"
  BY <1>2, FailsCondemns DEF Typed
<1>3. CASE /\ CarriesOn /\ UNCHANGED <<batchlevels, doomed>>
           /\ \E S, D : Settle(pending, S, D)
  <2>1. ~Interruption'
    BY <1>3 DEF CarriesOn, Goes, Interruption
  <2>2. QED
    BY <1>1, <1>3, <2>1, KeepsStack DEF Typed, SameStack
<1>4. CASE AutocommitOff
  <2> DEFINE p == [pending EXCEPT ![current_db] = IF pending[current_db] = {} THEN {} ELSE {"other"}]
  <2>1. p \in Pending /\ \A c \in Conn : ("own" \in p[c] => "own" \in pending[c]) /\ (Dead(p[c]) => Dead(pending[c]))
    BY DEF Typed, Pending, Mark, Dead
  <2>2. Settle(p, {}, {}) /\ ~Interruption' /\ batchlevels' = batchlevels /\ doomed' = doomed
    BY <1>4 DEF AutocommitOff, AutocommitTurnedOff, Untouched, CarriesOn, Goes, Interruption
  <2> HIDE DEF p
  <2>3. QED
    BY <1>1, <2>1, <2>2, KeepsStack DEF Typed, SameStack
<1>5. CASE AutocommitOn
  BY <1>2, <1>3, <1>5 DEF AutocommitOn, Untouched, CarriesOn, Halts, Goes, Raises
<1>6. CASE \E c \in Conn : Use(c) \/ Connect(c) \/ Disconnect(c)
  BY <1>3, <1>6 DEF Use, Connect, Disconnect, MadeCurrent, Connected, Disconnected, Untouched
<1>7. QED
  BY <1>4, <1>5, <1>6 DEF Setting

LEMMA BatchIs ==
  ASSUME Typed, doomed => in_batch(batchlevels), Batch
  PROVE  Kept \/ Condemning
<1> DEFINE n == Len(batchlevels)
<1>1. pc = "ready" /\ ~Interruption /\ ~OnTheWayOut
  BY DEF Batch, BeginBatch, RollbackBatch, CommitBatch, RefuseBatch, FailCommitBatch, AtEndBatch,
     Interruption, OnTheWayOut
<1>2. in_batch(batchlevels) =>
        /\ n \in Nat \ {0} /\ n \in 1 .. n
        /\ Shorter(batchlevels, n) \in Stack
        /\ abandon_to(batchlevels, n) \in Stack
        /\ in_batch(Shorter(batchlevels, n)) => Shorter(batchlevels, n)[1].failed = batchlevels[1].failed
  <2> SUFFICES ASSUME in_batch(batchlevels)
               PROVE  /\ n \in Nat \ {0} /\ n \in 1 .. n
                      /\ Shorter(batchlevels, n) \in Stack
                      /\ abandon_to(batchlevels, n) \in Stack
                      /\ in_batch(Shorter(batchlevels, n)) =>
                           Shorter(batchlevels, n)[1].failed = batchlevels[1].failed
    OBVIOUS
  <2>1. n \in Nat \ {0} /\ n \in 1 .. n
    BY StackIs DEF Typed
  <2>2. /\ Shorter(batchlevels, n) \in Stack /\ Len(Shorter(batchlevels, n)) = n - 1
        /\ \A i \in 1 .. n - 1 : Shorter(batchlevels, n)[i] = batchlevels[i]
    BY <2>1, ShorterIs DEF Typed
  <2>3. abandon_to(batchlevels, n) \in Stack
    BY <2>1, AbandonTo DEF Typed
  <2>4. in_batch(Shorter(batchlevels, n)) => 1 \in 1 .. n - 1
    <3>1. in_batch(Shorter(batchlevels, n)) => n - 1 # 0
      BY <2>2, StackIs
    <3> HIDE DEF n
    <3>2. QED
      BY <2>1, <3>1
  <2>5. QED
    BY <2>1, <2>2, <2>3, <2>4
<1>3. CASE BeginBatch \/ RollbackBatch
  <2>1. /\ doomed' = doomed /\ SameStack /\ ~Interruption'
        /\ \E D : Settle(pending, {}, D)
    BY <1>3 DEF BeginBatch, RollbackBatch, Untouched, CarriesOn, Goes, Interruption, SameStack
  <2>2. QED
    BY <1>1, <2>1, KeepsStack DEF Typed
<1>4. CASE CommitBatch
  <2>1. on' = "none" /\ ~Interruption'
    BY <1>4 DEF CommitBatch, Goes, Interruption
  <2>2. CASE in_batch(batchlevels)
    <3>1. /\ Pops(Shorter(batchlevels, n))
          /\ Settle(pending, Managed(Innermost.dbs_used), {})
      BY <1>4, <2>2 DEF CommitBatch
    <3>2. QED
      BY <1>1, <1>2, <2>1, <2>2, <3>1, PopsKeep DEF Typed
  <2>3. CASE ~in_batch(batchlevels)
    <3>1. doomed' = doomed /\ SameStack /\ Settle(pending, {}, {})
      BY <1>4, <2>3 DEF CommitBatch, Untouched, SameStack
    <3>2. QED
      BY <1>1, <2>1, <3>1, KeepsStack DEF Typed
  <2>4. QED
    BY <2>2, <2>3
<1>5. CASE RefuseBatch \/ FailCommitBatch
  <2>1. in_batch(batchlevels)
    <3>1. failure(batchlevels) => in_batch(batchlevels)
      BY StackIs DEF failure, Typed
    <3>2. QED
      BY <1>5, <3>1 DEF RefuseBatch, FailCommitBatch
  <2>2. on' = "none"
    BY <1>5 DEF RefuseBatch, FailCommitBatch, EndsWithError, Halts, Goes, Raises
  <2>3. \E L \in {abandon_to(batchlevels, n), Shorter(batchlevels, n)} : \E S, D : Fails(L, S, D)
    BY <1>5 DEF RefuseBatch, FailCommitBatch
  <2>4. QED
    BY <1>2, <2>1, <2>2, <2>3, FailsCondemns DEF Typed
<1>6. QED
  BY <1>3, <1>4, <1>5 DEF Batch

LEMMA LeavingIs ==
  ASSUME Typed, doomed => in_batch(batchlevels), Leaving, ~EndRun
  PROVE  Kept \/ Condemning
<1>1. CASE Break \/ BreakCaught \/ Halt \/ Quit \/ OpenInput \/ CloseInput \/ EndHaltScript
           \/ UnwindOther \/ ErrorAtTop
  <2>1. doomed' = doomed /\ SameStack /\ Settle(pending, {}, {})
    BY <1>1 DEF Break, BreakCaught, Halt, Quit, OpenInput, CloseInput, EndHaltScript, UnwindOther,
       ErrorAtTop, CarriesOn, Untouched, SameStack
  <2>2. (Interruption' <=> Interruption) /\ (OnTheWayOut => OnTheWayOut')
    BY <1>1 DEF Break, BreakCaught, Halt, Quit, OpenInput, CloseInput, EndHaltScript, UnwindOther,
       ErrorAtTop, CarriesOn, Goes, Raises, Interruption, OnTheWayOut
  <2>3. QED
    BY <2>1, <2>2, KeepsStack DEF Typed
<1>2. CASE ExitNow
  <2>1. on' = "none" /\ ~Interruption /\ ~Interruption'
    BY <1>2 DEF ExitNow, Goes, Raises, Interruption
  <2>2. Pops(<<>>) /\ ~in_batch(<<>>) /\ \E D : Settle(pending, {}, D)
    BY <1>2 DEF ExitNow, in_batch
  <2>3. QED
    BY <2>1, <2>2, PopsKeep DEF Typed
<1>3. CASE UnwindBatch
  <2>1. Top.level \in Nat \ {0} /\ on' = "none"
    BY <1>3, TopIsFrame DEF UnwindBatch, TopIs, Typed
  <2>2. /\ Pops(abandon_to(batchlevels, Top.level))
        /\ \E D : Settle(pending, {}, D)
        /\ (Interruption' <=> Interruption) /\ (OnTheWayOut => OnTheWayOut')
    BY <1>3 DEF UnwindBatch, Interruption, OnTheWayOut
  <2>3. in_batch(abandon_to(batchlevels, Top.level)) => in_batch(batchlevels)
    <3>1. Len(batchlevels) \in Nat /\ (~in_batch(batchlevels) => Len(batchlevels) = 0)
      BY StackIs DEF Typed
    <3>2. QED
      BY <2>1, <3>1 DEF abandon_to
  <2>4. in_batch(abandon_to(batchlevels, Top.level)) =>
          abandon_to(batchlevels, Top.level)[1].failed = batchlevels[1].failed
    BY <2>1, <2>3, FirstLevel DEF Typed
  <2>5. QED
    BY <2>1, <2>2, <2>4, PopsKeep DEF Typed
<1>4. CASE ErrorAtPrompt
  <2>1. on' = "none" /\ Fails(batchlevels, {}, {})
    BY <1>4 DEF ErrorAtPrompt, BackAtPrompt, Goes
  <2>2. QED
    BY <2>1, FailsCondemns DEF Typed
<1>5. CASE InterruptAtPrompt
  <2>1. PICK C, D : Settle(LeftBehind(Condemned(pending), C, "cut"), {}, D)
    BY <1>5 DEF InterruptAtPrompt, RolledBackAfterInterrupt
  <2>2. /\ LeftBehind(Condemned(pending), C, "cut") \in Pending
        /\ \A c \in Conn : "own" \notin LeftBehind(Condemned(pending), C, "cut")[c]
    <3>1. Condemned(pending) \in Pending /\ \A c \in Conn : "own" \notin Condemned(pending)[c]
      BY CondemnedIs DEF Condemned, Typed, Pending, Mark
    <3>2. QED
      BY <3>1, LeftBehindIs
  <2>3. \A c \in Conn : "own" \notin pending'[c]
    BY <2>1, <2>2, SettleIs
  <2>4. /\ on' = "none"
        /\ batchlevels' = fail_enclosing(batchlevels) /\ doomed' = in_batch(batchlevels)
    BY <1>5 DEF InterruptAtPrompt, Interruption, BackAtPrompt, Goes, Raises, Typed
  <2>5. QED
    BY <2>3, <2>4, FailEnclosing, FirstLevel DEF Condemning, Typed, in_batch
<1>6. QED
  BY <1>1, <1>2, <1>3, <1>4, <1>5 DEF Leaving

LEMMA SignalIs ==
  ASSUME Typed, Signal
  PROVE  Condemning /\ Interruption'
<1>1. (\E i \in Interrupts : Raises(i)) => on' = "none" /\ OnTheWayOut' /\ Interruption'
  BY TransactionsAssumption DEF Raises, OnTheWayOut, Interruption
<1>2. on' = "none" /\ OnTheWayOut' /\ Interruption'
  BY <1>1 DEF Signal, InterruptCommitBatch, Interrupt, InterruptStatement, InterruptMetacommand,
     InterruptExit, InterruptUnwind, AbandonInterrupted, Interrupted
<1>3. CASE InterruptCommitBatch
  <2>1. Shorter(batchlevels, Len(batchlevels)) \in Stack
    BY <1>3, PopInnermost DEF InterruptCommitBatch, Typed
  <2>2. \E S, D : Fails(Shorter(batchlevels, Len(batchlevels)), S, D)
    BY <1>3 DEF InterruptCommitBatch, Interrupted
  <2>3. QED
    BY <1>2, <2>1, <2>2, FailsCondemns DEF Typed
<1>4. CASE InterruptStatement \/ InterruptMetacommand
  <2>1. \E S, D : Fails(batchlevels, S, D)
    BY <1>4 DEF InterruptStatement, InterruptMetacommand, Interrupted
  <2>2. QED
    BY <1>2, <2>1, FailsCondemns DEF Typed
<1>5. CASE Interrupt \/ InterruptExit \/ InterruptUnwind
  <2>1. /\ doomed' = in_batch(batchlevels')
        /\ \E R : Settle(Condemned(pending), {}, R)
    BY <1>5 DEF Interrupt, InterruptExit, InterruptUnwind, AbandonInterrupted, Untouched, in_batch
  <2>2. \A c \in Conn : "own" \notin pending'[c]
    BY <2>1, CondemnedMarks DEF Typed
  <2>3. QED
    BY <1>2, <2>1, <2>2 DEF Condemning
<1>6. QED
  BY <1>3, <1>4, <1>5 DEF Signal

(* Every step but the run's last either condemns all there is to commit, or keeps
   the stack as sound or as doomed as it was. *)
LEMMA StepIs ==
  ASSUME Inv, DoomedIsMarked, [Next]_vars, ~EndRun
  PROVE  Kept \/ Condemning
<1>1. Typed /\ (doomed => in_batch(batchlevels))
  BY DEF Inv, TypeOK, ConnTypeOK, BatchTypeOK, Pending, Stack, Typed, DoomedIsMarked
<1>2. UNCHANGED vars => Kept
  BY <1>1 DEF vars, connVars, control, Kept, Interruption, OnTheWayOut, Typed
<1>3. QED
  BY <1>1, <1>2, StatementIs, SettingIs, BatchIs, LeavingIs, SignalIs DEF Next, Done

LEMMA DoomStep ==
  ASSUME Inv, TypeOK', SettledInv', DoomInv, [Next]_vars
  PROVE  DoomInv'
<1>1. CASE EndRun
  <2>1. pc' = "over" /\ doomed' = doomed /\ batchlevels' = batchlevels /\ ~Interruption' /\ pc # "over"
    BY <1>1 DEF EndRun, Goes, Interruption
  <2>2. \A c \in Conn : "own" \in pending'[c] => "own" \in pending[c]
    <3>1. PICK C, D : Settle(LeftBehind(pending, C, "cut"), {}, D)
      BY <1>1 DEF EndRun, RolledBackAfterInterrupt
    <3>2. pending \in Pending
      BY DEF Inv, TypeOK, ConnTypeOK, Pending
    <3>3. /\ LeftBehind(pending, C, "cut") \in Pending
          /\ \A c \in Conn : "own" \in LeftBehind(pending, C, "cut")[c] => "own" \in pending[c]
      BY <3>2, LeftBehindIs
    <3>4. QED
      BY <3>1, <3>3, SettleIs
  <2>3. QED
    BY <2>1, <2>2 DEF DoomInv, DeadIsDoomed, DoomedIsMarked, NoneToCommit, LevelsDoomed
<1>2. CASE ~EndRun
  <2>1. Kept \/ Condemning
    BY <1>2, StepIs DEF DoomInv
  <2>2. \A c \in Conn : Dead(pending'[c]) =>
          in_batch(batchlevels') \/ c = on' \/ Interruption'
    BY DEF SettledInv, NothingOrphaned, Dead, Own, uses_db, in_batch
  <2>3. pc = "over" => pc' = "over" /\ batchlevels' = batchlevels
    BY OverStays DEF Done, vars, control
  <2>4. DeadIsDoomed'
    <3> SUFFICES ASSUME NEW c \in Conn, Dead(pending'[c]), ~Interruption', pc' # "over"
                 PROVE  doomed'
      BY DEF DeadIsDoomed
    <3>1. c # "none"
      BY TransactionsAssumption
    <3>2. CASE Kept
      <4>1. doomed
        BY <2>3, <3>2 DEF Kept, DoomInv, DeadIsDoomed
      <4>2. in_batch(batchlevels')
        BY <2>2, <3>1, <3>2, <4>1 DEF Kept
      <4>3. QED
        BY <3>2, <4>1, <4>2 DEF Kept
    <3>3. CASE Condemning
      BY <2>2, <3>1, <3>3 DEF Condemning
    <3>4. QED
      BY <2>1, <3>2, <3>3
  <2>5. DoomedIsMarked'
    <3>1. CASE Condemning
      BY <3>1 DEF Condemning, DoomedIsMarked
    <3>2. CASE Kept
      <4> SUFFICES ASSUME doomed'
                   PROVE  /\ in_batch(batchlevels')
                          /\ batchlevels'[1].failed \/ OnTheWayOut' \/ pc' = "over"
        BY DEF DoomedIsMarked
      <4>1. doomed /\ in_batch(batchlevels') /\ batchlevels'[1].failed = batchlevels[1].failed
        BY <3>2 DEF Kept
      <4>2. batchlevels[1].failed \/ OnTheWayOut \/ pc = "over"
        BY <4>1 DEF DoomInv, DoomedIsMarked
      <4>3. QED
        BY <2>3, <3>2, <4>1, <4>2 DEF Kept
    <3>3. QED
      BY <2>1, <3>1, <3>2
  <2>6. NoneToCommit'
    BY <2>1 DEF Kept, Condemning, DoomInv, NoneToCommit
  <2>7. LevelsDoomed'
    <3> SUFFICES ASSUME ~Interruption', pc' # "over", ~doomed'
                 PROVE  LevelsCovered'
      BY DEF LevelsDoomed
    <3>1. CASE ~in_batch(batchlevels')
      <4>1. Len(batchlevels') = 0
        BY <3>1, EmptySeq DEF in_batch
      <4>2. 1 .. Len(batchlevels') = {}
        BY <4>1
      <4>3. QED
        BY <4>2 DEF LevelsCovered
    <3>2. CASE in_batch(batchlevels')
      <4>1. Kept /\ ~doomed /\ ~Interruption
        BY <2>1, <3>2 DEF Kept, Condemning
      <4>2. LevelsCovered
        BY <2>3, <4>1 DEF DoomInv, LevelsDoomed
      <4>3. CASE Next
        BY <4>1, <4>2, <4>3, CoverStep
      <4>4. CASE UNCHANGED vars
        BY <4>2, <4>4 DEF vars, control, LevelsCovered, Covered, IsBatch
      <4>5. QED
        BY <4>3, <4>4
    <3>3. QED
      BY <3>1, <3>2
  <2>8. QED
    BY <2>4, <2>5, <2>6, <2>7 DEF DoomInv
<1>3. QED
  BY <1>1, <1>2

LEMMA OutcomesInvariant == Spec => []OutcomesInv
<1>1. Init => DoomInv
  <2> SUFFICES ASSUME Init PROVE DoomInv
    OBVIOUS
  <2>1. pc = "ready" /\ ~doomed /\ batchlevels = <<>> /\ pending = [c \in Conn |-> {}]
    BY DEF Init, ConnInit, BatchInit
  <2>2. 1 .. Len(batchlevels) = {}
    BY <2>1, EmptySeq
  <2>3. QED
    BY <2>1, <2>2 DEF DoomInv, DeadIsDoomed, DoomedIsMarked, NoneToCommit, LevelsDoomed, LevelsCovered,
       Interruption, Dead
<1>2. Inv /\ Inv' /\ DoomInv /\ [Next]_vars => DoomInv'
  BY DoomStep DEF Inv
<1>3. QED
  BY <1>1, <1>2, InvInductive, PTL DEF Spec, OutcomesInv

(* What a failing step settles. *)
LEMMA FailsFate ==
  ASSUME pending \in Pending, NEW L, NEW S, NEW D, Fails(L, S, D)
  PROVE  \A c \in Conn : /\ fate'[c] = "stored" => c \in S
                         /\ fate'[c] = "discarded" => c \in D
                         /\ c \notin S \cup D => fate'[c] = "kept"
BY CondemnedIs, SettleFate DEF Fails

(* The ways in which pending work is stored: an EXECUTE, IMPORT or COPY, the
   script's own doing, the end of a statement outside any batch, and END BATCH. *)
LEMMA WhatIsStored ==
  ASSUME Typed, Next, ~Done, NEW c \in Conn, fate'[c] = "stored"
  PROVE  \/ pc = "loaded"
         \/ pc = "ready" /\ pc' \in {"ready", "ran"} /\ frames' = frames
         \/ pc \in {"ran", "inserted"} /\ c = on /\ ~Holds(c)
         \/ AtEndBatch /\ in_batch(batchlevels) /\ ~failure(batchlevels)
<1>1. \A p \in Pending : \A D : ~Settle(p, {}, D)
  BY SettleFate
<1>2. \A L : \A D : ~Fails(L, {}, D)
  BY FailsFate DEF Typed
<1>3. /\ pending \in Pending /\ Condemned(pending) \in Pending
      /\ \A x \in Conn : Holding(x) \in Pending
  BY CondemnedIs, HoldingIs DEF Typed
<1>4. CASE Statement
  <2>1. CASE \E effect \in SqlEffects : RunSql(effect)
    BY <2>1 DEF RunSql, Runs
  <2>2. CASE \E x \in Conn : InsertRows(x) \/ Load(x)
    BY <1>1, <1>3, <2>2 DEF InsertRows, Load, Untouched
  <2>3. CASE FinishStatement
    <3>1. c \in IF Holds(on) THEN {} ELSE {on}
      BY <1>3, <2>3, SettleFate DEF FinishStatement
    <3>2. QED
      BY <2>3, <3>1 DEF FinishStatement
  <2>4. CASE LoadCommits \/ LoadWrites \/ FinishLoad \/ FailLoad \/ FailLoadAfterCreate
    BY <2>4 DEF LoadCommits, LoadWrites, FinishLoad, FailLoad, FailLoadAfterCreate
  <2>5. CASE FailStatement \/ FailMetacommand
    BY <1>2, <2>5 DEF FailStatement, FailMetacommand
  <2>6. CASE RaiseError
    BY <1>1, <1>2, <1>3, <2>6 DEF RaiseError, Untouched
  <2>7. QED
    BY <1>4, <2>1, <2>2, <2>3, <2>4, <2>5, <2>6 DEF Statement
<1>5. CASE Setting
  BY <1>2, <1>5 DEF Setting, AutocommitOn, AutocommitOff, Use, Connect, Disconnect, CarriesOn, Goes
<1>6. CASE Batch
  BY <1>1, <1>2, <1>3, <1>6 DEF Batch, BeginBatch, RollbackBatch, CommitBatch, RefuseBatch,
     FailCommitBatch, Untouched
<1>7. CASE Leaving
  <2>1. \A p \in Pending : \A C : LeftBehind(p, C, "cut") \in Pending
    BY LeftBehindIs
  <2>2. \A p \in Pending : \A D, E : ~RolledBackAfterInterrupt(p, D, E)
    BY <1>1, <2>1 DEF RolledBackAfterInterrupt
  <2>3. CASE ErrorAtPrompt \/ InterruptAtPrompt \/ EndRun
    BY <1>2, <1>3, <2>2, <2>3 DEF ErrorAtPrompt, InterruptAtPrompt, EndRun
  <2>4. CASE ~(ErrorAtPrompt \/ InterruptAtPrompt \/ EndRun)
    BY <1>1, <1>3, <1>7, <2>4 DEF Leaving, Break, BreakCaught, Halt, Quit, OpenInput, CloseInput,
       ExitNow, EndHaltScript, UnwindBatch, UnwindOther, ErrorAtTop, Untouched
  <2>5. QED
    BY <2>3, <2>4
<1>8. CASE Signal
  <2>1. CASE InterruptCommitBatch
    BY <2>1 DEF InterruptCommitBatch
  <2>2. CASE InterruptStatement
    <3>1. PICK S \in {{}} \cup {{x} : x \in {on} \ {y \in Conn : Holds(y)}} :
            \E R : Fails(batchlevels, S, R)
      BY <2>2 DEF InterruptStatement, Interrupted
    <3>2. c \in S
      BY <1>3, <3>1, FailsFate
    <3>3. QED
      BY <2>2, <3>2 DEF InterruptStatement
  <2>3. CASE InterruptMetacommand
    <3>1. PICK S \in {{}} \cup {{x} : x \in Managed({on} \ {"none"})} :
            \E R : Fails(batchlevels, S, R)
      BY <2>3 DEF InterruptMetacommand, Interrupted
    <3>2. c \in S
      BY <1>3, <3>1, FailsFate
    <3>3. on # "none"
      BY <3>2 DEF Managed
    <3>4. QED
      BY <2>3, <3>3 DEF InterruptMetacommand, Typed
  <2>4. CASE Interrupt \/ InterruptExit \/ InterruptUnwind
    BY <1>1, <1>3, <2>4 DEF Interrupt, InterruptExit, InterruptUnwind, AbandonInterrupted, Untouched
  <2>5. QED
    BY <1>8, <2>1, <2>2, <2>3, <2>4 DEF Signal
<1>9. QED
  BY <1>4, <1>5, <1>6, <1>7, <1>8 DEF Next

(* Work that was pending when something in its stack of batches failed, or when
   a signal came, is never stored by execsql on its own account: not by an END BATCH,
   not by a later statement, and not on the way out.  Only the transaction in which a
   failed IMPORT or a rollback cut short has left it may still be stored. *)
THEOREM CondemnedStaysUnstored == Spec => CondemnedNeverStored
<1> DEFINE A == \A c \in Conn : ("dead" \in pending[c] /\ fate'[c] = "stored") =>
                  \/ pc = "loaded"
                  \/ pc = "ready" /\ pc' \in {"ready", "ran"} /\ frames' = frames
                  \/ Left(pending[c])
<1>1. OutcomesInv /\ [Next]_vars => [A]_vars
  <2> SUFFICES ASSUME OutcomesInv, Next, ~Done, NEW c \in Conn,
                      "dead" \in pending[c], ~Left(pending[c]), fate'[c] = "stored"
               PROVE  \/ pc = "loaded"
                      \/ pc = "ready" /\ pc' \in {"ready", "ran"} /\ frames' = frames
    BY DEF Done
  <2>1. Typed /\ batchlevels \in Stack
    BY DEF OutcomesInv, Inv, TypeOK, ConnTypeOK, BatchTypeOK, Pending, Stack, Typed
  <2>2. doomed \/ Interruption \/ pc = "over"
    BY DEF OutcomesInv, DoomInv, DeadIsDoomed, Dead
  <2>3. doomed => in_batch(batchlevels) /\ (batchlevels[1].failed \/ OnTheWayOut \/ pc = "over")
    BY DEF OutcomesInv, DoomInv, DoomedIsMarked
  <2>4. CASE pc \in {"ran", "inserted"} /\ c = on /\ ~Holds(c)
    BY <2>2, <2>3, <2>4 DEF Holds, Interruption
  <2>5. CASE AtEndBatch /\ in_batch(batchlevels) /\ ~failure(batchlevels)
    <3>1. 1 \in DOMAIN batchlevels
      BY <2>1, <2>5, StackIs
    <3>2. ~batchlevels[1].failed
      BY <2>5, <3>1 DEF failure
    <3>3. QED
      BY <2>2, <2>3, <2>5, <3>2 DEF AtEndBatch, OnTheWayOut, Interruption
  <2>6. QED
    BY <2>1, <2>4, <2>5, WhatIsStored
<1>2. QED
  BY <1>1, OutcomesInvariant, PTL DEF Spec, CondemnedNeverStored

(* Ending a batch, a halt and an unwinding interrupt's clean-up settle only
   connections under AUTOCOMMIT ON. *)
THEOREM ScriptsTransactionsAreKept == Spec => ScriptsTransactionKept
<1> DEFINE A == (pc \in {"halting", "raised"} \/ Len(frames') < Len(frames)) /\ pc' # "over" =>
                  \A c \in Conn : ~autocommit[c] => fate'[c] = "kept"
<1>1. Inv /\ [Next]_vars => [A]_vars
  <2> SUFFICES ASSUME Inv, Next, ~Done, pc' # "over",
                      pc \in {"halting", "raised"} \/ Len(frames') < Len(frames),
                      NEW c \in Conn, ~autocommit[c]
               PROVE  fate'[c] = "kept"
    BY DEF Done
  <2>1. Typed /\ Len(frames) \in Nat
    BY LenProperties DEF Inv, TypeOK, ConnTypeOK, BatchTypeOK, Pending, Stack, Typed
  <2>2. \A S : c \notin Managed(S)
    BY DEF Managed
  <2>3. \A S, D : c \notin S \cup D =>
          /\ \A p \in Pending : Settle(p, S, D) => fate'[c] = "kept"
          /\ \A L : Fails(L, S, D) => fate'[c] = "kept"
    BY <2>1, SettleFate, FailsFate DEF Typed
  <2>4. pending \in Pending /\ Condemned(pending) \in Pending
    BY <2>1, CondemnedIs DEF Typed
  <2>5. frames' = frames => pc \in {"halting", "raised"}
    BY <2>1
  <2>6. CASE Statement \/ Setting
    BY <2>5, <2>6 DEF Statement, RunSql, InsertRows, Load, FinishStatement, FailStatement, LoadCommits,
       LoadWrites, FinishLoad, FailLoad, FailLoadAfterCreate, FailMetacommand, RaiseError, Runs,
       CarriesOn, Halts, control, Setting, AutocommitOn, AutocommitOff, Use, Connect, Disconnect
  <2>7. CASE Batch
    <3>1. CASE BeginBatch
      <4>1. Len(frames') = Len(frames) + 1 /\ pc = "ready"
        BY <2>1, <3>1 DEF BeginBatch, Pushed, Typed
      <4>2. QED
        BY <2>1, <4>1
    <3>2. CASE RollbackBatch
      BY <2>5, <3>2 DEF RollbackBatch, CarriesOn
    <3>3. CASE CommitBatch
      BY <2>2, <2>3, <2>4, <3>3 DEF CommitBatch, Untouched
    <3>4. CASE RefuseBatch
      BY <2>2, <2>3, <3>4 DEF RefuseBatch
    <3>5. CASE FailCommitBatch
      <4>1. PICK S \in SUBSET Managed(Innermost.dbs_used) :
              Fails(Shorter(batchlevels, Len(batchlevels)), S, Managed(Innermost.dbs_used) \ S)
        BY <3>5 DEF FailCommitBatch
      <4>2. c \notin S \cup (Managed(Innermost.dbs_used) \ S)
        BY <2>2
      <4>3. QED
        BY <2>3, <4>1, <4>2
    <3>6. QED
      BY <2>7, <3>1, <3>2, <3>3, <3>4, <3>5 DEF Batch
  <2>8. CASE Leaving
    <3>1. CASE InterruptAtPrompt
      <4>1. PICK C : Settle(LeftBehind(Condemned(pending), C, "cut"), {},
                            {} \cup (Managed(pool) \ C))
        BY <3>1 DEF InterruptAtPrompt, RolledBackAfterInterrupt
      <4>2. LeftBehind(Condemned(pending), C, "cut") \in Pending
        BY <2>4, LeftBehindIs
      <4>3. c \notin {} \cup ({} \cup (Managed(pool) \ C))
        BY <2>2
      <4>4. QED
        BY <2>3, <4>1, <4>2, <4>3
    <3>2. CASE ExitNow \/ UnwindBatch
      BY <2>2, <2>3, <2>4, <3>2 DEF ExitNow, UnwindBatch
    <3>3. CASE ~InterruptAtPrompt /\ ~ExitNow /\ ~UnwindBatch
      BY <2>3, <2>4, <2>8, <3>3 DEF Leaving, Break, BreakCaught, Halt, Quit, OpenInput, CloseInput,
         EndHaltScript, UnwindOther, ErrorAtPrompt, ErrorAtTop, EndRun, Goes, Untouched
    <3>4. QED
      BY <3>1, <3>2, <3>3
  <2>9. CASE Signal
    <3>1. CASE InterruptCommitBatch \/ InterruptStatement \/ InterruptMetacommand
      BY <2>5, <3>1 DEF InterruptCommitBatch, InterruptStatement, InterruptMetacommand, Interrupted, AtEndBatch
    <3>2. CASE Interrupt
      BY <2>3, <2>4, <3>2 DEF Interrupt, Untouched
    <3>3. CASE InterruptExit \/ InterruptUnwind
      <4>1. PICK k : \E R \in SUBSET Managed(Orphans(batchlevels, k)) : Settle(Condemned(pending), {}, R)
        BY <3>3 DEF InterruptExit, InterruptUnwind, AbandonInterrupted
      <4>2. PICK R \in SUBSET Managed(Orphans(batchlevels, k)) : Settle(Condemned(pending), {}, R)
        BY <4>1
      <4>3. QED
        BY <2>2, <2>3, <2>4, <4>2
    <3>4. QED
      BY <2>9, <3>1, <3>2, <3>3 DEF Signal
  <2>10. QED
    BY <2>6, <2>7, <2>8, <2>9 DEF Next
<1>2. QED
  BY <1>1, InvInductive, PTL DEF Spec, ScriptsTransactionKept

(* When END BATCH leaves its block with SQL_ERROR() not set, all that execsql had
   to commit on the connections the batch used is stored, and no work was rolled back. *)
THEOREM SqlErrorIsTrue == Spec => SqlErrorTellsTheTruth
<1> DEFINE Guard == AtEndBatch /\ in_batch(batchlevels) /\ pc' = "ready" /\ Len(frames') < Len(frames)
                      /\ ~sql_error'
           A == Guard =>
                  \A c \in Conn :
                    /\ fate'[c] # "discarded"
                    /\ c \in Managed(Innermost.dbs_used) => pending'[c] = {}
<1>1. Inv /\ [Next]_vars => [A]_vars
  <2> SUFFICES ASSUME Inv, Next, ~Done, Guard, NEW c \in Conn
               PROVE  fate'[c] # "discarded" /\ (c \in Managed(Innermost.dbs_used) => pending'[c] = {})
    BY DEF Done
  <2>1. pending \in Pending /\ Len(frames) \in Nat /\ frames \in Seq(Frame)
    BY LenProperties DEF Inv, TypeOK, ConnTypeOK, Pending
  <2>2. frames' # frames
    BY <2>1
  <2>3. ~TopIs("input") /\ ~TopIs("deferred") /\ pc = "ready"
    BY DEF AtEndBatch, TopIs
  <2>4. \A kind, level : ~Pushed(kind, level)
    <3> SUFFICES ASSUME NEW kind, NEW level, Pushed(kind, level) PROVE FALSE
      OBVIOUS
    <3>1. Len(frames') = Len(frames) + 1
      BY <2>1 DEF Pushed
    <3>2. QED
      BY <2>1, <3>1
  <2>5. CommitBatch
    <3>1. ~Statement /\ ~Setting /\ ~Signal
      BY <2>2, <2>3 DEF Statement, RunSql, InsertRows, Load, FinishStatement, FailStatement, LoadCommits,
         LoadWrites, FinishLoad, FailLoad, FailLoadAfterCreate, FailMetacommand, RaiseError, Runs,
         CarriesOn, Halts, control, Setting, AutocommitOn, AutocommitOff, Use, Connect, Disconnect,
         Signal, InterruptCommitBatch, Interrupt, InterruptStatement, InterruptMetacommand, Interrupted,
         InterruptExit, InterruptUnwind
    <3>2. ~Leaving
      BY <2>2, <2>3, <2>4 DEF Leaving, Break, BreakCaught, Halt, Quit, OpenInput, CloseInput, ExitNow,
         EndHaltScript, UnwindBatch, ErrorAtPrompt, InterruptAtPrompt, UnwindOther, ErrorAtTop, EndRun,
         Interruption, CarriesOn
    <3>3. QED
      BY <2>2, <2>4, <3>1, <3>2 DEF Next, Batch, BeginBatch, RollbackBatch, RefuseBatch, FailCommitBatch,
         EndsWithError, CarriesOn
  <2>6. Settle(pending, Managed(Innermost.dbs_used), {})
    BY <2>5 DEF CommitBatch
  <2>7. QED
    BY <2>1, <2>6, SettleFate, SettleIs
<1>2. QED
  BY <1>1, InvInductive, PTL DEF Spec, SqlErrorTellsTheTruth

(* While nothing has failed in the stack of batches, the work execsql holds in it is
   discarded by no other step than the script's own rollbacks, one that marks the whole
   stack, and one that ends the whole stack early or at an END BATCH that fails. *)
THEOREM BatchWorkIsSafe == Spec => BatchWorkIsKept
<1> DEFINE Ended == batchlevels' = <<>> /\ (pc \in {"halting", "raised"} \/ (AtEndBatch /\ sql_error'))
           Goal(c) == ScriptRollsBack(c) \/ doomed' \/ Ended
           A == \A c \in Conn :
                  ("own" \in pending[c] /\ ~Left(pending[c]) /\ in_batch(batchlevels)
                     /\ fate'[c] = "discarded") =>
                    \/ ScriptRollsBack(c)
                    \/ doomed'
                    \/ batchlevels' = <<>> /\ (pc \in {"halting", "raised"} \/ (AtEndBatch /\ sql_error'))
<1>1. OutcomesInv /\ [Next]_vars => [A]_vars
  <2> SUFFICES ASSUME OutcomesInv, Next, ~Done, NEW c \in Conn,
                      "own" \in pending[c], ~Left(pending[c]), in_batch(batchlevels),
                      fate'[c] = "discarded"
               PROVE  Goal(c)
    BY DEF Done
  <2> HIDE DEF Ended
  <2>1. Typed
    BY DEF OutcomesInv, Inv, TypeOK, ConnTypeOK, BatchTypeOK, Pending, Stack, Typed
  <2>2. ~doomed /\ ~Interruption
    BY DEF OutcomesInv, DoomInv, NoneToCommit
  <2>3. \A p \in Pending : \A S, D : Settle(p, S, D) => c \in D
    BY SettleFate
  <2>4. \A S, D : Fails(batchlevels, S, D) => doomed'
    BY DEF Fails
  <2>5. \A L, S, D : Fails(L, S, D) => doomed' \/ batchlevels' = <<>>
    <3> SUFFICES ASSUME NEW L, NEW S, NEW D, Fails(L, S, D), ~in_batch(L)
                 PROVE  batchlevels' = <<>>
      BY DEF Fails
    <3>1. L = <<>> /\ batchlevels' = fail_enclosing(L)
      BY DEF Fails, in_batch
    <3>2. QED
      BY <3>1 DEF fail_enclosing
  <2>6. pending \in Pending /\ Condemned(pending) \in Pending
    BY <2>1, CondemnedIs DEF Typed
  <2>7. \A p \in Pending : ~Untouched(p)
    BY <2>3 DEF Untouched
  <2>8. \A x \in Conn : Holding(x) \in Pending
    BY <2>6, HoldingIs
  <2>9. CASE Statement
    <3>1. CASE \E effect \in SqlEffects : RunSql(effect)
      <4>1. PICK effect \in SqlEffects : RunSql(effect)
        BY <3>1
      <4>2. Holding(current_db) \in Pending
        BY <2>1, <2>8 DEF Typed
      <4>3. CASE effect = "rollback"
        <5>1. c \in {current_db}
          BY <2>3, <2>6, <4>1, <4>3 DEF RunSql
        <5>2. QED
          BY <4>1, <4>3, <5>1 DEF ScriptRollsBack
      <4>4. CASE effect # "rollback"
        BY <2>3, <2>6, <2>7, <4>1, <4>2, <4>4 DEF RunSql, SqlEffects
      <4>5. QED
        BY <4>3, <4>4
    <3>2. CASE FailLoadAfterCreate
      BY <3>2 DEF FailLoadAfterCreate
    <3>3. CASE RaiseError
      BY <2>4, <2>6, <2>7, <3>3 DEF RaiseError
    <3>4. CASE FailStatement \/ FailLoad \/ FailMetacommand
      BY <2>4, <3>4 DEF FailStatement, FailLoad, FailMetacommand
    <3>5. CASE \E x \in Conn : InsertRows(x) \/ Load(x)
      BY <2>7, <2>8, <3>5 DEF InsertRows, Load
    <3>6. CASE FinishStatement \/ LoadCommits \/ FinishLoad
      BY <2>3, <2>6, <3>6 DEF FinishStatement, LoadCommits, FinishLoad
    <3>7. CASE LoadWrites
      BY <2>1, <2>7, <2>8, <3>7 DEF LoadWrites, Typed
    <3>8. QED
      BY <2>9, <3>1, <3>2, <3>3, <3>4, <3>5, <3>6, <3>7 DEF Statement
  <2>10. CASE Setting
    <3>1. CASE AutocommitOn
      <4>1. CASE Fails(batchlevels, {}, {current_db})
        BY <2>4, <4>1
      <4>2. CASE Settle(pending, {}, {current_db})
        <5>1. c \in {current_db}
          BY <2>3, <2>6, <4>2
        <5>2. QED
          BY <3>1, <5>1 DEF ScriptRollsBack
      <4>3. CASE Untouched(pending) \/ Settle(pending, {current_db}, {})
        BY <2>3, <2>6, <2>7, <4>3
      <4>4. QED
        BY <3>1, <4>1, <4>2, <4>3 DEF AutocommitOn
    <3>2. CASE AutocommitOff
      <4> DEFINE p == [pending EXCEPT ![current_db] = IF pending[current_db] = {} THEN {} ELSE {"other"}]
      <4>1. p \in Pending
        BY <2>1 DEF Typed, Pending, Mark
      <4>2. Untouched(p)
        BY <3>2 DEF AutocommitOff, AutocommitTurnedOff
      <4> HIDE DEF p
      <4>3. QED
        BY <2>7, <4>1, <4>2
    <3>3. CASE \E x \in Conn : Use(x)
      BY <2>6, <2>7, <3>3 DEF Use, MadeCurrent
    <3>4. CASE \E x \in Conn : Connect(x) \/ Disconnect(x)
      <4>1. PICK x \in Conn : Connect(x) \/ Disconnect(x)
        BY <3>4
      <4>2. c = x /\ ~uses_db(batchlevels, x) /\ pc = "ready"
        BY <2>3, <2>6, <4>1 DEF Connect, Disconnect, Connected, Disconnected
      <4>3. Own(pending[c]) /\ c # on
        BY <2>1, <4>2, TransactionsAssumption DEF Own, Typed
      <4>4. QED
        BY <2>2, <4>2, <4>3 DEF OutcomesInv, Inv, SettledInv, NothingOrphaned
    <3>5. QED
      BY <2>10, <3>1, <3>2, <3>3, <3>4 DEF Setting
  <2>11. CASE Batch
    <3>1. CASE BeginBatch
      BY <2>6, <2>7, <3>1 DEF BeginBatch
    <3>2. CASE RollbackBatch
      <4>1. c \in Innermost.dbs_used
        BY <2>3, <2>6, <3>2 DEF RollbackBatch
      <4>2. QED
        BY <3>2, <4>1 DEF ScriptRollsBack
    <3>3. CASE CommitBatch
      BY <2>3, <2>6, <2>7, <3>3 DEF CommitBatch
    <3>4. CASE RefuseBatch \/ FailCommitBatch
      <4>1. AtEndBatch /\ sql_error' /\ \E L, S, D : Fails(L, S, D)
        BY <3>4 DEF RefuseBatch, FailCommitBatch, EndsWithError
      <4>2. doomed' \/ batchlevels' = <<>>
        BY <2>5, <4>1
      <4>3. QED
        BY <4>1, <4>2 DEF Ended
    <3>5. QED
      BY <2>11, <3>1, <3>2, <3>3, <3>4 DEF Batch
  <2>12. CASE Leaving
    <3>1. CASE UnwindBatch
      <4>1. c \in Orphans(batchlevels, Top.level) /\ batchlevels' = abandon_to(batchlevels, Top.level)
            /\ pc = "raised"
        BY <2>3, <2>6, <3>1 DEF UnwindBatch, Managed, Pops
      <4>2. Top.level = 1 /\ Len(batchlevels) \in Nat \ {0}
        BY <2>1, <4>1, StackIs DEF Orphans, Typed, in_batch
      <4>3. QED
        BY <4>1, <4>2 DEF abandon_to, Ended
    <3>2. CASE ExitNow
      BY <3>2 DEF ExitNow, Pops, Ended
    <3>3. CASE ErrorAtPrompt
      BY <2>4, <3>3 DEF ErrorAtPrompt
    <3>4. CASE InterruptAtPrompt
      BY <2>2, <3>4 DEF InterruptAtPrompt
    <3>5. CASE EndRun
      <4>1. frames = <<>> /\ pc # "over"
        BY <3>5 DEF EndRun
      <4>2. LevelsCovered
        BY <2>2, <4>1 DEF OutcomesInv, DoomInv, LevelsDoomed
      <4>3. 1 \in 1 .. Len(batchlevels)
        BY <2>1, StackIs DEF Typed, in_batch
      <4>4. QED
        BY <4>1, <4>2, <4>3 DEF LevelsCovered, Covered
    <3>6. CASE ~UnwindBatch /\ ~ExitNow /\ ~ErrorAtPrompt /\ ~InterruptAtPrompt /\ ~EndRun
      BY <2>6, <2>7, <2>12, <3>6 DEF Leaving, Break, BreakCaught, Halt, Quit, OpenInput, CloseInput,
         EndHaltScript, UnwindOther, ErrorAtTop
    <3>7. QED
      BY <3>1, <3>2, <3>3, <3>4, <3>5, <3>6
  <2>13. CASE Signal
    <3>1. CASE InterruptCommitBatch
      <4>1. AtEndBatch /\ sql_error' /\ \E L, S, D : Fails(L, S, D)
        BY <3>1 DEF InterruptCommitBatch, Interrupted
      <4>2. doomed' \/ batchlevels' = <<>>
        BY <2>5, <4>1
      <4>3. QED
        BY <4>1, <4>2 DEF Ended
    <3>2. CASE InterruptStatement \/ InterruptMetacommand
      BY <2>4, <3>2 DEF InterruptStatement, InterruptMetacommand, Interrupted
    <3>3. CASE Interrupt
      BY <2>6, <2>7, <3>3 DEF Interrupt
    <3>4. CASE InterruptExit \/ InterruptUnwind
      BY <3>4 DEF InterruptExit, InterruptUnwind, AbandonInterrupted, in_batch, Ended
    <3>5. QED
      BY <2>13, <3>1, <3>2, <3>3, <3>4 DEF Signal
  <2>14. QED
    BY <2>9, <2>10, <2>11, <2>12, <2>13 DEF Next
<1>2. QED
  BY <1>1, OutcomesInvariant, PTL DEF Spec, BatchWorkIsKept
=============================================================================
