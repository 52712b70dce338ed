--------------------------- MODULE ExecutorProofs ---------------------------
(***************************************************************************)
(* Theorems about Executor, for any files, SCRIPTs and depth of nesting,   *)
(* and about the scopes of variables (Scopes), for any commands.           *)
(***************************************************************************)
EXTENDS Executor, Scopes, SequenceTheorems, TLAPS

Call == [kind : Kinds, file : File, at : Places, depth : Nat, links : Nat]
Frame == [kind : FrameKinds, scope : Nat]

(***************************************************************************)
(* Where the runners are: all but the innermost are suspended in their     *)
(* body; those without a frame are never anywhere else; only INCLUDE has a *)
(* step before its frame is pushed and one after it is popped.             *)
(***************************************************************************)
PlacedIn(c) ==
  /\ \A i \in 1 .. Len(c) - 1 : c[i].at = "body"
  /\ \A i \in 1 .. Len(c) :
       /\ c[i].kind \notin FrameKinds => c[i].at = "body"
       /\ c[i].at \in {"chained", "popped"} => c[i].kind = "include"
  /\ c # <<>> => c[1].kind = "main" /\ c[1].depth = 0 /\ c[1].links = 1

(* The properties of Executor, of any runners, frames and chain. *)
FramesOf(c, s) ==
  /\ Len(s) = IF c = <<>> THEN 0 ELSE c[Len(c)].depth + Frames(c[Len(c)])
  /\ \A i \in 1 .. Len(c) - 1 : c[i + 1].depth = c[i].depth + Frames(c[i])
  /\ \A i \in 1 .. Len(c) : Framed(c[i]) => s[c[i].depth + 1].kind = c[i].kind

ChainOf(c, h) ==
  /\ h[1] = Main
  /\ Len(h) = IF c = <<>> THEN 1 ELSE c[Len(c)].links + Links(c[Len(c)])
  /\ \A i \in 1 .. Len(c) - 1 : c[i + 1].links = c[i].links + Links(c[i])
  /\ \A i \in 1 .. Len(c) : c[i].kind = "include" => h[c[i].links + 1] = c[i].file
  /\ \A i, j \in 1 .. Len(h) : i # j => h[i] # h[j]

ScopesOf(s) ==
  \A j \in 1 .. Len(s) :
    /\ s[j].scope \in 1 .. j
    /\ s[s[j].scope].kind \in ScopeKinds
    /\ \A k \in s[j].scope + 1 .. j : s[k].kind \notin ScopeKinds

(***************************************************************************)
(* What those say of neighbours, of any two runners; and that no frame and *)
(* no link of the chain is without its runner.                             *)
(***************************************************************************)
FramesNested(c, s) ==
  /\ \A i \in 1 .. Len(c) : Framed(c[i]) => c[i].depth + 1 \in 1 .. Len(s)
  /\ \A i, j \in 1 .. Len(c) : i < j => c[i].depth + Frames(c[i]) <= c[j].depth
  /\ \A k \in 1 .. Len(s) : \E i \in 1 .. Len(c) : Framed(c[i]) /\ c[i].depth + 1 = k

LinksNested(c, h) ==
  /\ \A i \in 1 .. Len(c) : c[i].links \in 1 .. Len(h)
  /\ \A i \in 1 .. Len(c) : c[i].kind = "include" => c[i].links + 1 \in 1 .. Len(h)
  /\ \A i, j \in 1 .. Len(c) : i < j => c[i].links + Links(c[i]) <= c[j].links

Shape(c, s, h) ==
  /\ c \in Seq(Call) /\ s \in Seq(Frame) /\ h \in Seq(File)
  /\ PlacedIn(c)
  /\ FramesOf(c, s) /\ FramesNested(c, s)
  /\ ChainOf(c, h) /\ LinksNested(c, h)

CaughtIn(c) == \E i \in 1 .. Len(c) : c[i].kind \in CatchesBreak /\ c[i].at = "body"

(***************************************************************************)
(* FramesAreTheOpenRunners is not inductive without PlacedIn and Frames-   *)
(* Nested, and BreakIsCaught not without all three: that a frame on the    *)
(* stack has a runner that catches is what makes the answer of             *)
(* _break_has_target right.                                                *)
(***************************************************************************)
ExecutorInv ==
  /\ TypeOK
  /\ Shape(calls, ast_exec_stack, include_chain)
  /\ ScopesOf(ast_exec_stack)
  /\ raised = "break" => CaughtIn(calls)

(* What is left when the last of a sequence is taken off. *)
LEMMA BelowIs ==
  ASSUME NEW S, NEW s \in Seq(S), s # <<>>
  PROVE  /\ Below(s) \in Seq(S)
         /\ Len(s) \in Nat /\ Len(s) >= 1
         /\ Len(Below(s)) = Len(s) - 1
         /\ \A i \in 1 .. Len(s) - 1 : Below(s)[i] = s[i]
<1>1. Len(s) \in Nat /\ Len(s) >= 1
  BY LenProperties, EmptySeq
<1>2. \A i \in 1 .. Len(s) - 1 : s[i] \in S
  BY <1>1, ElementOfSeq
<1>3. /\ Below(s) \in Seq(S)
      /\ Len(Below(s)) = IF 1 <= Len(s) - 1 THEN Len(s) - 1 - 1 + 1 ELSE 0
      /\ \A i \in 1 .. Len(s) - 1 - 1 + 1 : Below(s)[i] = s[1 + i - 1]
  BY <1>1, <1>2, SubSeqProperties DEF Below
<1>4. Len(Below(s)) = Len(s) - 1
  <2>1. \A m \in Nat : m >= 1 => (IF 1 <= m - 1 THEN m - 1 - 1 + 1 ELSE 0) = m - 1
    OBVIOUS
  <2>2. QED
    BY <1>1, <1>3, <2>1
<1>5. \A i \in 1 .. Len(s) - 1 : Below(s)[i] = s[i]
  BY <1>1, <1>3
<1>6. QED
  BY <1>1, <1>3, <1>4, <1>5

(* What a sequence is with one more at its end. *)
LEMMA AppendIs ==
  ASSUME NEW S, NEW s \in Seq(S), NEW e \in S
  PROVE  /\ Append(s, e) \in Seq(S)
         /\ Len(s) \in Nat
         /\ Len(Append(s, e)) = Len(s) + 1
         /\ \A i \in 1 .. Len(s) : Append(s, e)[i] = s[i]
         /\ Append(s, e)[Len(s) + 1] = e
         /\ Append(s, e) # <<>>
<1>1. Append(s, e) \in Seq(S) /\ Len(Append(s, e)) = Len(s) + 1 /\ Append(s, e)[Len(s) + 1] = e
      /\ \A i \in 1 .. Len(s) : Append(s, e)[i] = s[i]
  BY AppendProperties
<1>2. Len(s) \in Nat
  BY LenProperties
<1>3. QED
  BY <1>1, <1>2, EmptySeq

(* Moving the innermost runner on changes nothing but where it is. *)
LEMMA MovedIs ==
  ASSUME calls \in Seq(Call), calls # <<>>, NEW at \in Places
  PROVE  /\ Moved(at) \in Seq(Call)
         /\ Len(calls) \in Nat /\ Len(calls) >= 1
         /\ Len(Moved(at)) = Len(calls)
         /\ \A i \in 1 .. Len(calls) - 1 : Moved(at)[i] = calls[i]
         /\ Moved(at)[Len(calls)] = [Top EXCEPT !.at = at]
         /\ Top \in Call
<1>1. Len(calls) \in Nat /\ Len(calls) >= 1
  BY SMT
<1>2. Top \in Call
  BY <1>1 DEF Top
<1>3. [Top EXCEPT !.at = at] \in Call
  BY <1>2 DEF Call
<1>4. Moved(at) = [calls EXCEPT ![Len(calls)] = [Top EXCEPT !.at = at]]
  BY DEF Moved, Top
<1>5. QED
  BY <1>1, <1>2, <1>3, <1>4, SMT

(* A frame that is pushed reads its scope off the one below. *)
LEMMA PushedIs ==
  ASSUME ast_exec_stack \in Seq(Frame), ScopesOf(ast_exec_stack), NEW kind \in FrameKinds,
         ast_exec_stack # <<>>
  PROVE  /\ Pushed(kind) \in Seq(Frame)
         /\ Len(Pushed(kind)) = Len(ast_exec_stack) + 1
         /\ \A i \in 1 .. Len(ast_exec_stack) : Pushed(kind)[i] = ast_exec_stack[i]
         /\ Pushed(kind)[Len(ast_exec_stack) + 1].kind = kind
         /\ ScopesOf(Pushed(kind))
<1> DEFINE n == Len(ast_exec_stack)
           e == [kind |-> kind, scope |-> IF kind \in ScopeKinds THEN n + 1 ELSE current_scope]
<1>1. n \in Nat /\ n >= 1
  BY SMT
<1>2. current_scope = ast_exec_stack[n].scope /\ current_scope \in 1 .. n
  BY <1>1 DEF current_scope, ScopesOf
<1>3. e \in Frame
  BY <1>1, <1>2 DEF Frame
<1>4. Pushed(kind) = Append(ast_exec_stack, e)
  BY DEF Pushed
<1>5. /\ Pushed(kind) \in Seq(Frame)
      /\ Len(Pushed(kind)) = n + 1
      /\ \A i \in 1 .. n : Pushed(kind)[i] = ast_exec_stack[i]
      /\ Pushed(kind)[n + 1] = e
  BY <1>3, <1>4, AppendIs
<1>6. ASSUME NEW j \in 1 .. n + 1
      PROVE  /\ Pushed(kind)[j].scope \in 1 .. j
             /\ Pushed(kind)[Pushed(kind)[j].scope].kind \in ScopeKinds
             /\ \A k \in Pushed(kind)[j].scope + 1 .. j : Pushed(kind)[k].kind \notin ScopeKinds
  <2>1. CASE j \in 1 .. n
    <3>1. Pushed(kind)[j] = ast_exec_stack[j] /\ ast_exec_stack[j].scope \in 1 .. j
      BY <1>5, <2>1 DEF ScopesOf
    <3>2. ast_exec_stack[j].scope \in 1 .. n
      BY <1>1, <2>1, <3>1
    <3>3. Pushed(kind)[ast_exec_stack[j].scope] = ast_exec_stack[ast_exec_stack[j].scope]
      BY <1>5, <3>2
    <3>4. \A k \in ast_exec_stack[j].scope + 1 .. j : Pushed(kind)[k] = ast_exec_stack[k]
      BY <1>1, <1>5, <2>1, <3>1
    <3>5. j \in 1 .. Len(ast_exec_stack)
      BY <2>1
    <3>6. /\ ast_exec_stack[ast_exec_stack[j].scope].kind \in ScopeKinds
          /\ \A k \in ast_exec_stack[j].scope + 1 .. j : ast_exec_stack[k].kind \notin ScopeKinds
      BY <3>5 DEF ScopesOf
    <3>7. QED
      BY <3>1, <3>3, <3>4, <3>6
  <2>2. CASE j = n + 1 /\ kind \in ScopeKinds
    BY <1>1, <1>5, <2>2
  <2>3. CASE j = n + 1 /\ kind \notin ScopeKinds
    <3>1. Pushed(kind)[j].scope = current_scope /\ Pushed(kind)[j].kind = kind
      BY <1>5, <2>3
    <3>2. n \in 1 .. Len(ast_exec_stack)
      BY <1>1
    <3>3. /\ ast_exec_stack[current_scope].kind \in ScopeKinds
          /\ \A k \in current_scope + 1 .. n : ast_exec_stack[k].kind \notin ScopeKinds
      BY <1>2, <3>2 DEF ScopesOf
    <3>4. Pushed(kind)[current_scope] = ast_exec_stack[current_scope]
      BY <1>2, <1>5
    <3>5. ASSUME NEW k \in current_scope + 1 .. j
          PROVE  Pushed(kind)[k].kind \notin ScopeKinds
      <4>1. CASE k = n + 1
        BY <2>3, <3>1, <4>1
      <4>2. CASE k # n + 1
        <5>1. k \in 1 .. n /\ k \in current_scope + 1 .. n
          BY <1>1, <1>2, <2>3, <4>2
        <5>2. QED
          BY <1>5, <3>3, <5>1
      <4>3. QED
        BY <4>1, <4>2
    <3>6. current_scope \in 1 .. j
      BY <1>1, <1>2, <2>3
    <3>7. QED
      BY <3>1, <3>3, <3>4, <3>5, <3>6
  <2>4. QED
    BY <1>1, <2>1, <2>2, <2>3
<1>7. QED
  BY <1>1, <1>5, <1>6 DEF ScopesOf

(* Scopes do not look above their own frame. *)
LEMMA ScopesBelow ==
  ASSUME NEW s \in Seq(Frame), s # <<>>, ScopesOf(s)
  PROVE  ScopesOf(Below(s))
<1>1. /\ Len(s) \in Nat /\ Len(s) >= 1
      /\ Len(Below(s)) = Len(s) - 1
      /\ \A i \in 1 .. Len(s) - 1 : Below(s)[i] = s[i]
  BY BelowIs
<1>2. ASSUME NEW j \in 1 .. Len(s) - 1
      PROVE  /\ Below(s)[j].scope \in 1 .. j
             /\ Below(s)[Below(s)[j].scope].kind \in ScopeKinds
             /\ \A k \in Below(s)[j].scope + 1 .. j : Below(s)[k].kind \notin ScopeKinds
  <2>1. Below(s)[j] = s[j] /\ j \in 1 .. Len(s)
    BY <1>1
  <2>2. s[j].scope \in 1 .. j /\ s[j].scope \in 1 .. Len(s) - 1
    BY <1>1, <2>1 DEF ScopesOf
  <2>3. Below(s)[s[j].scope] = s[s[j].scope]
    BY <1>1, <2>2
  <2>4. \A k \in s[j].scope + 1 .. j : Below(s)[k] = s[k]
    BY <1>1, <2>2
  <2>5. QED
    BY <2>1, <2>2, <2>3, <2>4 DEF ScopesOf
<1>3. QED
  BY <1>1, <1>2 DEF ScopesOf

-----------------------------------------------------------------------------
(***************************************************************************)
(* How the runners, the frames and the chain change together.              *)
(***************************************************************************)
(* A runner that is called leaves the others suspended. *)
LEMMA CalledPlaced ==
  ASSUME NEW c \in Seq(Call), NEW r \in Call, PlacedIn(c),
         c # <<>> => c[Len(c)].at = "body",
         c = <<>> => r.kind = "main" /\ r.depth = 0 /\ r.links = 1,
         r.kind \notin FrameKinds => r.at = "body",
         r.at \in {"chained", "popped"} => r.kind = "include"
  PROVE  PlacedIn(Append(c, r))
<1> DEFINE n == Len(c)
           d == Append(c, r)
<1>1. n \in Nat /\ (c = <<>> <=> n = 0)
  BY LenProperties, EmptySeq
<1>2. /\ Len(d) = n + 1 /\ d # <<>>
      /\ \A i \in 1 .. n : d[i] = c[i]
      /\ d[n + 1] = r
  BY AppendIs
<1> HIDE DEF d
<1>3. ASSUME NEW i \in 1 .. n
      PROVE  d[i].at = "body"
  <2>1. CASE i = n
    BY <1>1, <1>2, <2>1
  <2>2. CASE i \in 1 .. n - 1
    BY <1>2, <2>2 DEF PlacedIn
  <2>3. QED
    BY <1>1, <2>1, <2>2
<1>4. ASSUME NEW i \in 1 .. n + 1
      PROVE  /\ d[i].kind \notin FrameKinds => d[i].at = "body"
             /\ d[i].at \in {"chained", "popped"} => d[i].kind = "include"
  <2>1. CASE i = n + 1
    BY <1>2, <2>1
  <2>2. CASE i \in 1 .. n
    BY <1>2, <2>2 DEF PlacedIn
  <2>3. QED
    BY <1>1, <2>1, <2>2
<1>5. d[1].kind = "main" /\ d[1].depth = 0 /\ d[1].links = 1
  <2>1. CASE n = 0
    BY <1>1, <1>2, <2>1
  <2>2. CASE n # 0
    <3>1. 1 \in 1 .. n /\ c # <<>>
      BY <1>1, <2>2
    <3>2. QED
      BY <1>2, <3>1 DEF PlacedIn
  <2>3. QED
    BY <2>1, <2>2
<1>6. n + 1 - 1 = n
  BY <1>1
<1>7. QED
  BY <1>2, <1>3, <1>4, <1>5, <1>6 DEF PlacedIn, d

(* A runner that is called, with its frame or before it is pushed. *)
LEMMA CalledFrames ==
  ASSUME NEW c \in Seq(Call), NEW s \in Seq(Frame), NEW r \in Call, NEW t \in Seq(Frame),
         FramesOf(c, s), FramesNested(c, s),
         r.depth = Len(s),
         Len(t) = Len(s) + Frames(r),
         \A i \in 1 .. Len(s) : t[i] = s[i],
         Framed(r) => t[Len(s) + 1].kind = r.kind
  PROVE  FramesOf(Append(c, r), t) /\ FramesNested(Append(c, r), t)
<1> DEFINE n == Len(c)
           d == Append(c, r)
<1>1. n \in Nat /\ (c = <<>> <=> n = 0)
  BY LenProperties, EmptySeq
<1>2. /\ d \in Seq(Call) /\ Len(d) = n + 1 /\ d # <<>>
      /\ \A i \in 1 .. n : d[i] = c[i]
      /\ d[n + 1] = r
  BY AppendIs
<1>3. Len(s) \in Nat /\ Len(t) \in Nat /\ Frames(r) \in {0, 1} /\ (Framed(r) <=> Frames(r) = 1)
  BY LenProperties DEF Frames
<1>4. \A i \in 1 .. n : c[i].depth \in Nat /\ Frames(c[i]) \in {0, 1} /\ (Framed(c[i]) <=> Frames(c[i]) = 1)
  <2>1. \A i \in 1 .. n : c[i] \in Call
    BY <1>1, ElementOfSeq
  <2>2. QED
    BY <2>1 DEF Call, Frames
<1>5. n >= 1 => r.depth = c[n].depth + Frames(c[n])
  <2>1. n >= 1 => Len(s) = c[n].depth + Frames(c[n])
    BY <1>1 DEF FramesOf
  <2>2. QED
    BY <2>1
<1> HIDE DEF d
<1>6. FramesOf(d, t)
  <2>1. Len(t) = d[n + 1].depth + Frames(d[n + 1])
    BY <1>2
  <2>2. ASSUME NEW i \in 1 .. n
        PROVE  d[i + 1].depth = d[i].depth + Frames(d[i])
    <3>1. CASE i = n
      BY <1>1, <1>2, <1>5, <3>1
    <3>2. CASE i \in 1 .. n - 1
      <4>1. d[i] = c[i] /\ d[i + 1] = c[i + 1]
        BY <1>1, <1>2, <3>2
      <4>2. QED
        BY <3>2, <4>1 DEF FramesOf
    <3>3. QED
      BY <1>1, <3>1, <3>2
  <2>3. ASSUME NEW i \in 1 .. n + 1, Framed(d[i])
        PROVE  t[d[i].depth + 1].kind = d[i].kind
    <3>1. CASE i = n + 1
      BY <1>2, <2>3, <3>1
    <3>2. CASE i \in 1 .. n
      <4>1. d[i] = c[i]
        BY <1>2, <3>2
      <4>2. c[i].depth + 1 \in 1 .. Len(s) /\ s[c[i].depth + 1].kind = c[i].kind
        BY <2>3, <3>2, <4>1 DEF FramesOf, FramesNested
      <4>3. QED
        BY <4>1, <4>2
    <3>3. QED
      BY <1>1, <3>1, <3>2
  <2>4. QED
    BY <1>1, <1>2, <2>1, <2>2, <2>3 DEF FramesOf
<1>7. FramesNested(d, t)
  <2>1. ASSUME NEW i \in 1 .. n + 1, Framed(d[i])
        PROVE  d[i].depth + 1 \in 1 .. Len(t)
    <3>1. CASE i = n + 1
      BY <1>2, <1>3, <2>1, <3>1
    <3>2. CASE i \in 1 .. n
      BY <1>2, <1>3, <2>1, <3>2 DEF FramesNested
    <3>3. QED
      BY <1>1, <3>1, <3>2
  <2>2. ASSUME NEW i \in 1 .. n + 1, NEW j \in 1 .. n + 1, i < j
        PROVE  d[i].depth + Frames(d[i]) <= d[j].depth
    <3>1. CASE j \in 1 .. n
      <4>1. i \in 1 .. n
        BY <1>1, <2>2, <3>1
      <4>2. c[i].depth + Frames(c[i]) <= c[j].depth
        BY <2>2, <3>1, <4>1 DEF FramesNested
      <4>3. QED
        BY <1>2, <3>1, <4>1, <4>2
    <3>2. CASE j = n + 1 /\ i = n
      BY <1>1, <1>2, <1>3, <1>5, <3>2
    <3>3. CASE j = n + 1 /\ i \in 1 .. n - 1
      <4>1. i \in 1 .. n /\ n \in 1 .. n /\ i < n
        BY <1>1, <3>3
      <4>2. c[i].depth + Frames(c[i]) <= c[n].depth
        BY <4>1 DEF FramesNested
      <4>3. d[i] = c[i] /\ d[j] = r
        BY <1>2, <3>3, <4>1
      <4>4. /\ c[i].depth \in Nat /\ c[n].depth \in Nat
            /\ Frames(c[i]) \in {0, 1} /\ Frames(c[n]) \in {0, 1}
        BY <1>4, <4>1
      <4>5. c[i].depth + Frames(c[i]) <= c[n].depth + Frames(c[n])
        BY <4>2, <4>4
      <4>6. QED
        BY <1>1, <1>5, <4>1, <4>3, <4>5
    <3>4. j \in 1 .. n \/ (j = n + 1 /\ i = n) \/ (j = n + 1 /\ i \in 1 .. n - 1)
      BY <1>1, <2>2
    <3>5. QED
      BY <3>1, <3>2, <3>3, <3>4
  <2>3. ASSUME NEW k \in 1 .. Len(t)
        PROVE  \E i \in 1 .. n + 1 : Framed(d[i]) /\ d[i].depth + 1 = k
    <3>1. CASE k \in 1 .. Len(s)
      <4>1. PICK i \in 1 .. n : Framed(c[i]) /\ c[i].depth + 1 = k
        BY <3>1 DEF FramesNested
      <4>2. QED
        BY <1>1, <1>2, <4>1
    <3>2. CASE k = Len(s) + 1 /\ Framed(r)
      <4>1. n + 1 \in 1 .. n + 1
        BY <1>1
      <4>2. Framed(d[n + 1]) /\ d[n + 1].depth + 1 = k
        BY <1>2, <3>2
      <4>3. QED
        BY <4>1, <4>2
    <3>3. QED
      BY <1>3, <3>1, <3>2
  <2>4. QED
    BY <1>2, <2>1, <2>2, <2>3 DEF FramesNested
<1>8. QED
  BY <1>6, <1>7 DEF d

(* A runner that is called, its file in the chain if it is an INCLUDE's. *)
LEMMA CalledChain ==
  ASSUME NEW c \in Seq(Call), NEW h \in Seq(File), NEW r \in Call, NEW g \in Seq(File),
         ChainOf(c, h), LinksNested(c, h),
         r.links = Len(h),
         Len(g) = Len(h) + Links(r),
         \A i \in 1 .. Len(h) : g[i] = h[i],
         r.kind = "include" => g[Len(h) + 1] = r.file /\ \A i \in 1 .. Len(h) : h[i] # r.file
  PROVE  ChainOf(Append(c, r), g) /\ LinksNested(Append(c, r), g)
<1> DEFINE n == Len(c)
           d == Append(c, r)
<1>1. n \in Nat /\ (c = <<>> <=> n = 0)
  BY LenProperties, EmptySeq
<1>2. /\ d \in Seq(Call) /\ Len(d) = n + 1 /\ d # <<>>
      /\ \A i \in 1 .. n : d[i] = c[i]
      /\ d[n + 1] = r
  BY AppendIs
<1>3. Len(h) \in Nat /\ Len(g) \in Nat /\ Links(r) \in {0, 1} /\ (r.kind = "include" <=> Links(r) = 1)
  BY LenProperties DEF Links
<1>4. \A i \in 1 .. n : c[i].links \in Nat /\ Links(c[i]) \in {0, 1} /\ (c[i].kind = "include" <=> Links(c[i]) = 1)
  <2>1. \A i \in 1 .. n : c[i] \in Call
    BY <1>1, ElementOfSeq
  <2>2. QED
    BY <2>1 DEF Call, Links
<1>5. n >= 1 => r.links = c[n].links + Links(c[n])
  <2>1. n >= 1 => Len(h) = c[n].links + Links(c[n])
    BY <1>1 DEF ChainOf
  <2>2. QED
    BY <2>1
<1>9. Len(h) >= 1
  <2>1. CASE n = 0
    BY <1>1, <2>1 DEF ChainOf
  <2>2. CASE n # 0
    <3>1. n \in 1 .. n
      BY <1>1, <2>2
    <3>2. c[n].links \in 1 .. Len(h)
      BY <3>1 DEF LinksNested
    <3>3. QED
      BY <1>3, <3>2
  <2>3. QED
    BY <2>1, <2>2
<1> HIDE DEF d
<1>6. ChainOf(d, g)
  <2>1. Len(g) = d[n + 1].links + Links(d[n + 1])
    BY <1>2
  <2>2. ASSUME NEW i \in 1 .. n
        PROVE  d[i + 1].links = d[i].links + Links(d[i])
    <3>1. CASE i = n
      BY <1>1, <1>2, <1>5, <3>1
    <3>2. CASE i \in 1 .. n - 1
      <4>1. d[i] = c[i] /\ d[i + 1] = c[i + 1]
        BY <1>1, <1>2, <3>2
      <4>2. QED
        BY <3>2, <4>1 DEF ChainOf
    <3>3. QED
      BY <1>1, <3>1, <3>2
  <2>3. ASSUME NEW i \in 1 .. n + 1, d[i].kind = "include"
        PROVE  g[d[i].links + 1] = d[i].file
    <3>1. CASE i = n + 1
      BY <1>2, <2>3, <3>1
    <3>2. CASE i \in 1 .. n
      <4>1. d[i] = c[i]
        BY <1>2, <3>2
      <4>2. c[i].links + 1 \in 1 .. Len(h) /\ h[c[i].links + 1] = c[i].file
        BY <2>3, <3>2, <4>1 DEF ChainOf, LinksNested
      <4>3. QED
        BY <4>1, <4>2
    <3>3. QED
      BY <1>1, <3>1, <3>2
  <2>4. g[1] = Main
    <3>1. 1 \in 1 .. Len(h)
      BY <1>3, <1>9
    <3>2. QED
      BY <3>1 DEF ChainOf
  <2>5. ASSUME NEW i \in 1 .. Len(g), NEW j \in 1 .. Len(g), i # j
        PROVE  g[i] # g[j]
    <3>1. CASE i \in 1 .. Len(h) /\ j \in 1 .. Len(h)
      BY <2>5, <3>1 DEF ChainOf
    <3>2. CASE r.kind = "include" /\ i = Len(h) + 1 /\ j \in 1 .. Len(h)
      BY <3>2
    <3>3. CASE r.kind = "include" /\ j = Len(h) + 1 /\ i \in 1 .. Len(h)
      BY <3>3
    <3>4. QED
      BY <1>3, <2>5, <3>1, <3>2, <3>3
  <2>6. Len(d) = n + 1 /\ d # <<>> /\ Len(d) - 1 = n
    BY <1>1, <1>2, EmptySeq
  <2>7. Len(g) = IF d = <<>> THEN 1 ELSE d[Len(d)].links + Links(d[Len(d)])
    BY <2>1, <2>6
  <2>8. \A i \in 1 .. Len(d) - 1 : d[i + 1].links = d[i].links + Links(d[i])
    BY <2>2, <2>6
  <2>9. \A i \in 1 .. Len(d) : d[i].kind = "include" => g[d[i].links + 1] = d[i].file
    BY <2>3, <2>6
  <2>10. QED
    BY <2>4, <2>5, <2>7, <2>8, <2>9 DEF ChainOf
<1>7. LinksNested(d, g)
  <2>1. ASSUME NEW i \in 1 .. n + 1
        PROVE  /\ d[i].links \in 1 .. Len(g)
               /\ d[i].kind = "include" => d[i].links + 1 \in 1 .. Len(g)
    <3>1. CASE i = n + 1
      BY <1>2, <1>3, <1>9, <3>1
    <3>2. CASE i \in 1 .. n
      BY <1>2, <1>3, <3>2 DEF LinksNested
    <3>3. QED
      BY <1>1, <3>1, <3>2
  <2>2. ASSUME NEW i \in 1 .. n + 1, NEW j \in 1 .. n + 1, i < j
        PROVE  d[i].links + Links(d[i]) <= d[j].links
    <3>1. CASE j \in 1 .. n
      <4>1. i \in 1 .. n
        BY <1>1, <2>2, <3>1
      <4>2. c[i].links + Links(c[i]) <= c[j].links
        BY <2>2, <3>1, <4>1 DEF LinksNested
      <4>3. QED
        BY <1>2, <3>1, <4>1, <4>2
    <3>2. CASE j = n + 1 /\ i = n
      <4>1. i \in 1 .. n
        BY <1>1, <3>2
      <4>2. d[i] = c[n] /\ d[j] = r
        BY <1>2, <3>2, <4>1
      <4>3. QED
        BY <1>3, <1>4, <1>5, <3>2, <4>1, <4>2
    <3>3. CASE j = n + 1 /\ i \in 1 .. n - 1
      <4>1. i \in 1 .. n /\ n \in 1 .. n /\ i < n
        BY <1>1, <3>3
      <4>2. c[i].links + Links(c[i]) <= c[n].links
        BY <4>1 DEF LinksNested
      <4>3. d[i] = c[i] /\ d[j] = r
        BY <1>2, <3>3, <4>1
      <4>4. /\ c[i].links \in Nat /\ c[n].links \in Nat
            /\ Links(c[i]) \in {0, 1} /\ Links(c[n]) \in {0, 1}
        BY <1>4, <4>1
      <4>5. c[i].links + Links(c[i]) <= c[n].links + Links(c[n])
        BY <4>2, <4>4
      <4>6. QED
        BY <1>1, <1>5, <4>1, <4>3, <4>5
    <3>4. j \in 1 .. n \/ (j = n + 1 /\ i = n) \/ (j = n + 1 /\ i \in 1 .. n - 1)
      BY <1>1, <2>2
    <3>5. QED
      BY <3>1, <3>2, <3>3, <3>4
  <2>3. QED
    BY <1>2, <2>1, <2>2 DEF LinksNested
<1>8. QED
  BY <1>6, <1>7 DEF d

-----------------------------------------------------------------------------
(* A runner that is left, with the frame it has. *)
LEMMA LeftFrames ==
  ASSUME NEW c \in Seq(Call), NEW s \in Seq(Frame), NEW t \in Seq(Frame), c # <<>>,
         PlacedIn(c), FramesOf(c, s), FramesNested(c, s),
         Len(t) = Len(s) - Frames(c[Len(c)]),
         \A i \in 1 .. Len(t) : t[i] = s[i]
  PROVE  FramesOf(Below(c), t) /\ FramesNested(Below(c), t)
<1> DEFINE n == Len(c)
           d == Below(c)
<1>1. /\ n \in Nat /\ n >= 1
      /\ d \in Seq(Call) /\ Len(d) = n - 1
      /\ \A i \in 1 .. n - 1 : d[i] = c[i]
  BY BelowIs
<1>2. Len(s) \in Nat /\ Len(t) \in Nat
  BY LenProperties
<1>3. \A i \in 1 .. n : c[i].depth \in Nat /\ Frames(c[i]) \in {0, 1} /\ (Framed(c[i]) <=> Frames(c[i]) = 1)
  <2>1. \A i \in 1 .. n : c[i] \in Call
    BY <1>1, ElementOfSeq
  <2>2. QED
    BY <2>1 DEF Call, Frames
<1>4. n \in 1 .. n /\ Len(t) = c[n].depth
  <2>1. n \in 1 .. n
    BY <1>1
  <2>2. Len(s) = c[n].depth + Frames(c[n])
    BY DEF FramesOf
  <2>3. QED
    BY <1>2, <1>3, <2>1, <2>2
<1>5. d = <<>> <=> n = 1
  BY <1>1, EmptySeq
<1> HIDE DEF d
<1>6. ASSUME NEW i \in 1 .. n - 1
      PROVE  /\ i \in 1 .. n /\ i < n
             /\ c[i].depth + Frames(c[i]) <= Len(t)
  <2>1. i \in 1 .. n /\ i < n
    BY <1>1
  <2>2. QED
    BY <1>4, <2>1 DEF FramesNested
<1>7. FramesOf(d, t)
  <2>1. CASE n = 1
    BY <1>1, <1>4, <1>5, <2>1 DEF FramesOf, PlacedIn
  <2>2. CASE n >= 2
    <3>1. Len(t) = d[n - 1].depth + Frames(d[n - 1])
      <4>1. n - 1 \in 1 .. n - 1 /\ n - 1 + 1 = n
        BY <1>1, <2>2
      <4>2. c[n - 1 + 1].depth = c[n - 1].depth + Frames(c[n - 1])
        BY <4>1 DEF FramesOf
      <4>3. QED
        BY <1>1, <1>4, <4>1, <4>2
    <3>2. ASSUME NEW i \in 1 .. n - 2
          PROVE  d[i + 1].depth = d[i].depth + Frames(d[i])
      <4>1. i \in 1 .. n - 1 /\ i + 1 \in 1 .. n - 1
        BY <1>1
      <4>2. d[i] = c[i] /\ d[i + 1] = c[i + 1]
        BY <1>1, <4>1
      <4>3. QED
        BY <4>1, <4>2 DEF FramesOf
    <3>3. ASSUME NEW i \in 1 .. n - 1, Framed(d[i])
          PROVE  t[d[i].depth + 1].kind = d[i].kind
      <4>1. d[i] = c[i] /\ i \in 1 .. n
        BY <1>1, <1>6
      <4>2. c[i].depth + 1 \in 1 .. Len(t)
        <5>1. c[i].depth \in Nat /\ Frames(c[i]) = 1
          BY <1>3, <3>3, <4>1
        <5>2. c[i].depth + 1 <= Len(t)
          BY <1>6, <5>1
        <5>3. QED
          BY <1>2, <5>1, <5>2
      <4>3. s[c[i].depth + 1].kind = c[i].kind
        BY <3>3, <4>1 DEF FramesOf
      <4>4. QED
        BY <4>1, <4>2, <4>3
    <3>4. n - 1 - 1 = n - 2
      BY <1>1
    <3>5. QED
      BY <1>1, <1>5, <2>2, <3>1, <3>2, <3>3, <3>4 DEF FramesOf
  <2>3. QED
    BY <1>1, <2>1, <2>2
<1>8. FramesNested(d, t)
  <2>1. ASSUME NEW i \in 1 .. n - 1, Framed(d[i])
        PROVE  d[i].depth + 1 \in 1 .. Len(t)
    <3>1. d[i] = c[i] /\ i \in 1 .. n
      BY <1>1, <1>6
    <3>2. c[i].depth \in Nat /\ Frames(c[i]) = 1
      BY <1>3, <2>1, <3>1
    <3>3. c[i].depth + 1 <= Len(t)
      BY <1>6, <3>2
    <3>4. c[i].depth + 1 \in 1 .. Len(t)
      BY <1>2, <3>2, <3>3
    <3>5. QED
      BY <3>1, <3>4
  <2>2. ASSUME NEW i \in 1 .. n - 1, NEW j \in 1 .. n - 1, i < j
        PROVE  d[i].depth + Frames(d[i]) <= d[j].depth
    <3>1. d[i] = c[i] /\ d[j] = c[j] /\ i \in 1 .. n /\ j \in 1 .. n
      BY <1>1, <1>6
    <3>2. QED
      BY <2>2, <3>1 DEF FramesNested
  <2>3. ASSUME NEW k \in 1 .. Len(t)
        PROVE  \E i \in 1 .. n - 1 : Framed(d[i]) /\ d[i].depth + 1 = k
    <3>1. k \in 1 .. Len(s)
      BY <1>2, <1>3, <1>4
    <3>2. PICK i \in 1 .. n : Framed(c[i]) /\ c[i].depth + 1 = k
      BY <3>1 DEF FramesNested
    <3>3. i # n
      BY <1>2, <1>4, <3>2
    <3>4. i \in 1 .. n - 1
      BY <1>1, <3>3
    <3>5. QED
      BY <1>1, <3>2, <3>4
  <2>4. QED
    BY <1>1, <2>1, <2>2, <2>3 DEF FramesNested
<1>9. QED
  BY <1>7, <1>8 DEF d

(* A runner that is left, and its file. *)
LEMMA LeftChain ==
  ASSUME NEW c \in Seq(Call), NEW h \in Seq(File), NEW g \in Seq(File), c # <<>>,
         PlacedIn(c), ChainOf(c, h), LinksNested(c, h),
         Len(g) = Len(h) - Links(c[Len(c)]),
         \A i \in 1 .. Len(g) : g[i] = h[i]
  PROVE  ChainOf(Below(c), g) /\ LinksNested(Below(c), g)
<1> DEFINE n == Len(c)
           d == Below(c)
<1>1. /\ n \in Nat /\ n >= 1
      /\ d \in Seq(Call) /\ Len(d) = n - 1
      /\ \A i \in 1 .. n - 1 : d[i] = c[i]
  BY BelowIs
<1>2. Len(h) \in Nat /\ Len(g) \in Nat
  BY LenProperties
<1>3. \A i \in 1 .. n : c[i].links \in Nat /\ Links(c[i]) \in {0, 1} /\ (c[i].kind = "include" <=> Links(c[i]) = 1)
  <2>1. \A i \in 1 .. n : c[i] \in Call
    BY <1>1, ElementOfSeq
  <2>2. QED
    BY <2>1 DEF Call, Links
<1>4. n \in 1 .. n /\ Len(g) = c[n].links /\ Len(g) >= 1 /\ Len(g) <= Len(h)
  <2>1. n \in 1 .. n
    BY <1>1
  <2>2. Len(h) = c[n].links + Links(c[n])
    BY DEF ChainOf
  <2>3. c[n].links \in 1 .. Len(h)
    BY <2>1 DEF LinksNested
  <2>4. QED
    BY <1>2, <1>3, <2>1, <2>2, <2>3
<1>5. d = <<>> <=> n = 1
  BY <1>1, EmptySeq
<1> HIDE DEF d
<1>6. ASSUME NEW i \in 1 .. n - 1
      PROVE  /\ i \in 1 .. n /\ i < n
             /\ d[i] = c[i]
             /\ c[i].links + Links(c[i]) <= Len(g)
  <2>1. i \in 1 .. n /\ i < n /\ d[i] = c[i]
    BY <1>1
  <2>2. QED
    BY <1>4, <2>1 DEF LinksNested
<1>7. LinksNested(d, g)
  <2>1. ASSUME NEW i \in 1 .. n - 1
        PROVE  /\ d[i].links \in 1 .. Len(g)
               /\ d[i].kind = "include" => d[i].links + 1 \in 1 .. Len(g)
    <3>1. c[i].links \in 1 .. Len(h)
      BY <1>6 DEF LinksNested
    <3>2. c[i].links + Links(c[i]) \in 1 .. Len(g) /\ c[i].links \in 1 .. Len(g)
      <4>1. Links(c[i]) \in {0, 1} /\ c[i].links \in Nat /\ c[i].links >= 1
        BY <1>2, <1>3, <1>6, <3>1
      <4>2. c[i].links + Links(c[i]) <= Len(g)
        BY <1>6
      <4>3. QED
        BY <1>2, <4>1, <4>2
    <3>3. c[i].kind = "include" => Links(c[i]) = 1
      BY <1>3, <1>6
    <3>4. QED
      BY <1>6, <3>2, <3>3
  <2>2. ASSUME NEW i \in 1 .. n - 1, NEW j \in 1 .. n - 1, i < j
        PROVE  d[i].links + Links(d[i]) <= d[j].links
    <3>1. d[i] = c[i] /\ d[j] = c[j] /\ i \in 1 .. n /\ j \in 1 .. n
      BY <1>6
    <3>2. QED
      BY <2>2, <3>1 DEF LinksNested
  <2>3. QED
    BY <1>1, <2>1, <2>2 DEF LinksNested
<1>8. g[1] = Main
  <2>1. 1 \in 1 .. Len(g)
    BY <1>2, <1>4
  <2>2. QED
    BY <2>1 DEF ChainOf
<1>9. \A i, j \in 1 .. Len(g) : i # j => g[i] # g[j]
  <2>1. \A i \in 1 .. Len(g) : i \in 1 .. Len(h)
    BY <1>2, <1>4
  <2>2. QED
    BY <2>1 DEF ChainOf
<1>10. \A i \in 1 .. n - 1 : d[i].kind = "include" => g[d[i].links + 1] = d[i].file
  <2>1. SUFFICES ASSUME NEW i \in 1 .. n - 1, d[i].kind = "include"
                 PROVE  g[d[i].links + 1] = d[i].file
    OBVIOUS
  <2>2. c[i].links + 1 \in 1 .. Len(g)
    BY <1>1, <1>6, <1>7, <2>1 DEF LinksNested
  <2>3. h[c[i].links + 1] = c[i].file
    BY <1>6, <2>1 DEF ChainOf
  <2>4. QED
    BY <1>6, <2>2, <2>3
<1>11. Len(g) = IF d = <<>> THEN 1 ELSE d[n - 1].links + Links(d[n - 1])
  <2>1. CASE n = 1
    <3>1. c[1].links = 1
      BY DEF PlacedIn
    <3>2. QED
      BY <1>4, <1>5, <2>1, <3>1
  <2>2. CASE n >= 2
    <3>1. n - 1 \in 1 .. n - 1 /\ n - 1 + 1 = n
      BY <1>1, <2>2
    <3>2. c[n - 1 + 1].links = c[n - 1].links + Links(c[n - 1])
      BY <3>1 DEF ChainOf
    <3>3. d # <<>>
      BY <1>5, <2>2
    <3>4. QED
      BY <1>4, <1>6, <3>1, <3>2, <3>3
  <2>3. QED
    BY <1>1, <2>1, <2>2
<1>12. \A i \in 1 .. n - 1 - 1 : d[i + 1].links = d[i].links + Links(d[i])
  <2>1. SUFFICES ASSUME NEW i \in 1 .. n - 1 - 1
                 PROVE  d[i + 1].links = d[i].links + Links(d[i])
    OBVIOUS
  <2>2. i \in 1 .. n - 1 /\ i + 1 \in 1 .. n - 1
    BY <1>1
  <2>3. d[i] = c[i] /\ d[i + 1] = c[i + 1]
    BY <1>6, <2>2
  <2>4. QED
    BY <2>2, <2>3 DEF ChainOf
<1>13. ChainOf(d, g)
  BY <1>1, <1>8, <1>9, <1>10, <1>11, <1>12 DEF ChainOf
<1>14. QED
  BY <1>7, <1>13 DEF d

(* The runner below was suspended in its body. *)
LEMMA LeftPlaced ==
  ASSUME NEW c \in Seq(Call), c # <<>>, PlacedIn(c)
  PROVE  /\ PlacedIn(Below(c))
         /\ Below(c) # <<>> => Below(c)[Len(Below(c))].at = "body"
<1> DEFINE n == Len(c)
           d == Below(c)
<1>1. /\ n \in Nat /\ n >= 1
      /\ d \in Seq(Call) /\ Len(d) = n - 1
      /\ \A i \in 1 .. n - 1 : d[i] = c[i]
  BY BelowIs
<1>2. d = <<>> <=> n = 1
  BY <1>1, EmptySeq
<1> HIDE DEF d
<1>3. ASSUME NEW i \in 1 .. n - 1
      PROVE  /\ i \in 1 .. n
             /\ d[i] = c[i]
             /\ d[i].at = "body"
  BY <1>1 DEF PlacedIn
<1>4. d # <<>> => 1 \in 1 .. n - 1 /\ n - 1 \in 1 .. n - 1
  BY <1>1, <1>2
<1>5. \A i \in 1 .. n - 1 - 1 : d[i].at = "body"
  BY <1>1, <1>3
<1>6. \A i \in 1 .. n - 1 : /\ d[i].kind \notin FrameKinds => d[i].at = "body"
                           /\ d[i].at \in {"chained", "popped"} => d[i].kind = "include"
  BY <1>3
<1>7. d # <<>> => d[1].kind = "main" /\ d[1].depth = 0 /\ d[1].links = 1
  BY <1>3, <1>4 DEF PlacedIn
<1>8. PlacedIn(d)
  BY <1>1, <1>5, <1>6, <1>7 DEF PlacedIn
<1>9. QED
  BY <1>1, <1>3, <1>4, <1>8 DEF d

-----------------------------------------------------------------------------
(***************************************************************************)
(* Runners, frames and chain together.                                     *)
(***************************************************************************)
(* A runner that is called on top of the others. *)
LEMMA Called ==
  ASSUME NEW c, NEW s, NEW h, Shape(c, s, h), NEW r \in Call,
         NEW t \in Seq(Frame), NEW g \in Seq(File),
         c # <<>> => c[Len(c)].at = "body",
         c = <<>> => r.kind = "main" /\ r.depth = 0 /\ r.links = 1,
         r.kind \notin FrameKinds => r.at = "body",
         r.at \in {"chained", "popped"} => r.kind = "include",
         r.depth = Len(s), r.links = Len(h),
         Len(t) = Len(s) + Frames(r),
         \A i \in 1 .. Len(s) : t[i] = s[i],
         Framed(r) => t[Len(s) + 1].kind = r.kind,
         Len(g) = Len(h) + Links(r),
         \A i \in 1 .. Len(h) : g[i] = h[i],
         r.kind = "include" => g[Len(h) + 1] = r.file /\ \A i \in 1 .. Len(h) : h[i] # r.file
  PROVE  Shape(Append(c, r), t, g)
<1>1. c \in Seq(Call) /\ s \in Seq(Frame) /\ h \in Seq(File) /\ PlacedIn(c)
      /\ FramesOf(c, s) /\ FramesNested(c, s) /\ ChainOf(c, h) /\ LinksNested(c, h)
  BY DEF Shape
<1>2. Append(c, r) \in Seq(Call)
  BY <1>1, AppendIs
<1>3. PlacedIn(Append(c, r))
  BY <1>1, CalledPlaced
<1>4. FramesOf(Append(c, r), t) /\ FramesNested(Append(c, r), t)
  BY <1>1, CalledFrames
<1>5. ChainOf(Append(c, r), g) /\ LinksNested(Append(c, r), g)
  BY <1>1, CalledChain
<1>6. QED
  BY <1>2, <1>3, <1>4, <1>5 DEF Shape

(* The innermost runner is left, with its frame and its link. *)
LEMMA Left ==
  ASSUME NEW c, NEW s, NEW h, Shape(c, s, h), c # <<>>,
         NEW t \in Seq(Frame), NEW g \in Seq(File),
         Len(t) = Len(s) - Frames(c[Len(c)]),
         \A i \in 1 .. Len(t) : t[i] = s[i],
         Len(g) = Len(h) - Links(c[Len(c)]),
         \A i \in 1 .. Len(g) : g[i] = h[i]
  PROVE  Shape(Below(c), t, g)
<1>1. c \in Seq(Call) /\ s \in Seq(Frame) /\ h \in Seq(File) /\ PlacedIn(c)
      /\ FramesOf(c, s) /\ FramesNested(c, s) /\ ChainOf(c, h) /\ LinksNested(c, h)
  BY DEF Shape
<1>2. Below(c) \in Seq(Call)
  BY <1>1, BelowIs
<1>3. PlacedIn(Below(c))
  BY <1>1, LeftPlaced
<1>4. FramesOf(Below(c), t) /\ FramesNested(Below(c), t)
  BY <1>1, LeftFrames
<1>5. ChainOf(Below(c), g) /\ LinksNested(Below(c), g)
  BY <1>1, LeftChain
<1>6. QED
  BY <1>2, <1>3, <1>4, <1>5 DEF Shape

(* A sequence cut to a shorter length. *)
LEMMA CutIs ==
  ASSUME NEW S, NEW s \in Seq(S), NEW k \in 0 .. Len(s)
  PROVE  /\ SubSeq(s, 1, k) \in Seq(S)
         /\ Len(SubSeq(s, 1, k)) = k
         /\ \A i \in 1 .. k : SubSeq(s, 1, k)[i] = s[i]
<1>1. Len(s) \in Nat
  BY LenProperties
<1>2. \A i \in 1 .. k : s[i] \in S
  BY <1>1, ElementOfSeq
<1>3. /\ SubSeq(s, 1, k) \in Seq(S)
      /\ Len(SubSeq(s, 1, k)) = IF 1 <= k THEN k - 1 + 1 ELSE 0
      /\ \A i \in 1 .. k - 1 + 1 : SubSeq(s, 1, k)[i] = s[1 + i - 1]
  BY <1>1, <1>2, SubSeqProperties
<1>4. \A m \in Nat : (IF 1 <= m THEN m - 1 + 1 ELSE 0) = m
  OBVIOUS
<1>5. k \in Nat
  BY <1>1
<1>6. \A i \in 1 .. k : SubSeq(s, 1, k)[i] = s[i]
  BY <1>3, <1>5
<1>7. QED
  BY <1>3, <1>4, <1>5, <1>6

(***************************************************************************)
(* A runner that moves on is one that is left and called again, so what    *)
(* those two lemmas say holds of it.                                       *)
(***************************************************************************)
LEMMA MovedOn ==
  ASSUME Shape(calls, ast_exec_stack, include_chain), calls # <<>>,
         NEW at \in Places, NEW t \in Seq(Frame),
         Top.kind \notin FrameKinds => at = "body",
         at \in {"chained", "popped"} => Top.kind = "include",
         Len(t) = Top.depth + Frames([Top EXCEPT !.at = at]),
         \A i \in 1 .. Top.depth : t[i] = ast_exec_stack[i],
         Framed([Top EXCEPT !.at = at]) => t[Top.depth + 1].kind = Top.kind
  PROVE  Shape(Moved(at), t, include_chain)
<1> DEFINE n == Len(calls)
           r == [Top EXCEPT !.at = at]
           b == Below(calls)
           s0 == SubSeq(ast_exec_stack, 1, Top.depth)
           h0 == SubSeq(include_chain, 1, Top.links)
<1>1. /\ calls \in Seq(Call) /\ ast_exec_stack \in Seq(Frame) /\ include_chain \in Seq(File)
      /\ PlacedIn(calls) /\ FramesOf(calls, ast_exec_stack) /\ FramesNested(calls, ast_exec_stack)
      /\ ChainOf(calls, include_chain) /\ LinksNested(calls, include_chain)
  BY DEF Shape
<1>2. /\ Moved(at) \in Seq(Call) /\ n \in Nat /\ n >= 1 /\ Len(Moved(at)) = n
      /\ \A i \in 1 .. n - 1 : Moved(at)[i] = calls[i]
      /\ Moved(at)[n] = r /\ Top \in Call
  BY <1>1, MovedIs
<1>3. /\ b \in Seq(Call) /\ Len(b) = n - 1
      /\ \A i \in 1 .. n - 1 : b[i] = calls[i]
  BY <1>1, BelowIs
<1>4. /\ r \in Call /\ r.kind = Top.kind /\ r.depth = Top.depth /\ r.links = Top.links
      /\ r.file = Top.file /\ r.at = at
  BY <1>2 DEF Call
<1>5. Len(ast_exec_stack) \in Nat /\ Len(include_chain) \in Nat
  BY <1>1, LenProperties
<1>6. /\ Len(ast_exec_stack) = Top.depth + Frames(Top) /\ Frames(Top) \in {0, 1} /\ Top.depth \in Nat
      /\ Len(include_chain) = Top.links + Links(Top) /\ Links(Top) \in {0, 1} /\ Top.links \in Nat
  BY <1>1, <1>2 DEF FramesOf, ChainOf, Top, Frames, Links, Call
<1>7. /\ Top.depth \in 0 .. Len(ast_exec_stack)
      /\ Top.links \in 0 .. Len(include_chain)
  BY <1>5, <1>6
<1>8. /\ s0 \in Seq(Frame) /\ Len(s0) = Top.depth
      /\ \A i \in 1 .. Top.depth : s0[i] = ast_exec_stack[i]
  BY <1>1, <1>7, CutIs
<1>9. /\ h0 \in Seq(File) /\ Len(h0) = Top.links
      /\ \A i \in 1 .. Top.links : h0[i] = include_chain[i]
  BY <1>1, <1>7, CutIs
<1> HIDE DEF s0, h0, b
<1>10. Shape(b, s0, h0)
  <2>1. /\ Len(s0) = Len(ast_exec_stack) - Frames(calls[Len(calls)])
        /\ Len(h0) = Len(include_chain) - Links(calls[Len(calls)])
    BY <1>6, <1>8, <1>9 DEF Top
  <2>2. /\ \A i \in 1 .. Len(s0) : s0[i] = ast_exec_stack[i]
        /\ \A i \in 1 .. Len(h0) : h0[i] = include_chain[i]
    BY <1>8, <1>9
  <2>3. s0 \in Seq(Frame) /\ h0 \in Seq(File)
    BY <1>8, <1>9
  <2>4. Shape(Below(calls), s0, h0)
    BY <2>1, <2>2, <2>3, Left
  <2>5. QED
    BY <2>4 DEF b
<1>11. /\ b # <<>> => b[Len(b)].at = "body"
       /\ b = <<>> => r.kind = "main" /\ r.depth = 0 /\ r.links = 1
  <2>1. b # <<>> => b[Len(b)].at = "body"
    BY <1>1, LeftPlaced DEF b
  <2>2. b = <<>> => n = 1
    BY <1>2, <1>3, EmptySeq
  <2>3. n = 1 => r.kind = "main" /\ r.depth = 0 /\ r.links = 1
    BY <1>1, <1>4 DEF PlacedIn, Top
  <2>4. QED
    BY <2>1, <2>2, <2>3
<1>12. Append(b, r) = Moved(at)
  <2>1. /\ Append(b, r) \in Seq(Call) /\ Len(Append(b, r)) = n
        /\ \A i \in 1 .. n - 1 : Append(b, r)[i] = b[i]
        /\ Append(b, r)[n] = r
    <3>1. /\ Append(b, r) \in Seq(Call)
          /\ Len(Append(b, r)) = Len(b) + 1
          /\ \A i \in 1 .. Len(b) : Append(b, r)[i] = b[i]
          /\ Append(b, r)[Len(b) + 1] = r
      BY <1>3, <1>4, AppendIs
    <3>2. Len(b) + 1 = n
      BY <1>2, <1>3
    <3>3. QED
      BY <1>3, <3>1, <3>2
  <2>2. ASSUME NEW i \in 1 .. n
        PROVE  Append(b, r)[i] = Moved(at)[i]
    <3>1. CASE i = n
      BY <1>2, <2>1, <3>1
    <3>2. CASE i # n
      <4>1. i \in 1 .. n - 1
        BY <1>2, <3>2
      <4>2. QED
        BY <1>2, <1>3, <2>1, <4>1
    <3>3. QED
      BY <3>1, <3>2
  <2>3. QED
    BY <1>2, <2>1, <2>2, SeqEqual
<1>13. Links(r) = Links(Top)
  BY <1>4 DEF Links
<1>14. Len(include_chain) = Len(h0) + Links(r)
  BY <1>6, <1>9, <1>13
<1>15. r.kind = "include" => /\ include_chain[Len(h0) + 1] = r.file
                             /\ \A i \in 1 .. Len(h0) : h0[i] # r.file
  <2>1. SUFFICES ASSUME r.kind = "include"
                 PROVE  /\ include_chain[Len(h0) + 1] = r.file
                        /\ \A i \in 1 .. Len(h0) : h0[i] # r.file
    OBVIOUS
  <2>2. n \in 1 .. n /\ calls[n] = Top /\ Links(Top) = 1
    BY <1>2, <1>4, <2>1 DEF Top, Links
  <2>3. include_chain[Len(h0) + 1] = r.file
    BY <1>1, <1>4, <1>9, <2>1, <2>2 DEF ChainOf
  <2>4. ASSUME NEW i \in 1 .. Len(h0)
        PROVE  h0[i] # r.file
    <3>1. /\ i \in 1 .. Len(include_chain) /\ Len(h0) + 1 \in 1 .. Len(include_chain)
          /\ i # Len(h0) + 1 /\ h0[i] = include_chain[i]
      BY <1>5, <1>6, <1>9, <2>2
    <3>2. include_chain[i] # include_chain[Len(h0) + 1]
      BY <1>1, <3>1 DEF ChainOf
    <3>3. QED
      BY <2>3, <3>1, <3>2
  <2>5. QED
    BY <2>3, <2>4
<1>16. Shape(Append(b, r), t, include_chain)
  <2>1. \A i \in 1 .. Len(h0) : include_chain[i] = h0[i]
    BY <1>9
  <2>2. /\ Len(t) = Len(s0) + Frames(r)
        /\ \A i \in 1 .. Len(s0) : t[i] = s0[i]
        /\ Framed(r) => t[Len(s0) + 1].kind = r.kind
    BY <1>4, <1>8
  <2>3. /\ r.kind \notin FrameKinds => r.at = "body"
        /\ r.at \in {"chained", "popped"} => r.kind = "include"
        /\ r.depth = Len(s0) /\ r.links = Len(h0)
    BY <1>4, <1>8, <1>9
  <2> HIDE DEF r
  <2>4. r \in Call
    BY <1>4
  <2>5. QED
    BY <1>1, <1>10, <1>11, <1>14, <1>15, <2>1, <2>2, <2>3, <2>4, Called
<1>17. QED
  BY <1>12, <1>16

-----------------------------------------------------------------------------
(***************************************************************************)
(* The steps.                                                              *)
(***************************************************************************)
(* The main script's frame is there as long as a runner is in its body.    *)
LEMMA MainIsFramed ==
  ASSUME Shape(calls, ast_exec_stack, include_chain), calls # <<>>,
         Top.kind # "main" \/ Top.at = "body"
  PROVE  ast_exec_stack # <<>> /\ Len(ast_exec_stack) >= 1
<1> DEFINE n == Len(calls)
<1>1. /\ calls \in Seq(Call) /\ ast_exec_stack \in Seq(Frame)
      /\ PlacedIn(calls) /\ FramesNested(calls, ast_exec_stack)
  BY DEF Shape
<1>2. n \in Nat /\ n >= 1 /\ Len(ast_exec_stack) \in Nat
  BY <1>1, LenProperties, EmptySeq
<1>3. calls[1].kind = "main" /\ calls[1].at = "body"
  <2>1. CASE n = 1
    BY <1>1, <2>1 DEF PlacedIn, Top
  <2>2. CASE n # 1
    <3>1. 1 \in 1 .. n - 1
      BY <1>2, <2>2
    <3>2. QED
      BY <1>1, <3>1 DEF PlacedIn
  <2>3. QED
    BY <2>1, <2>2
<1>4. Framed(calls[1]) /\ 1 \in 1 .. n
  BY <1>2, <1>3 DEF Framed, FrameKinds
<1>5. calls[1].depth + 1 \in 1 .. Len(ast_exec_stack)
  BY <1>1, <1>4 DEF FramesNested
<1>6. calls[1] \in Call
  BY <1>1, <1>2, <1>4, ElementOfSeq
<1>7. Len(ast_exec_stack) >= 1
  BY <1>2, <1>5, <1>6 DEF Call
<1>8. QED
  BY <1>1, <1>7, EmptySeq

(* A runner that is called with its frame pushed, or with none. *)
LEMMA CalledInBody ==
  ASSUME NEW c, Shape(c, ast_exec_stack, include_chain), ScopesOf(ast_exec_stack),
         ast_exec_stack # <<>>,
         c # <<>>, c[Len(c)].at = "body",
         NEW kind \in Kinds, kind # "include", NEW file \in File
  PROVE  /\ kind \notin FrameKinds =>
               Shape(Append(c, Runner(kind, file, "body")), ast_exec_stack, include_chain)
         /\ kind \in FrameKinds =>
               Shape(Append(c, Runner(kind, file, "pushed")), Pushed(kind), include_chain)
<1>1. ast_exec_stack \in Seq(Frame) /\ include_chain \in Seq(File)
  BY DEF Shape
<1>2. Len(ast_exec_stack) \in Nat /\ Len(include_chain) \in Nat
  BY <1>1, LenProperties
<1>3. ASSUME kind \notin FrameKinds
      PROVE  Shape(Append(c, Runner(kind, file, "body")), ast_exec_stack, include_chain)
  <2> DEFINE r == Runner(kind, file, "body")
  <2>1. /\ r \in Call /\ r.kind = kind /\ r.at = "body"
        /\ r.depth = Len(ast_exec_stack) /\ r.links = Len(include_chain)
    BY <1>2 DEF Runner, Call, Places
  <2> HIDE DEF r
  <2>2. ~Framed(r) /\ Frames(r) = 0 /\ Links(r) = 0
    BY <1>3, <2>1 DEF Framed, Frames, Links
  <2>3. Shape(Append(c, r), ast_exec_stack, include_chain)
    BY <1>1, <1>2, <2>1, <2>2, Called
  <2>4. QED
    BY <2>3 DEF r
<1>4. ASSUME kind \in FrameKinds
      PROVE  Shape(Append(c, Runner(kind, file, "pushed")), Pushed(kind), include_chain)
  <2> DEFINE r == Runner(kind, file, "pushed")
  <2>1. /\ r \in Call /\ r.kind = kind /\ r.at = "pushed"
        /\ r.depth = Len(ast_exec_stack) /\ r.links = Len(include_chain)
    BY <1>2 DEF Runner, Call, Places
  <2> HIDE DEF r
  <2>2. Framed(r) /\ Frames(r) = 1 /\ Links(r) = 0
    BY <1>4, <2>1 DEF Framed, Frames, Links
  <2>3. /\ Pushed(kind) \in Seq(Frame)
        /\ Len(Pushed(kind)) = Len(ast_exec_stack) + 1
        /\ \A i \in 1 .. Len(ast_exec_stack) : Pushed(kind)[i] = ast_exec_stack[i]
        /\ Pushed(kind)[Len(ast_exec_stack) + 1].kind = kind
    BY <1>1, <1>4, PushedIs
  <2>4. Shape(Append(c, r), Pushed(kind), include_chain)
    BY <1>1, <1>2, <1>4, <2>1, <2>2, <2>3, Called
  <2>5. QED
    BY <2>4 DEF r
<1>5. QED
  BY <1>3, <1>4

(* What the invariant says, by parts; and of the runner that is innermost. *)
LEMMA Innermost ==
  ASSUME ExecutorInv, calls # <<>>
  PROVE  /\ calls \in Seq(Call) /\ ast_exec_stack \in Seq(Frame) /\ include_chain \in Seq(File)
         /\ Len(calls) \in Nat /\ Len(calls) >= 1
         /\ Top = calls[Len(calls)] /\ Top \in Call
         /\ Top.kind \notin FrameKinds => Top.at = "body"
         /\ Top.at \in {"chained", "popped"} => Top.kind = "include"
         /\ Len(ast_exec_stack) = Top.depth + Frames(Top)
         /\ Len(include_chain) = Top.links + Links(Top)
<1>1. /\ calls \in Seq(Call) /\ ast_exec_stack \in Seq(Frame) /\ include_chain \in Seq(File)
      /\ PlacedIn(calls) /\ FramesOf(calls, ast_exec_stack) /\ ChainOf(calls, include_chain)
  BY DEF ExecutorInv, Shape
<1>2. Len(calls) \in Nat /\ Len(calls) >= 1
  BY <1>1, LenProperties, EmptySeq
<1>3. Len(calls) \in 1 .. Len(calls)
  BY <1>2
<1>4. calls[Len(calls)] \in Call
  BY <1>1, <1>2, <1>3, ElementOfSeq
<1>5. /\ Len(ast_exec_stack) = Top.depth + Frames(Top)
      /\ Len(include_chain) = Top.links + Links(Top)
  BY <1>1 DEF FramesOf, ChainOf, Top
<1>6. QED
  BY <1>1, <1>2, <1>3, <1>4, <1>5 DEF PlacedIn, Top

(* The main script's runner alone, its frame pushed. *)
LEMMA InitInv == Init => ExecutorInv
<1> SUFFICES ASSUME Init PROVE ExecutorInv
  OBVIOUS
<1> DEFINE r == [kind |-> "main", file |-> Main, at |-> "pushed", depth |-> 0, links |-> 1]
           f == [kind |-> "main", scope |-> 1]
<1>1. /\ calls = <<r>> /\ ast_exec_stack = <<f>> /\ include_chain = <<Main>>
      /\ ast_scripts = Defs[Main] /\ halt_exec = {} /\ raised = "none"
  BY DEF Init
<1>2. r \in Call /\ f \in Frame /\ Main \in File /\ Defs[Main] \subseteq Script
  BY FilesAssumption DEF Call, Frame, Kinds, FrameKinds, Places
<1>3. calls \in Seq(Call) /\ ast_exec_stack \in Seq(Frame) /\ include_chain \in Seq(File)
  BY <1>1, <1>2
<1>4. /\ Len(calls) = 1 /\ calls[1] = r /\ calls # <<>>
      /\ Len(ast_exec_stack) = 1 /\ ast_exec_stack[1] = f
      /\ Len(include_chain) = 1 /\ include_chain[1] = Main
  BY <1>1
<1>5. TypeOK
  BY <1>1, <1>2, <1>3 DEF TypeOK, Call, Frame
<1>6. Framed(r) /\ Frames(r) = 1 /\ Links(r) = 0
  BY DEF Framed, Frames, Links, FrameKinds
<1>7. PlacedIn(calls)
  BY <1>4 DEF PlacedIn, FrameKinds
<1>8. FramesOf(calls, ast_exec_stack) /\ FramesNested(calls, ast_exec_stack)
  BY <1>4, <1>6 DEF FramesOf, FramesNested
<1>9. ChainOf(calls, include_chain) /\ LinksNested(calls, include_chain)
  BY <1>4, <1>6 DEF ChainOf, LinksNested
<1>10. ScopesOf(ast_exec_stack)
  BY <1>4 DEF ScopesOf, ScopeKinds
<1>11. QED
  BY <1>1, <1>3, <1>5, <1>7, <1>8, <1>9, <1>10 DEF ExecutorInv, Shape

(* A runner that catches BREAK stays when an innermost one that does not is left or moves on. *)
LEMMA Suspended ==
  ASSUME ExecutorInv, calls # <<>>, CaughtIn(calls), Top.kind \notin CatchesBreak \/ Top.at # "body"
  PROVE  /\ CaughtIn(Below(calls))
         /\ \A at \in Places : CaughtIn(Moved(at))
<1>1. calls \in Seq(Call) /\ Len(calls) \in Nat /\ Len(calls) >= 1 /\ Top = calls[Len(calls)]
  BY Innermost
<1>2. PICK i \in 1 .. Len(calls) : calls[i].kind \in CatchesBreak /\ calls[i].at = "body"
  BY DEF CaughtIn
<1>3. i \in 1 .. Len(calls) - 1
  BY <1>1, <1>2
<1>4. CaughtIn(Below(calls))
  BY <1>1, <1>2, <1>3, BelowIs DEF CaughtIn
<1>5. ASSUME NEW at \in Places
      PROVE  CaughtIn(Moved(at))
  BY <1>1, <1>2, <1>3, MovedIs DEF CaughtIn
<1>6. QED
  BY <1>4, <1>5

(***************************************************************************)
(* BREAK is only raised with a runner to catch it: the frame that          *)
(* _break_has_target finds is the frame of a runner, by FramesNested, of   *)
(* the frame's kind, by FramesOf, and in its body, by PlacedIn.            *)
(***************************************************************************)
LEMMA BreakHasRunner ==
  ASSUME ExecutorInv, InBody, _break_has_target
  PROVE  CaughtIn(calls)
<1>1. calls # <<>> /\ Top.at = "body"
  BY DEF InBody, Running
<1>2. /\ PlacedIn(calls) /\ FramesOf(calls, ast_exec_stack) /\ FramesNested(calls, ast_exec_stack)
      /\ Len(calls) \in Nat /\ Top = calls[Len(calls)]
  BY <1>1, Innermost DEF ExecutorInv, Shape
<1>3. PICK j \in 1 .. Len(ast_exec_stack) : ast_exec_stack[j].kind \in BreakTargets
  BY DEF _break_has_target
<1>4. PICK i \in 1 .. Len(calls) : Framed(calls[i]) /\ calls[i].depth + 1 = j
  BY <1>2, <1>3 DEF FramesNested
<1>5. calls[i].kind \in CatchesBreak
  BY <1>2, <1>3, <1>4 DEF FramesOf, BreakTargets, CatchesBreak
<1>6. calls[i].at = "body"
  <2>1. CASE i = Len(calls)
    BY <1>1, <1>2, <2>1
  <2>2. CASE i # Len(calls)
    <3>1. i \in 1 .. Len(calls) - 1
      BY <1>2, <2>2
    <3>2. QED
      BY <1>2, <3>1 DEF PlacedIn
  <2>3. QED
    BY <2>1, <2>2
<1>7. QED
  BY <1>5, <1>6 DEF CaughtIn

(* Every step keeps the invariant, action by action. *)
LEMMA StepInv == ExecutorInv /\ [Next]_vars => ExecutorInv'
<1> SUFFICES ASSUME ExecutorInv, [Next]_vars
             PROVE  ExecutorInv'
  OBVIOUS
<1> USE DEF ExecutorInv
<1>0. /\ Shape(calls, ast_exec_stack, include_chain) /\ ScopesOf(ast_exec_stack)
      /\ ast_scripts \subseteq Script /\ halt_exec \subseteq {"error", "cancel"}
      /\ raised \in {"none", "break", "error", "exit"}
      /\ raised = "break" => CaughtIn(calls)
  BY DEF TypeOK
<1> HIDE DEF ExecutorInv
(* Of the six variables, what has to be shown anew. *)
<1>S. ASSUME Shape(calls, ast_exec_stack, include_chain)', ScopesOf(ast_exec_stack)',
             ast_scripts' \subseteq Script, halt_exec' \subseteq {"error", "cancel"},
             raised' \in {"none", "break", "error", "exit"},
             raised' = "break" => CaughtIn(calls)'
      PROVE  ExecutorInv'
  BY <1>S DEF ExecutorInv, TypeOK, Shape, Call, Frame
<1>U. ASSUME UNCHANGED <<calls, ast_exec_stack, include_chain>>
      PROVE  Shape(calls, ast_exec_stack, include_chain)' /\ ScopesOf(ast_exec_stack)'
  BY <1>0, <1>U
(* In a body there is a frame, the innermost runner is in it, and its file is one. *)
<1>B. ASSUME Running
      PROVE  /\ calls # <<>> /\ calls[Len(calls)].at = "body" /\ ast_exec_stack # <<>>
             /\ Top.file \in File /\ raised = "none"
             /\ ast_exec_stack \in Seq(Frame)
  <2>1. calls # <<>> /\ Top.at = "body" /\ raised = "none"
    BY <1>B DEF Running
  <2>2. Top \in Call /\ Top = calls[Len(calls)] /\ ast_exec_stack \in Seq(Frame)
    BY <2>1, Innermost
  <2>3. ast_exec_stack # <<>>
    BY <1>0, <2>1, MainIsFramed
  <2>4. QED
    BY <2>1, <2>2, <2>3 DEF Call
(* exit_now, of an error and of a cancel or none. *)
<1>E. ASSUME NEW cause \in {"error", "cancel", "none"}, Running, exit_now(cause),
             UNCHANGED <<include_chain, ast_scripts>>
      PROVE  ExecutorInv'
  <2>1. CASE UNCHANGED <<calls, ast_exec_stack>> /\ raised' \in {"none", "error", "exit"}
    <3>1. halt_exec' \subseteq {"error", "cancel"}
      BY <1>0, <1>E DEF exit_now
    <3>2. QED
      BY <1>0, <1>E, <1>S, <1>U, <2>1, <3>1
  <2>2. CASE /\ calls' = calls \o <<Runner(IF cause = "error" THEN "halt" ELSE "cancel", Top.file, "body"),
                                    Runner("script", Top.file, "pushed")>>
             /\ ast_exec_stack' = Pushed("script")
             /\ halt_exec' = halt_exec \ {cause}
             /\ UNCHANGED raised
    <3> DEFINE k == IF cause = "error" THEN "halt" ELSE "cancel"
               r == Runner(k, Top.file, "body")
               q == Runner("script", Top.file, "pushed")
               c == Append(calls, r)
    <3>1. k \in Kinds /\ k \notin FrameKinds /\ k # "include"
      BY DEF Kinds, FrameKinds
    <3>2. Shape(c, ast_exec_stack, include_chain)
      BY <1>0, <1>B, <1>E, <3>1, CalledInBody
    <3>3. calls \in Seq(Call) /\ r \in Call /\ q \in Call
      <4>1. calls \in Seq(Call) /\ ast_exec_stack \in Seq(Frame) /\ include_chain \in Seq(File)
        BY <1>0 DEF Shape
      <4>2. Len(ast_exec_stack) \in Nat /\ Len(include_chain) \in Nat
        BY <4>1, LenProperties
      <4>3. QED
        BY <1>B, <1>E, <4>1, <4>2 DEF Runner, Call, Kinds, FrameKinds, Places
    <3>4. /\ c # <<>> /\ Len(c) = Len(calls) + 1
          /\ c[Len(calls) + 1] = r
      BY <3>3, AppendIs
    <3>5. r.at = "body"
      BY DEF Runner
    <3>6. c[Len(c)].at = "body"
      BY <3>4, <3>5
    <3> HIDE DEF c, r
    <3>7. "script" \in Kinds /\ "script" \in FrameKinds /\ "script" # "include"
      BY DEF Kinds, FrameKinds
    <3>8. Shape(Append(c, q), Pushed("script"), include_chain)
      BY <1>0, <1>B, <1>E, <3>2, <3>4, <3>6, <3>7, CalledInBody
    <3>9. calls' = Append(c, q)
      BY <2>2, <3>3 DEF c, r
    <3>10. ScopesOf(Pushed("script"))
      BY <1>0, <1>B, <1>E, <3>7, PushedIs
    <3>11. raised' = "none"
      BY <1>B, <1>E, <2>2
    <3>12. QED
      BY <1>0, <1>E, <1>S, <2>2, <3>8, <3>9, <3>10, <3>11
  <2>3. QED
    BY <1>B, <1>E, <2>1, <2>2 DEF exit_now
<1>1. ASSUME NEW kind \in {"if", "loop", "batch", "sqlblock"}, EnterBlock(kind)
      PROVE  ExecutorInv'
  <2>1. Running /\ kind \in Kinds /\ kind # "include" /\ (kind \in FrameKinds <=> kind # "sqlblock")
    BY <1>1 DEF EnterBlock, InBody, Kinds, FrameKinds
  <2>2. Shape(calls, ast_exec_stack, include_chain)'
    <3>1. CASE kind = "sqlblock"
      BY <1>0, <1>1, <1>B, <2>1, <3>1, CalledInBody DEF EnterBlock
    <3>2. CASE kind # "sqlblock"
      BY <1>0, <1>1, <1>B, <2>1, <3>2, CalledInBody DEF EnterBlock
    <3>3. QED
      BY <3>1, <3>2
  <2>3. ScopesOf(ast_exec_stack)'
    BY <1>0, <1>1, <1>B, <2>1, PushedIs DEF EnterBlock
  <2>4. raised' = "none" /\ UNCHANGED <<ast_scripts, halt_exec>>
    BY <1>1, <1>B, <2>1 DEF EnterBlock
  <2>5. QED
    BY <1>0, <1>S, <2>2, <2>3, <2>4
<1>2. ASSUME ExecuteScript
      PROVE  ExecutorInv'
  <2>1. Running /\ "script" \in Kinds /\ "script" # "include" /\ "script" \in FrameKinds
    BY <1>2 DEF ExecuteScript, InBody, Kinds, FrameKinds
  <2>2. Shape(calls, ast_exec_stack, include_chain)'
    BY <1>0, <1>2, <1>B, <2>1, CalledInBody DEF ExecuteScript
  <2>3. ScopesOf(ast_exec_stack)'
    BY <1>0, <1>2, <1>B, <2>1, PushedIs DEF ExecuteScript
  <2>4. raised' = "none" /\ UNCHANGED <<ast_scripts, halt_exec>>
    BY <1>2, <1>B, <2>1 DEF ExecuteScript
  <2>5. QED
    BY <1>0, <1>S, <2>2, <2>3, <2>4
<1>3. ASSUME NEW f \in File, Include(f)
      PROVE  ExecutorInv'
  <2>1. Running
    BY <1>3 DEF Include, InBody
  <2>2. /\ ast_exec_stack \in Seq(Frame) /\ include_chain \in Seq(File)
        /\ Len(ast_exec_stack) \in Nat /\ Len(include_chain) \in Nat
    BY <1>0, LenProperties DEF Shape
  <2> DEFINE r == Runner("include", f, "chained")
             g == Append(include_chain, f)
  <2>3. /\ r \in Call /\ r.kind = "include" /\ r.at = "chained" /\ r.file = f
        /\ r.depth = Len(ast_exec_stack) /\ r.links = Len(include_chain)
    BY <2>2 DEF Runner, Call, Kinds, FrameKinds, Places
  <2>4. /\ g \in Seq(File) /\ Len(g) = Len(include_chain) + 1
        /\ \A i \in 1 .. Len(include_chain) : g[i] = include_chain[i]
        /\ g[Len(include_chain) + 1] = f
    BY <2>2, AppendIs
  <2>5. \A i \in 1 .. Len(include_chain) : include_chain[i] # f
    BY <1>3 DEF Include
  <2>6. calls' = Append(calls, r) /\ include_chain' = g /\ UNCHANGED <<ast_exec_stack, halt_exec, raised>>
    BY <1>3 DEF Include
  <2> HIDE DEF r, g
  <2>7. ~Framed(r) /\ Frames(r) = 0 /\ Links(r) = 1 /\ r.kind \in FrameKinds
    BY <2>3 DEF Framed, Frames, Links, FrameKinds
  <2>8. Shape(Append(calls, r), ast_exec_stack, g)
    <3>1. calls # <<>> /\ calls[Len(calls)].at = "body"
      BY <1>B, <2>1
    <3>2. /\ Len(ast_exec_stack) = Len(ast_exec_stack) + Frames(r)
          /\ Len(g) = Len(include_chain) + Links(r)
      BY <2>2, <2>4, <2>7
    <3>3. r.kind \notin FrameKinds => r.at = "body"
      BY <2>7
    <3>4. g[Len(include_chain) + 1] = r.file /\ \A i \in 1 .. Len(include_chain) : include_chain[i] # r.file
      BY <2>3, <2>4, <2>5
    <3>5. QED
      BY <1>0, <2>2, <2>3, <2>4, <2>7, <3>1, <3>2, <3>3, <3>4, Called
  <2>9. ast_scripts' \subseteq Script
    BY <1>0, <1>3, FilesAssumption DEF Include
  <2>10. QED
    BY <1>0, <1>B, <1>S, <2>1, <2>6, <2>8, <2>9
<1>4. ASSUME PushIncludeFrame
      PROVE  ExecutorInv'
  <2>1. calls # <<>> /\ Top.at = "chained" /\ raised = "none"
    BY <1>4 DEF PushIncludeFrame
  <2>2. /\ Top \in Call /\ Top.kind = "include" /\ ast_exec_stack \in Seq(Frame)
        /\ Len(ast_exec_stack) = Top.depth + Frames(Top)
    BY <2>1, Innermost
  <2>3. Frames(Top) = 0 /\ Frames([Top EXCEPT !.at = "pushed"]) = 1
    BY <2>1, <2>2 DEF Frames, Framed, FrameKinds, Call
  <2>4. Len(ast_exec_stack) = Top.depth
    BY <2>2, <2>3 DEF Call
  <2>5. ast_exec_stack # <<>>
    BY <1>0, <2>1, <2>2, MainIsFramed
  <2>6. /\ Pushed("include") \in Seq(Frame)
        /\ Len(Pushed("include")) = Top.depth + 1
        /\ \A i \in 1 .. Top.depth : Pushed("include")[i] = ast_exec_stack[i]
        /\ Pushed("include")[Top.depth + 1].kind = "include"
        /\ ScopesOf(Pushed("include"))
    <3>1. "include" \in FrameKinds
      BY DEF FrameKinds
    <3>2. QED
      BY <1>0, <2>2, <2>4, <2>5, <3>1, PushedIs
  <2>7. Shape(Moved("pushed"), Pushed("include"), include_chain)
    <3>1. "pushed" \in Places /\ "include" \in FrameKinds /\ "pushed" \notin {"chained", "popped"}
      BY DEF Places, FrameKinds
    <3>2. QED
      BY <1>0, <2>1, <2>2, <2>3, <2>6, <3>1, MovedOn
  <2>8. QED
    BY <1>0, <1>4, <1>S, <2>1, <2>6, <2>7 DEF PushIncludeFrame
(* Within a runner, its frame stays. *)
<1>M. ASSUME NEW at \in {"body", "finally"}, calls # <<>>, Top.at \in {"pushed", "body"},
             Top.kind \in FrameKinds
      PROVE  Shape(Moved(at), ast_exec_stack, include_chain)
  <2>1. /\ Top \in Call /\ ast_exec_stack \in Seq(Frame) /\ Top = calls[Len(calls)]
        /\ Len(calls) \in Nat /\ Len(calls) >= 1
        /\ Len(ast_exec_stack) = Top.depth + Frames(Top)
    BY <1>M, Innermost
  <2>2. /\ Framed(Top) /\ Framed([Top EXCEPT !.at = at])
        /\ Frames(Top) = 1 /\ Frames([Top EXCEPT !.at = at]) = 1
    BY <1>M, <2>1 DEF Frames, Framed, Call
  <2>3. ast_exec_stack[Top.depth + 1].kind = Top.kind
    <3>1. Len(calls) \in 1 .. Len(calls)
      BY <2>1
    <3>2. QED
      BY <1>0, <2>1, <2>2, <3>1 DEF Shape, FramesOf
  <2>4. at \in Places /\ at \notin {"chained", "popped"}
    BY <1>M DEF Places
  <2>5. QED
    BY <1>0, <1>M, <2>1, <2>2, <2>3, <2>4, MovedOn
<1>5. ASSUME EnterTry
      PROVE  ExecutorInv'
  <2>1. calls # <<>> /\ Top.at = "pushed" /\ raised = "none"
    BY <1>5 DEF EnterTry
  <2>2. Top.kind \in FrameKinds
    BY <2>1, Innermost
  <2>3. Shape(Moved("body"), ast_exec_stack, include_chain)
    BY <1>M, <2>1, <2>2
  <2>4. QED
    BY <1>0, <1>5, <1>S, <2>1, <2>3 DEF EnterTry
<1>6. ASSUME NEW s \in Script, DefineScript(s)
      PROVE  ExecutorInv'
  BY <1>0, <1>6, <1>S, <1>U DEF DefineScript, InBody, Running
<1>7. ASSUME NEW cause \in {"error", "cancel"}, OnHaltExecute(cause)
      PROVE  ExecutorInv'
  BY <1>0, <1>7, <1>S, <1>U DEF OnHaltExecute, InBody, Running
<1>8. ASSUME Fail \/ Halt
      PROVE  ExecutorInv'
  BY <1>8, <1>E DEF Fail, Halt, InBody
<1>9. ASSUME RaiseError
      PROVE  ExecutorInv'
  BY <1>0, <1>9, <1>S, <1>U DEF RaiseError
<1>10. ASSUME Break
       PROVE  ExecutorInv'
  <2>1. CaughtIn(calls)
    BY <1>10, BreakHasRunner DEF Break
  <2>2. UNCHANGED <<calls, ast_exec_stack, include_chain, ast_scripts, halt_exec>> /\ raised' = "break"
    BY <1>10 DEF Break
  <2>3. CaughtIn(calls)'
    BY <2>1, <2>2 DEF CaughtIn
  <2>4. QED
    BY <1>0, <1>S, <1>U, <2>2, <2>3
<1>11. ASSUME Breakpoint
       PROVE  ExecutorInv'
  <2>1. Running /\ "prompt" \in Kinds /\ "prompt" # "include" /\ "prompt" \notin FrameKinds
    BY <1>11 DEF Breakpoint, InBody, Kinds, FrameKinds
  <2>2. Shape(calls, ast_exec_stack, include_chain)'
    BY <1>0, <1>11, <1>B, <2>1, CalledInBody DEF Breakpoint
  <2>3. QED
    BY <1>0, <1>11, <1>B, <1>S, <2>1, <2>2 DEF Breakpoint
<1>12. ASSUME NEW scripts \in SUBSET Script, RunInput(scripts)
       PROVE  ExecutorInv'
  <2>1. Running /\ "input" \in Kinds /\ "input" # "include" /\ "input" \notin FrameKinds
    BY <1>12 DEF RunInput, Kinds, FrameKinds
  <2>2. Shape(calls, ast_exec_stack, include_chain)'
    BY <1>0, <1>12, <1>B, <2>1, CalledInBody DEF RunInput
  <2>3. ast_scripts' \subseteq Script
    BY <1>0, <1>12 DEF RunInput
  <2>4. QED
    BY <1>0, <1>12, <1>B, <1>S, <2>1, <2>2, <2>3 DEF RunInput
<1>13. ASSUME Quit
       PROVE  ExecutorInv'
  BY <1>0, <1>13, <1>S, <1>U DEF Quit
(* A runner without a frame is left at once. *)
<1>L. ASSUME calls # <<>>, Top.kind \notin FrameKinds
      PROVE  Shape(Below(calls), ast_exec_stack, include_chain)
  <2>1. Frames(calls[Len(calls)]) = 0 /\ Links(calls[Len(calls)]) = 0
    BY <1>L DEF Frames, Framed, Links, FrameKinds, Top
  <2>2. /\ ast_exec_stack \in Seq(Frame) /\ include_chain \in Seq(File)
        /\ Len(ast_exec_stack) \in Nat /\ Len(include_chain) \in Nat
    BY <1>0, LenProperties DEF Shape
  <2>3. QED
    BY <1>0, <1>L, <2>1, <2>2, Left
<1>14. ASSUME Finish
       PROVE  ExecutorInv'
  <2>1. calls # <<>> /\ Top.at = "body"
    BY <1>14 DEF Finish, Running
  <2>2. Shape(calls, ast_exec_stack, include_chain)'
    <3>1. CASE Top.kind \in FrameKinds
      BY <1>14, <1>M, <2>1, <3>1 DEF Finish
    <3>2. CASE Top.kind \notin FrameKinds
      BY <1>14, <1>L, <2>1, <3>2 DEF Finish
    <3>3. QED
      BY <3>1, <3>2
  <2>3. QED
    BY <1>0, <1>14, <1>S, <2>2 DEF Finish
<1>15. ASSUME PopFrame
       PROVE  ExecutorInv'
  <2>1. calls # <<>> /\ Top.at = "finally" /\ ast_exec_stack' = Below(ast_exec_stack)
        /\ UNCHANGED <<include_chain, ast_scripts, halt_exec, raised>>
    BY <1>15 DEF PopFrame
  <2>2. /\ Top \in Call /\ ast_exec_stack \in Seq(Frame) /\ include_chain \in Seq(File)
        /\ Top = calls[Len(calls)] /\ Top.kind \in FrameKinds
        /\ Len(ast_exec_stack) = Top.depth + Frames(Top)
    BY <2>1, Innermost
  <2>3. Framed(Top) /\ Frames(Top) = 1 /\ Top.depth \in Nat
    BY <2>1, <2>2 DEF Framed, Frames, Call
  <2>4. Len(ast_exec_stack) = Top.depth + 1 /\ ast_exec_stack # <<>>
    BY <2>2, <2>3, EmptySeq
  <2>5. /\ Below(ast_exec_stack) \in Seq(Frame)
        /\ Len(Below(ast_exec_stack)) = Top.depth
        /\ \A i \in 1 .. Top.depth : Below(ast_exec_stack)[i] = ast_exec_stack[i]
    <3>1. /\ Below(ast_exec_stack) \in Seq(Frame)
          /\ Len(Below(ast_exec_stack)) = Len(ast_exec_stack) - 1
          /\ \A i \in 1 .. Len(ast_exec_stack) - 1 : Below(ast_exec_stack)[i] = ast_exec_stack[i]
      BY <2>2, <2>4, BelowIs
    <3>2. Len(ast_exec_stack) - 1 = Top.depth
      BY <2>3, <2>4
    <3>3. QED
      BY <3>1, <3>2
  <2>6. Shape(calls, ast_exec_stack, include_chain)'
    <3>1. CASE Top.kind = "include"
      <4>1. /\ Frames([Top EXCEPT !.at = "popped"]) = 0
            /\ ~Framed([Top EXCEPT !.at = "popped"])
        BY <2>2 DEF Frames, Framed, Call
      <4>2. "popped" \in Places /\ Top.depth = Top.depth + 0
        BY <2>3 DEF Places
      <4>3. Shape(Moved("popped"), Below(ast_exec_stack), include_chain)
        BY <1>0, <2>1, <2>2, <2>5, <3>1, <4>1, <4>2, MovedOn
      <4>4. QED
        BY <1>15, <2>1, <3>1, <4>3 DEF PopFrame
    <3>2. CASE Top.kind # "include"
      <4>1. Links(calls[Len(calls)]) = 0 /\ Frames(calls[Len(calls)]) = 1 /\ Len(include_chain) \in Nat
        BY <2>2, <2>3, <3>2, LenProperties DEF Links
      <4>2. Shape(Below(calls), Below(ast_exec_stack), include_chain)
        <5>1. /\ Len(Below(ast_exec_stack)) = Len(ast_exec_stack) - Frames(calls[Len(calls)])
              /\ Len(include_chain) = Len(include_chain) - Links(calls[Len(calls)])
          BY <2>3, <2>4, <2>5, <4>1
        <5>2. QED
          BY <1>0, <2>1, <2>2, <2>5, <5>1, Left
      <4>3. QED
        BY <1>15, <2>1, <3>2, <4>2 DEF PopFrame
    <3>3. QED
      BY <3>1, <3>2
  <2>7. ScopesOf(ast_exec_stack)'
    BY <1>0, <2>1, <2>2, <2>4, ScopesBelow
  <2>8. raised = "break" => CaughtIn(calls)'
    <3>1. "popped" \in Places
      BY DEF Places
    <3>2. raised = "break" => CaughtIn(Below(calls)) /\ CaughtIn(Moved("popped"))
      BY <1>0, <2>1, <3>1, Suspended
    <3>3. QED
      BY <1>15, <3>2 DEF PopFrame
  <2>9. QED
    BY <1>0, <1>S, <2>1, <2>6, <2>7, <2>8
<1>16. ASSUME PopChain
       PROVE  ExecutorInv'
  <2>1. calls # <<>> /\ Top.at = "popped" /\ include_chain' = Below(include_chain) /\ calls' = Below(calls)
        /\ UNCHANGED <<ast_exec_stack, ast_scripts, halt_exec, raised>>
    BY <1>16 DEF PopChain
  <2>2. /\ Top \in Call /\ ast_exec_stack \in Seq(Frame) /\ include_chain \in Seq(File)
        /\ Top = calls[Len(calls)] /\ Top.kind = "include"
        /\ Len(include_chain) = Top.links + Links(Top)
    BY <2>1, Innermost
  <2>3. Links(calls[Len(calls)]) = 1 /\ Frames(calls[Len(calls)]) = 0 /\ Len(ast_exec_stack) \in Nat
    BY <2>1, <2>2, LenProperties DEF Links, Frames, Framed
  <2>4. include_chain # <<>>
    BY <2>2, <2>3, EmptySeq DEF Call
  <2>5. /\ Below(include_chain) \in Seq(File)
        /\ Len(Below(include_chain)) = Len(include_chain) - 1
        /\ \A i \in 1 .. Len(include_chain) - 1 : Below(include_chain)[i] = include_chain[i]
    BY <2>2, <2>4, BelowIs
  <2>6. Shape(Below(calls), ast_exec_stack, Below(include_chain))
    <3>1. /\ Len(Below(include_chain)) = Len(include_chain) - Links(calls[Len(calls)])
          /\ \A i \in 1 .. Len(Below(include_chain)) : Below(include_chain)[i] = include_chain[i]
          /\ Len(ast_exec_stack) = Len(ast_exec_stack) - Frames(calls[Len(calls)])
      BY <2>3, <2>5
    <3>2. QED
      BY <1>0, <2>1, <2>2, <2>5, <3>1, Left
  <2>7. raised = "break" => CaughtIn(calls)'
    BY <1>0, <2>1, Suspended
  <2>8. QED
    BY <1>0, <1>S, <2>1, <2>6, <2>7
<1>17. ASSUME Unwind
       PROVE  ExecutorInv'
  <2>1. /\ calls # <<>> /\ Top.at = "body" /\ raised # "none"
        /\ UNCHANGED <<ast_exec_stack, include_chain, ast_scripts, halt_exec>>
        /\ raised' = (IF Swallows(Top.kind) THEN "none" ELSE raised)
    BY <1>17 DEF Unwind
  <2>2. Shape(calls, ast_exec_stack, include_chain)'
    <3>1. CASE Top.kind \in FrameKinds
      BY <1>17, <1>M, <2>1, <3>1 DEF Unwind
    <3>2. CASE Top.kind \notin FrameKinds /\ calls' = calls
      BY <1>0, <2>1, <3>2
    <3>3. CASE Top.kind \notin FrameKinds /\ calls' = Below(calls)
      BY <1>L, <2>1, <3>3
    <3>4. QED
      BY <1>17, <3>1, <3>2, <3>3 DEF Unwind
  <2>3. raised' = "break" => CaughtIn(calls)'
    <3>1. SUFFICES ASSUME raised' = "break"
                   PROVE  CaughtIn(calls)'
      OBVIOUS
    <3>2. raised = "break" /\ ~Swallows(Top.kind)
      BY <2>1, <3>1
    <3>3. Top.kind \notin CatchesBreak
      BY <3>2 DEF Swallows
    <3>4. "finally" \in Places
      BY DEF Places
    <3>5. CaughtIn(Below(calls)) /\ CaughtIn(Moved("finally")) /\ CaughtIn(calls)
      BY <1>0, <2>1, <3>2, <3>3, <3>4, Suspended
    <3>6. QED
      BY <1>17, <3>5 DEF Unwind
  <2>4. QED
    BY <1>0, <1>S, <2>1, <2>2, <2>3
<1>18. ASSUME Over \/ UNCHANGED vars
       PROVE  ExecutorInv'
  <2>1. UNCHANGED <<calls, ast_exec_stack, include_chain, ast_scripts, halt_exec, raised>>
    BY <1>18 DEF Over, vars
  <2>2. CaughtIn(calls)' <=> CaughtIn(calls)
    BY <2>1
  <2>3. QED
    BY <1>0, <1>S, <1>U, <2>1, <2>2
<1>19. QED
  BY <1>1, <1>2, <1>3, <1>4, <1>5, <1>6, <1>7, <1>8, <1>9, <1>10, <1>11, <1>12, <1>13,
     <1>14, <1>15, <1>16, <1>17, <1>18 DEF Next, Statement, Machinery

-----------------------------------------------------------------------------
(***************************************************************************)
(* The theorems.                                                           *)
(***************************************************************************)
(* The invariant holds throughout every run. *)
THEOREM Invariance == Spec => []ExecutorInv
<1>1. Init => ExecutorInv
  BY InitInv
<1>2. ExecutorInv /\ [Next]_vars => ExecutorInv'
  BY StepInv
<1>3. QED
  BY <1>1, <1>2, PTL DEF Spec

(* The variables keep their types (script/executor.py, state.py).          *)
THEOREM TypeCorrect == Spec => []TypeOK
<1>1. ExecutorInv => TypeOK
  BY DEF ExecutorInv
<1>2. QED
  BY <1>1, Invariance, PTL

(* A _BreakLoop that _break_has_target allowed is caught by a runner that  *)
(* is still open, whatever was nested when BREAK was reached.              *)
THEOREM BreakAlwaysCaught == Spec => []BreakIsCaught
<1>1. ExecutorInv => BreakIsCaught
  BY DEF ExecutorInv, BreakIsCaught, CaughtIn
<1>2. QED
  BY <1>1, Invariance, PTL

(* Every way out of a block pops the block's frame and no other: the       *)
(* frames of ast_exec_stack are those of the runners that are open.        *)
THEOREM FramesAlwaysMatch == Spec => []FramesAreTheOpenRunners
<1>1. ExecutorInv => FramesAreTheOpenRunners
  BY DEF ExecutorInv, Shape, FramesOf, FramesAreTheOpenRunners, Top
<1>2. QED
  BY <1>1, Invariance, PTL

(* include_chain holds the files that are being run, each once, so an      *)
(* INCLUDE is refused exactly when it would be circular.                   *)
THEOREM ChainAlwaysMatches == Spec => []ChainIsTheOpenFiles
<1>1. ExecutorInv => ChainIsTheOpenFiles
  BY DEF ExecutorInv, Shape, ChainOf, ChainIsTheOpenFiles, Top
<1>2. QED
  BY <1>1, Invariance, PTL

(* The scope a frame caches when it is pushed stays the innermost SCRIPT   *)
(* or main frame below it.                                                 *)
THEOREM ScopeAlwaysInnermost == Spec => []ScopeIsInnermost
<1>1. ExecutorInv => ScopeIsInnermost
  BY DEF ExecutorInv, ScopesOf, ScopeIsInnermost
<1>2. QED
  BY <1>1, Invariance, PTL

----------------------------------------------------------------------------
(* Scopes: the stack of them, of which main's is never left. *)
ScopesInv ==
  /\ \E S : scopes \in Seq(S)
  /\ Len(scopes) >= 1
  /\ \A k \in 1 .. Len(scopes) : scopes[k] = [locals |-> scopes[k].locals, params |-> scopes[k].params]

(* after is before, but for name. *)
Alters(before, after, name) ==
  \A n \in (DOMAIN before) \cup (DOMAIN after) :
    n # name => n \in (DOMAIN before) \cap (DOMAIN after) /\ after[n] = before[n]

LEMMA SetAlters == \A vs, name, value : Alters(vs, Set(vs, name, value), name)
BY DEF Alters, Set

LEMMA WithoutAlters == \A vs, name : Alters(vs, Without(vs, name), name)
BY DEF Alters, Without

LEMMA ReplacedAlters == \A vs, name, value : Alters(vs, Set(Without(vs, name), name, value), name)
BY DEF Alters, Set, Without

LEMMA DeepestIs == ScopesInv => Deepest \in Nat /\ Deepest >= 1 /\ Deepest = Len(scopes) /\ DOMAIN scopes = 1 .. Deepest
BY LenProperties DEF ScopesInv, Deepest

LEMMA SameScopes ==
  ASSUME ScopesInv, scopes' = scopes
  PROVE  ScopesInv' /\ ScopesAreKept
<1>1. ScopesInv'
  BY DEF ScopesInv
<1>2. \A k : Touched(k) = {}
  BY DEF Touched
<1>3. Len(scopes') = Deepest /\ Deepest \in Nat
  BY DeepestIs
<1>4. { k \in 1 .. Deepest - 1 : k <= Len(scopes') /\ Touched(k) # {} } = {}
  BY <1>2
<1>5. QED
  BY <1>1, <1>3, <1>4 DEF ScopesAreKept

(* One scope's locals are replaced. *)
LEMMA Assigned ==
  ASSUME ScopesInv, NEW k \in 1 .. Deepest, NEW after, scopes' = [scopes EXCEPT ![k].locals = after]
  PROVE  /\ ScopesInv' /\ Len(scopes') = Deepest /\ DOMAIN scopes' = DOMAIN scopes
         /\ \A j \in 1 .. Deepest : scopes'[j].params = scopes[j].params
         /\ \A j \in 1 .. Deepest : j # k => Touched(j) = {}
         /\ scopes'[k].locals = after
<1> DEFINE new == [scopes[k] EXCEPT !.locals = after]
<1>1. PICK S : scopes \in Seq(S)
  BY DEF ScopesInv
<1>2. k \in 1 .. Len(scopes) /\ DOMAIN scopes = 1 .. Len(scopes) /\ Len(scopes) = Deepest /\ Len(scopes) \in Nat
  BY DeepestIs
<1>3. scopes' = [scopes EXCEPT ![k] = new]
  OBVIOUS
<1>4. new = [locals |-> after, params |-> scopes[k].params]
  BY <1>2 DEF ScopesInv
<1> HIDE DEF new
<1>5. scopes \in Seq(S \cup {new})
  BY <1>1
<1>6. scopes' \in Seq(S \cup {new}) /\ Len(scopes') = Len(scopes) /\ DOMAIN scopes' = DOMAIN scopes
  BY <1>2, <1>3, <1>5, ExceptSeq
<1>7. \A j \in 1 .. Len(scopes) : scopes'[j] = IF j = k THEN new ELSE scopes[j]
  BY <1>2, <1>3
<1>8. ScopesInv'
  <2>1. \A j \in 1 .. Len(scopes') : scopes'[j] = [locals |-> scopes'[j].locals, params |-> scopes'[j].params]
    BY <1>4, <1>6, <1>7 DEF ScopesInv
  <2>2. \E T : scopes' \in Seq(T)
    BY <1>6
  <2>3. QED
    BY <1>6, <2>1, <2>2 DEF ScopesInv
<1>9. \A j \in 1 .. Deepest : scopes'[j].params = scopes[j].params
  BY <1>2, <1>4, <1>7
<1>10. \A j \in 1 .. Deepest : j # k => Touched(j) = {}
  BY <1>2, <1>7 DEF Touched
<1>11. QED
  BY <1>2, <1>4, <1>6, <1>7, <1>8, <1>9, <1>10

(* A step that changes one variable in a scope it may name. *)
LEMMA OneIsAssigned ==
  ASSUME ScopesInv, NEW name, NEW k \in get_subvarset(name), NEW after,
         k = 0 => scopes' = scopes,
         k # 0 => scopes' = [scopes EXCEPT ![k].locals = after] /\ Alters(scopes[k].locals, after, Key(name))
  PROVE  ScopesInv' /\ ScopesAreKept
<1>1. CASE k = 0
  BY <1>1, SameScopes
<1>2. CASE k # 0
  <2> DEFINE key == Key(name)
  <2>1. Deepest \in Nat /\ Deepest >= 1 /\ DOMAIN scopes = 1 .. Deepest
    BY DeepestIs
  <2>2. k \in 1 .. Deepest
    BY <1>2, <2>1 DEF get_subvarset, Outer
  <2>3. k # Deepest => /\ k \in 1 .. Deepest - 1 /\ key \in DOMAIN scopes[k].locals
                         /\ \A j \in k + 1 .. Deepest - 1 : key \notin DOMAIN scopes[j].locals
    <3>1. CASE Head(name) = "+"
      <4>1. k \in Outer(key) /\ k \in Int
        BY <2>2, <3>1 DEF get_subvarset, Key
      <4>2. k \in 1 .. Deepest - 1 /\ key \in DOMAIN scopes[k].locals
        BY <4>1 DEF Outer
      <4>3. \A j \in 1 .. Deepest - 1 : key \in DOMAIN scopes[j].locals => j <= k
        BY <4>1 DEF Outer
      <4>4. QED
        BY <2>1, <4>1, <4>2, <4>3
    <3>2. CASE Head(name) # "+"
      BY <1>2, <3>2 DEF get_subvarset
    <3>3. QED
      BY <3>1, <3>2
  <2>4. scopes' = [scopes EXCEPT ![k].locals = after] /\ Alters(scopes[k].locals, after, key)
    BY <1>2
  <2>5. /\ ScopesInv' /\ Len(scopes') = Deepest /\ DOMAIN scopes' = DOMAIN scopes
        /\ \A j \in 1 .. Deepest : scopes'[j].params = scopes[j].params
        /\ \A j \in 1 .. Deepest : j # k => Touched(j) = {}
        /\ scopes'[k].locals = after
    BY <2>2, <2>4, Assigned
  <2> HIDE DEF key
  <2>6. Touched(k) \subseteq {key}
    BY <2>4, <2>5 DEF Touched, Alters
  <2>7. ASSUME NEW j \in 1 .. Deepest - 1, Touched(j) # {}
        PROVE  j = k /\ Touched(j) = {key} /\ k # Deepest
    <3>1. j \in 1 .. Deepest /\ j # Deepest
      BY <2>1
    <3>2. j = k
      BY <2>5, <2>7, <3>1
    <3>3. QED
      BY <2>6, <2>7, <3>1, <3>2
  <2> DEFINE outer == { j \in 1 .. Deepest - 1 : j <= Len(scopes') /\ Touched(j) # {} }
  <2>8. \A j \in outer : /\ outer = {j} /\ Len(scopes') = Deepest
                         /\ \E n \in DOMAIN scopes[j].locals :
                              /\ Touched(j) = {n}
                              /\ \A i \in j + 1 .. Deepest - 1 : n \notin DOMAIN scopes[i].locals
    <3>1. ASSUME NEW j \in outer
          PROVE  /\ outer = {j} /\ Len(scopes') = Deepest
                 /\ \E n \in DOMAIN scopes[j].locals :
                      /\ Touched(j) = {n}
                      /\ \A i \in j + 1 .. Deepest - 1 : n \notin DOMAIN scopes[i].locals
      <4>1. j = k /\ Touched(j) = {key} /\ k # Deepest
        BY <2>7
      <4>2. outer = {j}
        BY <2>7, <4>1
      <4>3. key \in DOMAIN scopes[j].locals /\ \A i \in j + 1 .. Deepest - 1 : key \notin DOMAIN scopes[i].locals
        BY <2>3, <4>1
      <4>4. QED
        BY <2>5, <4>1, <4>2, <4>3
    <3>2. QED
      BY <3>1
  <2>9. QED
    BY <2>1, <2>5, <2>8 DEF ScopesAreKept
<1>3. QED
  BY <1>1, <1>2

(* What a metacommand that sets a variable does to the scopes. *)
AssignsOne(name) ==
  \E k \in get_subvarset(name) :
    IF k = 0 THEN scopes' = scopes
    ELSE \E after : scopes' = [scopes EXCEPT ![k].locals = after] /\ Alters(scopes[k].locals, after, Key(name))

LEMMA SettersAssignOne ==
  ASSUME NEW text, x_sub(text) \/ x_sub_empty(text) \/ x_sub_append(text) \/ x_rm_sub(text) \/ x_subdata(text)
  PROVE  scopes' = scopes \/ AssignsOne(Parts(text).name)
<1> DEFINE name == Parts(text).name
<1>1. ASSUME NEW k \in get_subvarset(name), NEW value,
             scopes' = IF k = 0 THEN scopes ELSE [scopes EXCEPT ![k].locals = Set(@, Key(name), value)]
      PROVE  AssignsOne(name)
  BY <1>1, SetAlters DEF AssignsOne
<1>2. ASSUME NEW k \in get_subvarset(name),
             scopes' = IF k = 0 THEN scopes ELSE [scopes EXCEPT ![k].locals = Without(@, Key(name))]
      PROVE  AssignsOne(name)
  BY <1>2, WithoutAlters DEF AssignsOne
<1>3. CASE x_sub(text)
  BY <1>1, <1>3 DEF x_sub, Change, Assign, Fails
<1>4. CASE x_sub_empty(text)
  BY <1>1, <1>4 DEF x_sub_empty, Change, Assign, Fails
<1>5. CASE x_sub_append(text)
  <2> DEFINE Appended(k) == LET vs == scopes[k].locals
                            IN IF Key(name) \in DOMAIN vs THEN vs[Key(name)] \o <<"\n">> \o Parts(text).rest ELSE Parts(text).rest
  <2>1. scopes' = scopes \/ \E k \in get_subvarset(name) :
          scopes' = IF k = 0 THEN scopes ELSE [scopes EXCEPT ![k].locals = Set(@, Key(name), Appended(k))]
    BY <1>5 DEF x_sub_append, Change, Assign, Fails
  <2> HIDE DEF Appended
  <2>2. QED
    BY <1>1, <2>1
<1>6. CASE x_rm_sub(text)
  BY <1>2, <1>6 DEF x_rm_sub, Change, Assign, Fails
<1>7. CASE x_subdata(text)
  <2>1. \/ scopes' = scopes
        \/ \E k \in get_subvarset(name) :
             scopes' = IF k = 0 THEN scopes ELSE [scopes EXCEPT ![k].locals = Without(@, Key(name))]
        \/ \E k \in get_subvarset(name) :
             scopes' = IF k = 0 THEN scopes
                       ELSE [scopes EXCEPT ![k].locals = Set(Without(@, Key(name)), Key(name), <<"data">>)]
    BY <1>7 DEF x_subdata, Change, Assign, Fails
  <2>2. ASSUME NEW k \in get_subvarset(name),
               scopes' = IF k = 0 THEN scopes
                         ELSE [scopes EXCEPT ![k].locals = Set(Without(@, Key(name)), Key(name), <<"data">>)]
        PROVE  AssignsOne(name)
    BY <2>2, ReplacedAlters DEF AssignsOne
  <2>3. QED
    BY <1>2, <2>1, <2>2
<1>8. QED
  BY <1>3, <1>4, <1>5, <1>6, <1>7

LEMMA SetterKeeps ==
  ASSUME ScopesInv, NEW text, x_sub(text) \/ x_sub_empty(text) \/ x_sub_append(text) \/ x_rm_sub(text) \/ x_subdata(text)
  PROVE  ScopesInv' /\ ScopesAreKept
<1> DEFINE name == Parts(text).name
<1>1. CASE scopes' = scopes
  BY <1>1, SameScopes
<1>2. CASE AssignsOne(name)
  <2>1. PICK k \in get_subvarset(name) :
          IF k = 0 THEN scopes' = scopes
          ELSE \E after : scopes' = [scopes EXCEPT ![k].locals = after] /\ Alters(scopes[k].locals, after, Key(name))
    BY <1>2 DEF AssignsOne
  <2>2. CASE k = 0
    BY <2>1, <2>2, SameScopes
  <2>3. CASE k # 0
    <3>1. PICK after : scopes' = [scopes EXCEPT ![k].locals = after] /\ Alters(scopes[k].locals, after, Key(name))
      BY <2>1, <2>3
    <3>2. QED
      BY <2>3, <3>1, OneIsAssigned
  <2>4. QED
    BY <2>2, <2>3
<1>3. QED
  BY <1>1, <1>2, SettersAssignOne

(* Nothing but the innermost scope's locals changes. *)
LEMMA LocalSetterKeeps ==
  ASSUME ScopesInv, NEW text, x_sub_local(text)
  PROVE  ScopesInv' /\ ScopesAreKept
<1>1. Deepest \in Nat /\ Deepest >= 1 /\ DOMAIN scopes = 1 .. Deepest
  BY DeepestIs
<1>2. CASE scopes' = scopes
  BY <1>2, SameScopes
<1>3. CASE \E after : scopes' = [scopes EXCEPT ![Deepest].locals = after]
  <2>1. PICK after : scopes' = [scopes EXCEPT ![Deepest].locals = after]
    BY <1>3
  <2>2. Deepest \in 1 .. Deepest
    BY <1>1
  <2>3. /\ ScopesInv' /\ Len(scopes') = Deepest /\ DOMAIN scopes' = DOMAIN scopes
        /\ \A j \in 1 .. Deepest : scopes'[j].params = scopes[j].params
        /\ \A j \in 1 .. Deepest : j # Deepest => Touched(j) = {}
    BY <2>1, <2>2, Assigned
  <2>4. { k \in 1 .. Deepest - 1 : k <= Len(scopes') /\ Touched(k) # {} } = {}
    BY <1>1, <2>3
  <2>5. QED
    BY <1>1, <2>3, <2>4 DEF ScopesAreKept
<1>4. QED
  BY <1>1, <1>2, <1>3 DEF x_sub_local, Assign, Fails

LEMMA CallKeeps ==
  ASSUME ScopesInv, NEW text, _execute_script_native(text)
  PROVE  ScopesInv' /\ ScopesAreKept
<1>1. CASE Missing(text) # {}
  BY <1>1, SameScopes DEF _execute_script_native, Fails
<1>2. CASE Missing(text) = {}
  <2> DEFINE new == [locals |-> NoVariables, params |-> _script_args(text)]
  <2>1. scopes' = Append(scopes, new)
    BY <1>2 DEF _execute_script_native
  <2>2. new.locals = NoVariables /\ new = [locals |-> new.locals, params |-> new.params]
    OBVIOUS
  <2> HIDE DEF new
  <2>3. PICK S : scopes \in Seq(S)
    BY DEF ScopesInv
  <2>4. Deepest \in Nat /\ Deepest >= 1 /\ Deepest = Len(scopes) /\ DOMAIN scopes = 1 .. Deepest
    BY DeepestIs
  <2>5. scopes \in Seq(S \cup {new}) /\ new \in S \cup {new}
    BY <2>3
  <2>6. /\ scopes' \in Seq(S \cup {new}) /\ Len(scopes') = Deepest + 1
        /\ \A i \in 1 .. Deepest : scopes'[i] = scopes[i]
        /\ scopes'[Deepest + 1] = new
    BY <2>1, <2>4, <2>5, AppendProperties
  <2>7. DOMAIN scopes' = 1 .. Deepest + 1
    BY <2>6, LenProperties
  <2>8. ScopesInv'
    <3>1. \A j \in 1 .. Len(scopes') : scopes'[j] = [locals |-> scopes'[j].locals, params |-> scopes'[j].params]
      <4>1. \A j \in 1 .. Deepest : scopes[j] = [locals |-> scopes[j].locals, params |-> scopes[j].params]
        BY <2>4 DEF ScopesInv
      <4>2. \A j \in 1 .. Deepest : scopes'[j] = [locals |-> scopes'[j].locals, params |-> scopes'[j].params]
        BY <2>6, <4>1
      <4>3. scopes'[Deepest + 1] = [locals |-> scopes'[Deepest + 1].locals, params |-> scopes'[Deepest + 1].params]
        BY <2>2, <2>6
      <4>4. \A j \in 1 .. Deepest + 1 : j \in 1 .. Deepest \/ j = Deepest + 1
        BY <2>4
      <4>5. QED
        BY <2>6, <4>2, <4>3, <4>4
    <3>2. \E T : scopes' \in Seq(T)
      BY <2>6
    <3>3. QED
      BY <2>4, <2>6, <3>1, <3>2 DEF ScopesInv
  <2>9. \A j \in 1 .. Deepest : Touched(j) = {}
    BY <2>6 DEF Touched
  <2>10. { k \in 1 .. Deepest - 1 : k <= Len(scopes') /\ Touched(k) # {} } = {}
    BY <2>4, <2>9
  <2>11. QED
    BY <2>2, <2>4, <2>6, <2>7, <2>8, <2>10 DEF ScopesAreKept
<1>3. QED
  BY <1>1, <1>2

LEMMA ReturnKeeps ==
  ASSUME ScopesInv, Return
  PROVE  ScopesInv' /\ ScopesAreKept
<1>1. PICK S : scopes \in Seq(S)
  BY DEF ScopesInv
<1>2. Deepest \in Nat /\ Deepest > 1 /\ Deepest = Len(scopes) /\ DOMAIN scopes = 1 .. Deepest
  BY DeepestIs DEF Return
<1>3. scopes' = SubSeq(scopes, 1, Deepest - 1)
  BY <1>2 DEF Return, Front
<1>4. \A i \in 1 .. Deepest - 1 : scopes[i] \in S
  BY <1>1, <1>2, ElementOfSeq
<1>5. /\ scopes' \in Seq(S) /\ Len(scopes') = Deepest - 1
      /\ \A i \in 1 .. Deepest - 1 : scopes'[i] = scopes[i]
  BY <1>2, <1>3, <1>4, SubSeqProperties
<1>6. DOMAIN scopes' = 1 .. Deepest - 1
  BY <1>5, LenProperties
<1>7. ScopesInv'
  <2>1. \A j \in 1 .. Len(scopes') : scopes'[j] = [locals |-> scopes'[j].locals, params |-> scopes'[j].params]
    BY <1>2, <1>5 DEF ScopesInv
  <2>2. \E T : scopes' \in Seq(T)
    BY <1>5
  <2>3. QED
    BY <1>2, <1>5, <2>1, <2>2 DEF ScopesInv
<1>8. \A j \in 1 .. Deepest - 1 : Touched(j) = {}
  BY <1>5 DEF Touched
<1>9. { k \in 1 .. Deepest - 1 : k <= Len(scopes') /\ Touched(k) # {} } = {}
  BY <1>8
<1>10. QED
  BY <1>2, <1>5, <1>6, <1>7, <1>9 DEF ScopesAreKept

LEMMA RunKeeps ==
  ASSUME ScopesInv, Run
  PROVE  ScopesInv' /\ ScopesAreKept
<1>1. PICK c \in Commands : \E o \in Expansions(c.text, Visible, counters) :
                                IF o.raised = "no" THEN Handled(c.kind, o.text) ELSE Fails
  BY DEF Run
<1> PICK o : IF o.raised = "no" THEN Handled(c.kind, o.text) ELSE Fails
  BY <1>1
<1>2. CASE Fails
  BY <1>2, SameScopes DEF Fails
<1>3. CASE Handled(c.kind, o.text)
  <2> DEFINE text == o.text
  <2>1. \/ Fails \/ x_sub_local(text) \/ _execute_script_native(text)
        \/ x_sub(text) \/ x_sub_empty(text) \/ x_sub_append(text) \/ x_rm_sub(text) \/ x_subdata(text)
    BY <1>3, CommandsAssumption DEF Handled, CommandKinds
  <2> HIDE DEF text
  <2>2. QED
    BY <1>2, <2>1, SetterKeeps, LocalSetterKeeps, CallKeeps
<1>4. QED
  BY <1>2, <1>3

(* A script's callers keep their variables, whatever a text expands to and *)
(* however deep the calls: get_subvarset, _push_frame and _pop_frame.      *)
THEOREM CallersKeepTheirVariables == VariablesSpec => ScopesStayKept
<1>1. VariablesInit => ScopesInv
  <2> SUFFICES ASSUME VariablesInit PROVE ScopesInv
    OBVIOUS
  <2> DEFINE main == [locals |-> NoVariables, params |-> NoVariables]
  <2>1. scopes = <<main>> /\ main = [locals |-> main.locals, params |-> main.params]
    BY DEF VariablesInit
  <2> HIDE DEF main
  <2>2. scopes \in Seq({main}) /\ Len(scopes) = 1 /\ scopes[1] = main
    BY <2>1
  <2>3. \A k \in 1 .. Len(scopes) : scopes[k] = [locals |-> scopes[k].locals, params |-> scopes[k].params]
    <3>1. \A k \in 1 .. Len(scopes) : k = 1
      BY <2>2
    <3>2. scopes[1] = [locals |-> scopes[1].locals, params |-> scopes[1].params]
      BY <2>1, <2>2
    <3>3. QED
      BY <3>1, <3>2
  <2>4. QED
    BY <2>2, <2>3 DEF ScopesInv
<1>2. ScopesInv /\ [VariablesNext]_variableVars => ScopesInv' /\ ScopesAreKept
  <2> SUFFICES ASSUME ScopesInv, [VariablesNext]_variableVars PROVE ScopesInv' /\ ScopesAreKept
    OBVIOUS
  <2>1. CASE Run
    BY <2>1, RunKeeps
  <2>2. CASE Return
    BY <2>2, ReturnKeeps
  <2>3. CASE scopes' = scopes
    BY <2>3, SameScopes
  <2>4. QED
    BY <2>1, <2>2, <2>3 DEF VariablesNext, ResetCounter, variableVars
<1>3. QED
  BY <1>1, <1>2, PTL DEF VariablesSpec, ScopesStayKept
=============================================================================
