----------------------------- MODULE ScriptProofs -----------------------------
(***************************************************************************)
(* Proofs about the threads that run scripts: what SIGINT may interrupt    *)
(* and which imported functions a script can call, for every number of     *)
(* threads, states, functions and libraries; about the memory scripts peek *)
(* and poke, for all sizes of bytes, elements and blocks; and about the    *)
(* signatures of native functions, for any number of types and arguments.  *)
(***************************************************************************)
EXTENDS ScriptThreads, MemoryCells, NativeSignatures,
        SequenceTheorems, FiniteSetTheorems, WellFoundedInduction, TLAPS

(***************************************************************************)
(* The inductive invariant                                                 *)
(***************************************************************************)
Frames == [state : States, kind : Kinds]

\* A message function is called on an empty stack only.
MessageAtBottom ==
    \A t \in Threads : \A i \in 1 .. Len(frames[t]) :
        frames[t][i].kind = "message" => i = 1

\* The handler of SIGINT has a state to hook once it can be called.
StaticStateSet == sigint = "laction" \/ hooking => staticState \in States

\* What the frames of a state say about its phase.
PhaseOfFrame ==
    \A t \in Threads : \A i \in 1 .. Len(frames[t]) :
        phase[frames[t][i].state] =
            IF frames[t][i].kind = "script" THEN "running" ELSE "ready"

\* No state is run twice.
StateOnce ==
    \A t, u \in Threads : \A i \in 1 .. Len(frames[t]), j \in 1 .. Len(frames[u]) :
        frames[t][i].state = frames[u][j].state => t = u /\ i = j

\* A thread without imports of more than one script runs at most one, and has
\* none when it runs nothing.
MixedThreads ==
    \A t \in Threads : t \notin mixed =>
        /\ Len(frames[t]) <= 1
        /\ frames[t] = <<>> => imported[t] = NoImports

\* A thread that is not mixed knows the imports of the one script it runs.
ImportsKnown ==
    \A t \in Threads, f \in Functions :
        frames[t] # <<>> /\ t \notin mixed /\ imported[t][f] # None
            => known[frames[t][Len(frames[t])].state][f] = imported[t][f]

SignalInv ==
    ScriptTypeOK /\ MessageAtBottom /\ StaticStateSet /\ OnlyExceptionsKeepHandler
ImportInv == SignalInv /\ PhaseOfFrame /\ StateOnce /\ MixedThreads /\ ImportsKnown

(***************************************************************************)
(* Lemmas                                                                  *)
(***************************************************************************)
LEMMA FrontFacts ==
  ASSUME NEW S, NEW s \in Seq(S), s # <<>>
  PROVE  /\ Len(s) \in Nat /\ Len(s) > 0
         /\ Last(s) = s[Len(s)] /\ Last(s) \in S
         /\ Front(s) \in Seq(S) /\ Len(Front(s)) = Len(s) - 1
         /\ \A i \in 1 .. Len(s) - 1 : Front(s)[i] = s[i]
<1>1. Len(s) \in Nat /\ Len(s) > 0
  BY EmptySeq, LenProperties
<1>2. Last(s) = s[Len(s)] /\ Last(s) \in S
  BY <1>1, ElementOfSeq DEF Last
<1>3. \A i \in 1 .. Len(s) - 1 : s[i] \in S
  BY <1>1, ElementOfSeq
<1>4. /\ SubSeq(s, 1, Len(s) - 1) \in Seq(S)
      /\ Len(SubSeq(s, 1, Len(s) - 1)) =
           IF 1 <= Len(s) - 1 THEN Len(s) - 1 - 1 + 1 ELSE 0
      /\ \A i \in 1 .. Len(s) - 1 - 1 + 1 : SubSeq(s, 1, Len(s) - 1)[i] = s[1 + i - 1]
  BY <1>1, <1>3, SubSeqProperties
<1>5. Front(s) \in Seq(S)
  BY <1>4 DEF Front
<1>6. Len(Front(s)) = Len(s) - 1
  <2> DEFINE n == Len(s)
             m == Len(SubSeq(s, 1, Len(s) - 1))
  <2>1. n \in Nat /\ n > 0 /\ m = IF 1 <= n - 1 THEN n - 1 - 1 + 1 ELSE 0
    BY <1>1, <1>4
  <2> HIDE DEF n, m
  <2>2. m = n - 1
    BY <2>1
  <2> QED
    BY <2>2 DEF n, m, Front
<1>7. \A i \in 1 .. Len(s) - 1 : Front(s)[i] = s[i]
  <2>1. 1 .. Len(s) - 1 - 1 + 1 = 1 .. Len(s) - 1 /\ \A i \in Nat : 1 + i - 1 = i
    BY <1>1
  <2> QED
    BY <1>4, <2>1 DEF Front
<1> QED
  BY <1>1, <1>2, <1>5, <1>6, <1>7

LEMMA PathTypes ==
  ASSUME ScriptTypeOK, NEW lib \in Libraries, NEW path \in GetDllPath(lib)
  PROVE  path \in Paths
<1> DEFINE name == Candidate(lib)
<1>1. name \in Libraries
  BY ScriptAssumption DEF Candidate
<1>2. directories[name] \subseteq Directories
  BY <1>1 DEF ScriptTypeOK
<1>3. \/ path = <<None, lib>>
      \/ \E d \in directories[name] : path = <<d, name>>
  BY DEF GetDllPath
<1> QED
  BY <1>1, <1>2, <1>3 DEF Paths

(***************************************************************************)
(* Types and SIGINT                                                        *)
(***************************************************************************)
LEMMA SignalInit == ScriptInit => SignalInv
<1> SUFFICES ASSUME ScriptInit PROVE SignalInv
  OBVIOUS
<1>1. NoImports \in [Functions -> Paths \cup {None}]
  BY DEF NoImports
<1>2. frames \in [Threads -> Seq([state : States, kind : Kinds])]
  BY EmptySeq DEF ScriptInit
<1>3. /\ imported \in [Threads -> [Functions -> Paths \cup {None}]]
      /\ known \in [States -> [Functions -> Paths \cup {None}]]
  BY <1>1 DEF ScriptInit
<1>4. /\ directories \in [Libraries -> SUBSET Directories]
      /\ phase \in [States -> {"new", "running", "ready", "closed"}]
      /\ staticState \in States \cup {None} /\ sigint \in {"laction", "default"}
      /\ hooking \in BOOLEAN /\ hooked \subseteq States
      /\ mixed \subseteq Threads /\ thrown \subseteq States
  BY DEF ScriptInit
<1>5. ScriptTypeOK
  BY <1>2, <1>3, <1>4 DEF ScriptTypeOK
<1>6. \A t \in Threads : Len(frames[t]) = 0
  BY EmptySeq DEF ScriptInit
<1>7. MessageAtBottom
  BY <1>6 DEF MessageAtBottom
<1> QED
  BY <1>5, <1>7 DEF ScriptInit, SignalInv, StaticStateSet, OnlyExceptionsKeepHandler

(***************************************************************************)
(* What the steps do to the frames of a thread                             *)
(***************************************************************************)
LEMMA FrameTypes ==
  ASSUME ScriptTypeOK, NEW t \in Threads
  PROVE  /\ frames[t] \in Seq(Frames) /\ Len(frames[t]) \in Nat
         /\ frames[t] # <<>> <=> Len(frames[t]) > 0
         /\ \A i \in 1 .. Len(frames[t]) :
              /\ frames[t][i] \in Frames
              /\ frames[t][i].state \in States /\ frames[t][i].kind \in Kinds
         /\ frames[t] # <<>> =>
              /\ Len(frames[t]) \in 1 .. Len(frames[t])
              /\ Top(t) = frames[t][Len(frames[t])]
              /\ Top(t).state \in States /\ Top(t).kind \in Kinds
<1>1. frames[t] \in Seq(Frames)
  BY DEF ScriptTypeOK, Frames
<1>2. Len(frames[t]) \in Nat /\ (frames[t] # <<>> <=> Len(frames[t]) > 0)
  BY <1>1, EmptySeq, LenProperties
<1>3. \A i \in 1 .. Len(frames[t]) : frames[t][i] \in Frames
  BY <1>1, ElementOfSeq
<1>4. \A i \in 1 .. Len(frames[t]) :
        frames[t][i].state \in States /\ frames[t][i].kind \in Kinds
  BY <1>3 DEF Frames
<1>5. frames[t] # <<>> => Len(frames[t]) \in 1 .. Len(frames[t])
  BY <1>2
<1>6. Top(t) = frames[t][Len(frames[t])]
  BY DEF Top, Last
<1> QED
  BY <1>1, <1>2, <1>3, <1>4, <1>5, <1>6

\* Run puts a script on top.
LEMMA Pushed ==
  ASSUME ScriptTypeOK, NEW t \in Threads, NEW s \in States, Run(t, s)
  PROVE  /\ frames' \in [Threads -> Seq(Frames)]
         /\ Len(frames'[t]) = Len(frames[t]) + 1
         /\ frames'[t][Len(frames[t]) + 1] = [state |-> s, kind |-> "script"]
         /\ \A i \in 1 .. Len(frames[t]) : frames'[t][i] = frames[t][i]
         /\ \A u \in Threads \ {t} : frames'[u] = frames[u]
<1> DEFINE x == [state |-> s, kind |-> "script"]
<1>1. frames[t] \in Seq(Frames) /\ frames \in [Threads -> Seq(Frames)]
  BY FrameTypes DEF ScriptTypeOK, Frames
<1>2. x \in Frames
  BY DEF Frames, Kinds
<1>3. frames' = [frames EXCEPT ![t] = Append(frames[t], x)]
  BY DEF Run
<1>4. frames'[t] = Append(frames[t], x) /\ \A u \in Threads \ {t} : frames'[u] = frames[u]
  BY <1>1, <1>3
<1>5. /\ Append(frames[t], x) \in Seq(Frames)
      /\ Len(Append(frames[t], x)) = Len(frames[t]) + 1
      /\ \A i \in 1 .. Len(frames[t]) : Append(frames[t], x)[i] = frames[t][i]
      /\ Append(frames[t], x)[Len(frames[t]) + 1] = x
  BY <1>1, <1>2, AppendProperties
<1>6. frames' \in [Threads -> Seq(Frames)]
  BY <1>1, <1>3, <1>5
<1> HIDE DEF x
<1> QED
  BY <1>4, <1>5, <1>6 DEF x

Ends(t) == RunEnds(t) \/ RunFails(t)

\* The end of a script removes its frame, and possibly those below it.
LEMMA Popped ==
  ASSUME ScriptTypeOK, NEW t \in Threads, Ends(t)
  PROVE  /\ frames' \in [Threads -> Seq(Frames)]
         /\ Len(frames[t]) \in Nat /\ Len(frames[t]) > 0
         /\ frames[t][Len(frames[t])].kind = "script"
         /\ Len(frames'[t]) \in 0 .. Len(frames[t]) - 1
         /\ \A i \in 1 .. Len(frames'[t]) : frames'[t][i] = frames[t][i]
         /\ \A u \in Threads \ {t} : frames'[u] = frames[u]
<1>1. /\ frames[t] \in Seq(Frames) /\ frames \in [Threads -> Seq(Frames)]
      /\ frames[t] # <<>> /\ frames[t][Len(frames[t])].kind = "script"
      /\ Len(frames[t]) \in Nat /\ Len(frames[t]) > 0
  BY FrameTypes DEF ScriptTypeOK, Frames, Ends, RunEnds, RunFails, Running
<1>2. PICK q : /\ frames' = [frames EXCEPT ![t] = q] /\ q \in Seq(Frames)
               /\ Len(q) \in 0 .. Len(frames[t]) - 1
               /\ \A i \in 1 .. Len(q) : q[i] = frames[t][i]
  <2>1. CASE RunEnds(t)
    <3>1. frames' = [frames EXCEPT ![t] = Front(frames[t])]
      BY <2>1 DEF RunEnds
    <3>2. /\ Front(frames[t]) \in Seq(Frames)
          /\ Len(Front(frames[t])) = Len(frames[t]) - 1
          /\ \A i \in 1 .. Len(frames[t]) - 1 : Front(frames[t])[i] = frames[t][i]
      BY <1>1, FrontFacts
    <3>3. Len(frames[t]) - 1 \in 0 .. Len(frames[t]) - 1
      BY <1>1
    <3> QED
      BY <3>1, <3>2, <3>3
  <2>2. CASE RunFails(t)
    <3>1. PICK n \in 0 .. Len(frames[t]) - 1 : Unwind(t, n)
      BY <2>2 DEF RunFails
    <3> DEFINE q == SubSeq(frames[t], 1, n)
    <3>2. frames' = [frames EXCEPT ![t] = q]
      BY <3>1 DEF Unwind
    <3>3. \A i \in 1 .. n : frames[t][i] \in Frames
      BY <1>1, <3>1, ElementOfSeq
    <3>4. /\ q \in Seq(Frames) /\ Len(q) = IF 1 <= n THEN n - 1 + 1 ELSE 0
          /\ \A i \in 1 .. n - 1 + 1 : q[i] = frames[t][1 + i - 1]
      BY <1>1, <3>1, <3>3, SubSeqProperties
    <3> HIDE DEF q
    <3>5. Len(q) = n /\ \A i \in 1 .. n : q[i] = frames[t][i]
      <4>1. n \in Nat /\ n - 1 + 1 = n /\ \A i \in Nat : 1 + i - 1 = i
        BY <1>1, <3>1
      <4>2. (IF 1 <= n THEN n - 1 + 1 ELSE 0) = n
        BY <4>1
      <4>3. 1 .. n \subseteq Nat
        BY <4>1
      <4> QED
        BY <3>4, <4>1, <4>2, <4>3
    <3> QED
      BY <3>1, <3>2, <3>4, <3>5
  <2> QED
    BY <2>1, <2>2 DEF Ends
<1>3. frames'[t] = q /\ \A u \in Threads \ {t} : frames'[u] = frames[u]
  BY <1>1, <1>2
<1>4. frames' \in [Threads -> Seq(Frames)]
  BY <1>1, <1>2
<1> QED
  BY <1>1, <1>2, <1>3, <1>4

\* A message function is called on an empty stack.
LEMMA Called ==
  ASSUME ScriptTypeOK, NEW t \in Threads, NEW s \in States, RunPlugin(t, s)
  PROVE  /\ frames' \in [Threads -> Seq(Frames)]
         /\ frames[t] = <<>> /\ Len(frames[t]) = 0 /\ Len(frames'[t]) = 1
         /\ frames'[t][1] = [state |-> s, kind |-> "message"]
         /\ \A u \in Threads \ {t} : frames'[u] = frames[u]
<1> DEFINE x == [state |-> s, kind |-> "message"]
<1>1. frames \in [Threads -> Seq(Frames)] /\ frames[t] = <<>> /\ Len(frames[t]) = 0
  BY EmptySeq DEF ScriptTypeOK, Frames, RunPlugin
<1>2. x \in Frames
  BY DEF Frames, Kinds
<1>3. frames' = [frames EXCEPT ![t] = <<x>>]
  BY DEF RunPlugin
<1> HIDE DEF x
<1>4. <<x>> \in Seq(Frames) /\ Len(<<x>>) = 1 /\ <<x>>[1] = x
  BY <1>2
<1>5. frames'[t] = <<x>> /\ \A u \in Threads \ {t} : frames'[u] = frames[u]
  BY <1>1, <1>3
<1>6. frames' \in [Threads -> Seq(Frames)]
  BY <1>1, <1>3, <1>4
<1> QED
  BY <1>1, <1>4, <1>5, <1>6 DEF x

\* Its end leaves the stack empty, and it was alone there.
LEMMA Emptied ==
  ASSUME ScriptTypeOK, MessageAtBottom, NEW t \in Threads,
         RunPluginReturns(t) \/ RunPluginFails(t)
  PROVE  /\ frames' \in [Threads -> Seq(Frames)]
         /\ Len(frames[t]) = 1 /\ frames[t][1].kind = "message"
         /\ frames'[t] = <<>> /\ Len(frames'[t]) = 0
         /\ \A u \in Threads \ {t} : frames'[u] = frames[u]
<1>1. /\ frames \in [Threads -> Seq(Frames)] /\ frames[t] # <<>>
      /\ Len(frames[t]) \in 1 .. Len(frames[t])
      /\ frames[t][Len(frames[t])].kind = "message"
  BY FrameTypes DEF ScriptTypeOK, Frames, RunPluginReturns, RunPluginFails, Running
<1>2. Len(frames[t]) = 1
  BY <1>1 DEF MessageAtBottom
<1>3. frames' = [frames EXCEPT ![t] = <<>>]
  BY DEF RunPluginReturns, RunPluginFails
<1>4. frames'[t] = <<>> /\ \A u \in Threads \ {t} : frames'[u] = frames[u]
  BY <1>1, <1>3
<1>5. <<>> \in Seq(Frames) /\ Len(<<>>) = 0
  BY EmptySeq
<1>6. frames' \in [Threads -> Seq(Frames)]
  BY <1>1, <1>3, <1>5
<1> QED
  BY <1>1, <1>2, <1>4, <1>5, <1>6

(***************************************************************************)
(* Every step keeps the types                                              *)
(***************************************************************************)
LEMMA TypesKept ==
  ASSUME ScriptTypeOK, MessageAtBottom, StaticStateSet, [ScriptNext]_scriptVars
  PROVE  ScriptTypeOK'
<1> DEFINE Rest == /\ imported \in [Threads -> [Functions -> Paths \cup {None}]]
                   /\ directories \in [Libraries -> SUBSET Directories]
                   /\ phase \in [States -> {"new", "running", "ready", "closed"}]
                   /\ staticState \in States \cup {None} /\ sigint \in {"laction", "default"}
                   /\ hooking \in BOOLEAN /\ hooked \subseteq States
                   /\ known \in [States -> [Functions -> Paths \cup {None}]]
                   /\ mixed \subseteq Threads /\ thrown \subseteq States
<1>0. Rest /\ frames \in [Threads -> Seq(Frames)]
  BY DEF ScriptTypeOK, Frames
<1>a. NoImports \in [Functions -> Paths \cup {None}]
  BY DEF NoImports
<1>1. ASSUME NEW t \in Threads, NEW f \in Functions, NEW lib \in Libraries, Import(t, f, lib)
      PROVE  ScriptTypeOK'
  <2>1. PICK path \in GetDllPath(lib) :
             /\ imported' = [imported EXCEPT ![t][f] = path]
             /\ known' = [known EXCEPT ![Top(t).state][f] = path]
    BY <1>1 DEF Import
  <2>2. path \in Paths
    BY PathTypes
  <2>3. Top(t).state \in States
    BY <1>1, FrameTypes DEF Import
  <2>4. imported' \in [Threads -> [Functions -> Paths \cup {None}]]
    BY <1>0, <2>1, <2>2
  <2>5. known' \in [States -> [Functions -> Paths \cup {None}]]
    BY <1>0, <2>1, <2>2, <2>3
  <2> QED
    BY <1>0, <1>1, <2>4, <2>5 DEF Import, signals, ScriptTypeOK, Frames
<1>2. ASSUME NEW t \in Threads, NEW s \in States, Run(t, s)
      PROVE  ScriptTypeOK'
  <2>1. frames' \in [Threads -> Seq(Frames)]
    BY <1>2, Pushed
  <2>2. directories' \in [Libraries -> SUBSET Directories]
    BY ZenonT(30), <1>0, <1>2, ScriptAssumption DEF Run, StoreDirectoriesOfDlls
  <2>3. phase' \in [States -> {"new", "running", "ready", "closed"}]
    BY <1>0, <1>2 DEF Run
  <2>4. mixed' \subseteq Threads
    BY <1>0, <1>2 DEF Run
  <2> QED
    BY <1>0, <1>2, <2>1, <2>2, <2>3, <2>4 DEF Run, ScriptTypeOK, Frames
<1>3. ASSUME NEW t \in Threads, NEW s \in States, RunPlugin(t, s)
      PROVE  ScriptTypeOK'
  <2>1. frames' \in [Threads -> Seq(Frames)]
    BY <1>3, Called
  <2>2. imported' \in [Threads -> [Functions -> Paths \cup {None}]]
    BY <1>0, <1>a, <1>3 DEF RunPlugin, ResetImportedFunctions
  <2>3. mixed' \subseteq Threads
    BY <1>0, <1>3 DEF RunPlugin, ResetImportedFunctions
  <2> QED
    BY <1>0, <1>3, <2>1, <2>2, <2>3 DEF RunPlugin, signals, ScriptTypeOK, Frames
<1>4. ASSUME NEW t \in Threads, Ends(t)
      PROVE  ScriptTypeOK'
  <2>1. frames' \in [Threads -> Seq(Frames)]
    BY <1>4, Popped
  <2>2. CASE RunEnds(t)
    <3>1. phase' \in [States -> {"new", "running", "ready", "closed"}]
      BY <1>0, <2>2 DEF RunEnds
    <3> QED
      BY <1>0, <2>2, <2>1, <3>1 DEF RunEnds, LeaveImports, ScriptTypeOK, Frames
  <2>3. CASE RunFails(t)
    <3>1. PICK n \in 0 .. Len(frames[t]) - 1 :
            /\ Unwind(t, n)
            /\ \/ sigint' = "default" /\ UNCHANGED thrown
               \/ thrown' = thrown \cup Unwound(t, n) /\ UNCHANGED sigint
      BY <2>3 DEF RunFails
    <3>2. phase' \in [States -> {"new", "running", "ready", "closed"}]
      BY <1>0, <3>1 DEF Unwind
    <3>3. Unwound(t, n) \subseteq States
      <4>1. Len(frames[t]) \in Nat /\ n + 1 .. Len(frames[t]) \subseteq 1 .. Len(frames[t])
        BY <3>1, FrameTypes
      <4> QED
        BY <4>1, FrameTypes DEF Unwound
    <3>4. thrown' \subseteq States /\ sigint' \in {"laction", "default"}
      BY <1>0, <3>1, <3>3
    <3> QED
      BY <1>0, <2>3, <2>1, <3>1, <3>2, <3>4
      DEF RunFails, Unwind, LeaveImports, ScriptTypeOK, Frames
  <2> QED
    BY <1>4, <2>2, <2>3 DEF Ends
<1>5. ASSUME NEW t \in Threads, RunPluginReturns(t)
      PROVE  ScriptTypeOK'
  <2>1. frames' \in [Threads -> Seq(Frames)]
    BY <1>5, Emptied
  <2>2. imported' \in [Threads -> [Functions -> Paths \cup {None}]]
    BY <1>0, <1>a, <1>5 DEF RunPluginReturns, ResetImportedFunctions
  <2>3. mixed' \subseteq Threads
    BY <1>0, <1>5 DEF RunPluginReturns, ResetImportedFunctions
  <2> QED
    BY <1>0, <1>5, <2>1, <2>2, <2>3 DEF RunPluginReturns, signals, ScriptTypeOK, Frames
<1>6. ASSUME NEW t \in Threads, RunPluginFails(t)
      PROVE  ScriptTypeOK'
  <2>1. frames' \in [Threads -> Seq(Frames)]
    BY <1>6, Emptied
  <2> QED
    BY <1>0, <1>6, <2>1 DEF RunPluginFails, LeaveImports, signals, ScriptTypeOK, Frames
<1>7. ASSUME NEW t \in Threads, Interrupted(t)
      PROVE  ScriptTypeOK'
  BY <1>0, <1>7 DEF Interrupted, lookup, ScriptTypeOK, Frames
<1>8. ASSUME NEW s \in States, LoadFails(s) \/ Close(s)
      PROVE  ScriptTypeOK'
  <2>1. phase' \in [States -> {"new", "running", "ready", "closed"}]
    BY <1>0, <1>8 DEF LoadFails, Close
  <2> QED
    BY <1>0, <1>8, <2>1 DEF LoadFails, Close, lookup, signals, ScriptTypeOK, Frames
<1>9. CASE Interrupt
  BY <1>0, <1>9 DEF Interrupt, lookup, ScriptTypeOK, Frames
<1>10. CASE SetHook
  BY <1>0, <1>10 DEF SetHook, StaticStateSet, lookup, ScriptTypeOK, Frames
<1>11. CASE UNCHANGED scriptVars
  BY <1>0, <1>11 DEF scriptVars, lookup, signals, ScriptTypeOK, Frames
<1> QED
  BY <1>1, <1>2, <1>3, <1>4, <1>5, <1>6, <1>7, <1>8, <1>9, <1>10, <1>11
  DEF ScriptNext, ScriptStep, Ends

(***************************************************************************)
(* SIGINT finds a running script, or one that was ended by an exception    *)
(***************************************************************************)
\* The steps that leave all frames alone.
Quiet ==
    \/ \E t \in Threads : \/ \E f \in Functions, lib \in Libraries : Import(t, f, lib)
                          \/ Interrupted(t)
    \/ \E s \in States : LoadFails(s) \/ Close(s)
    \/ Interrupt \/ SetHook \/ UNCHANGED scriptVars

LEMMA QuietFacts ==
  ASSUME Quiet
  PROVE  /\ frames' = frames /\ staticState' = staticState /\ mixed' = mixed
         /\ thrown' = thrown
         /\ sigint' # sigint => sigint' = "default"
         /\ hooking' # hooking => sigint = "laction" \/ ~hooking'
<1>1. /\ frames' = frames /\ staticState' = staticState /\ mixed' = mixed
      /\ thrown' = thrown
  BY DEF Quiet, Import, Interrupted, LoadFails, Close, Interrupt, SetHook, signals, lookup, scriptVars
<1>2. sigint' # sigint => sigint' = "default"
  BY DEF Quiet, Import, Interrupted, LoadFails, Close, Interrupt, SetHook, signals, lookup, scriptVars
<1>3. hooking' # hooking => sigint = "laction" \/ ~hooking'
  BY DEF Quiet, Import, Interrupted, LoadFails, Close, Interrupt, SetHook, signals, lookup, scriptVars
<1> QED
  BY <1>1, <1>2, <1>3

LEMMA StepCases ==
  ASSUME [ScriptNext]_scriptVars
  PROVE  \/ \E t \in Threads, s \in States : Run(t, s)
         \/ \E t \in Threads : Ends(t)
         \/ \E t \in Threads, s \in States : RunPlugin(t, s)
         \/ \E t \in Threads : RunPluginReturns(t) \/ RunPluginFails(t)
         \/ Quiet
  BY DEF ScriptNext, ScriptStep, Quiet, Ends

LEMMA BottomKept ==
  ASSUME ScriptTypeOK, MessageAtBottom, [ScriptNext]_scriptVars
  PROVE  MessageAtBottom'
<1> SUFFICES ASSUME NEW u \in Threads, NEW i \in 1 .. Len(frames'[u]),
                    frames'[u][i].kind = "message"
             PROVE  i = 1
  BY DEF MessageAtBottom
<1>0. Len(frames[u]) \in Nat
  BY FrameTypes
<1>1. CASE \E t \in Threads, s \in States : Run(t, s)
  <2>1. PICK t \in Threads, s \in States : Run(t, s)
    BY <1>1
  <2>2. CASE u = t /\ i = Len(frames[t]) + 1
    <3>1. frames'[t][Len(frames[t]) + 1] = [state |-> s, kind |-> "script"]
      BY <2>1, Pushed
    <3>2. frames'[u][i] = [state |-> s, kind |-> "script"]
      BY <2>2, <3>1
    <3> QED
      BY <3>2
  <2>3. CASE ~(u = t /\ i = Len(frames[t]) + 1)
    <3>1. CASE u = t
      <4>1. /\ Len(frames'[u]) = Len(frames[u]) + 1
            /\ \A j \in 1 .. Len(frames[u]) : frames'[u][j] = frames[u][j]
        BY <2>1, <3>1, Pushed
      <4>2. i \in 1 .. Len(frames[u])
        BY <1>0, <2>3, <3>1, <4>1
      <4> QED
        BY <4>1, <4>2 DEF MessageAtBottom
    <3>2. CASE u # t
      <4>1. frames'[u] = frames[u]
        BY <2>1, <3>2, Pushed
      <4> QED
        BY <4>1 DEF MessageAtBottom
    <3> QED
      BY <3>1, <3>2
  <2> QED
    BY <2>2, <2>3
<1>2. CASE \E t \in Threads : Ends(t)
  <2>1. i \in 1 .. Len(frames[u]) /\ frames'[u][i] = frames[u][i]
    BY <1>0, <1>2, Popped
  <2> QED
    BY <2>1 DEF MessageAtBottom
<1>3. CASE \E t \in Threads, s \in States : RunPlugin(t, s)
  <2>1. PICK t \in Threads, s \in States : RunPlugin(t, s)
    BY <1>3
  <2>2. CASE u = t
    <3>1. Len(frames'[u]) = 1
      BY <2>1, <2>2, Called
    <3> QED
      BY <3>1
  <2>3. CASE u # t
    <3>1. frames'[u] = frames[u]
      BY <2>1, <2>3, Called
    <3> QED
      BY <3>1 DEF MessageAtBottom
  <2> QED
    BY <2>2, <2>3
<1>4. CASE \E t \in Threads : RunPluginReturns(t) \/ RunPluginFails(t)
  <2>1. PICK t \in Threads : RunPluginReturns(t) \/ RunPluginFails(t)
    BY <1>4
  <2>2. u # t
    <3>1. u = t => Len(frames'[u]) = 0
      BY <2>1, Emptied
    <3> QED
      BY <3>1
  <2>3. frames'[u] = frames[u]
    BY <2>1, <2>2, Emptied
  <2> QED
    BY <2>3 DEF MessageAtBottom
<1>5. CASE Quiet
  BY <1>5, QuietFacts DEF MessageAtBottom
<1> QED
  BY <1>1, <1>2, <1>3, <1>4, <1>5, StepCases

LEMMA StateKept ==
  ASSUME ScriptTypeOK, StaticStateSet, [ScriptNext]_scriptVars
  PROVE  StaticStateSet'
<1>1. CASE \E t \in Threads, s \in States : Run(t, s)
  BY <1>1 DEF Run, StaticStateSet
<1>2. CASE \E t \in Threads : Ends(t)
  BY <1>2 DEF Ends, RunEnds, RunFails, StaticStateSet
<1>3. CASE \E t \in Threads, s \in States : RunPlugin(t, s)
  BY <1>3 DEF RunPlugin, signals, StaticStateSet
<1>4. CASE \E t \in Threads : RunPluginReturns(t) \/ RunPluginFails(t)
  BY <1>4 DEF RunPluginReturns, RunPluginFails, signals, StaticStateSet
<1>5. CASE Quiet
  BY <1>5, QuietFacts DEF StaticStateSet
<1> QED
  BY <1>1, <1>2, <1>3, <1>4, <1>5, StepCases

LEMMA TargetKept ==
  ASSUME ScriptTypeOK, MessageAtBottom, OnlyExceptionsKeepHandler, [ScriptNext]_scriptVars
  PROVE  OnlyExceptionsKeepHandler'
<1> SUFFICES ASSUME sigint' = "laction", staticState' \notin thrown'
             PROVE  \E u \in Threads : Runs(u, staticState, "script")'
  BY DEF OnlyExceptionsKeepHandler
<1> DEFINE x == [state |-> staticState, kind |-> "script"]
<1>1. CASE \E t \in Threads, s \in States : Run(t, s)
  <2>1. PICK t \in Threads, s \in States : Run(t, s)
    BY <1>1
  <2>2. staticState' = s
    BY <2>1 DEF Run
  <2>3. /\ Len(frames[t]) + 1 \in 1 .. Len(frames'[t])
        /\ frames'[t][Len(frames[t]) + 1] = [state |-> s, kind |-> "script"]
    BY <2>1, Pushed, FrameTypes
  <2> QED
    BY <2>2, <2>3 DEF Runs
<1>2. CASE \E t \in Threads : Ends(t)
  <2>1. PICK t \in Threads : Ends(t)
    BY <1>2
  <2>2. RunFails(t)
    BY <2>1 DEF Ends, RunEnds
  <2>3. PICK n \in 0 .. Len(frames[t]) - 1 :
          /\ Unwind(t, n) /\ thrown' = thrown \cup Unwound(t, n)
          /\ sigint = "laction" /\ staticState' = staticState
    BY <2>2 DEF RunFails
  <2>4. staticState \notin thrown /\ staticState \notin Unwound(t, n)
    BY <2>3
  <2>a. PICK u \in Threads : Runs(u, staticState, "script")
    BY <2>3, <2>4 DEF OnlyExceptionsKeepHandler
  <2>5. PICK i \in 1 .. Len(frames[u]) : frames[u][i] = x
    BY <2>a DEF Runs
  <2>6. CASE u # t
    <3>1. frames'[u] = frames[u]
      BY <2>1, <2>6, Popped
    <3> QED
      BY <2>3, <2>5, <3>1 DEF Runs
  <2>7. CASE u = t
    <3>1. i <= n
      <4> SUFFICES ASSUME ~(i <= n) PROVE FALSE
        OBVIOUS
      <4>1. i \in n + 1 .. Len(frames[t])
        BY <2>3, <2>5, <2>7, FrameTypes
      <4>2. frames[t][i].state = staticState /\ frames[t][i].kind = "script"
        BY <2>5, <2>7
      <4> QED
        BY <2>4, <4>1, <4>2 DEF Unwound
    <3>2. Len(frames'[t]) = n /\ n \in Nat
      <4>1. frames[t] \in Seq(Frames) /\ Len(frames[t]) \in Nat /\ n \in Nat
        BY <2>3, FrameTypes
      <4>2. \A j \in 1 .. n : frames[t][j] \in Frames
        BY <2>3, <4>1, ElementOfSeq
      <4>3. Len(SubSeq(frames[t], 1, n)) = IF 1 <= n THEN n - 1 + 1 ELSE 0
        BY <4>1, <4>2, SubSeqProperties
      <4>4. frames'[t] = SubSeq(frames[t], 1, n)
        BY <2>3 DEF Unwind, ScriptTypeOK
      <4>5. (IF 1 <= n THEN n - 1 + 1 ELSE 0) = n
        BY <4>1
      <4> QED
        BY <4>1, <4>3, <4>4, <4>5
    <3>3. i \in 1 .. Len(frames'[t])
      BY <2>5, <2>7, <3>1, <3>2
    <3>4. frames'[t][i] = x
      BY <2>1, <2>5, <2>7, <3>3, Popped
    <3> QED
      BY <2>3, <3>3, <3>4 DEF Runs
  <2> QED
    BY <2>6, <2>7
<1>3. CASE \E t \in Threads, s \in States : RunPlugin(t, s)
  <2>1. PICK t \in Threads, s \in States : RunPlugin(t, s)
    BY <1>3
  <2>2. sigint = "laction" /\ staticState' = staticState /\ thrown' = thrown
    BY <2>1 DEF RunPlugin, signals
  <2>3. PICK u \in Threads : \E i \in 1 .. Len(frames[u]) : frames[u][i] = x
    BY <2>2 DEF OnlyExceptionsKeepHandler, Runs
  <2>4. u # t
    <3>1. Len(frames[t]) = 0
      BY <2>1, Called
    <3> QED
      BY <2>3, <3>1
  <2>5. frames'[u] = frames[u]
    BY <2>1, <2>4, Called
  <2> QED
    BY <2>2, <2>3, <2>5 DEF Runs
<1>4. CASE \E t \in Threads : RunPluginReturns(t) \/ RunPluginFails(t)
  <2>1. PICK t \in Threads : RunPluginReturns(t) \/ RunPluginFails(t)
    BY <1>4
  <2>2. sigint = "laction" /\ staticState' = staticState /\ thrown' = thrown
    BY <2>1 DEF RunPluginReturns, RunPluginFails, signals
  <2>3. PICK u \in Threads : \E i \in 1 .. Len(frames[u]) : frames[u][i] = x
    BY <2>2 DEF OnlyExceptionsKeepHandler, Runs
  <2>4. u # t
    <3>1. Len(frames[t]) = 1 /\ frames[t][1].kind = "message"
      BY <2>1, Emptied
    <3>2. u = t => frames[t][1] = x
      BY <2>3, <3>1
    <3> QED
      BY <3>1, <3>2
  <2>5. frames'[u] = frames[u]
    BY <2>1, <2>4, Emptied
  <2> QED
    BY <2>2, <2>3, <2>5 DEF Runs
<1>5. CASE Quiet
  <2>1. /\ sigint = "laction" /\ staticState' = staticState
        /\ frames' = frames /\ thrown' = thrown
    BY <1>5, QuietFacts
  <2> QED
    BY <2>1 DEF OnlyExceptionsKeepHandler, Runs
<1> QED
  BY <1>1, <1>2, <1>3, <1>4, <1>5, StepCases

LEMMA SignalStep == SignalInv /\ [ScriptNext]_scriptVars => SignalInv'
  BY TypesKept, BottomKept, StateKept, TargetKept DEF SignalInv

\* The types of the threads, states, imports and the state of SIGINT, in every
\* reachable state (lua.cpp, lua_extension.cpp).
THEOREM ScriptTypes == ScriptSpec => []ScriptTypeOK
<1>1. ScriptInit => SignalInv
  BY SignalInit
<1>2. SignalInv /\ [ScriptNext]_scriptVars => SignalInv'
  BY SignalStep
<1>3. SignalInv => ScriptTypeOK
  BY DEF SignalInv
<1> QED
  BY <1>1, <1>2, <1>3, PTL DEF ScriptSpec

\* The handler of SIGINT outlives the script it would interrupt only if that was
\* ended by an exception that passed lua_pcall, however many threads run
\* scripts and however they are nested (lua.cpp:171-194).
THEOREM HandlerKeptByExceptionsOnly == ScriptSpec => []OnlyExceptionsKeepHandler
<1>1. ScriptInit => SignalInv
  BY SignalInit
<1>2. SignalInv /\ [ScriptNext]_scriptVars => SignalInv'
  BY SignalStep
<1>3. SignalInv => OnlyExceptionsKeepHandler
  BY DEF SignalInv
<1> QED
  BY <1>1, <1>2, <1>3, PTL DEF ScriptSpec

(***************************************************************************)
(* Imports                                                                 *)
(***************************************************************************)
\* The states of two frames after a step that puts a new one on top of the
\* stack of t: old frames are where they were.
OldFrame(u, i) == i \in 1 .. Len(frames[u]) /\ frames'[u][i] = frames[u][i]

LEMMA NewFrame ==
  ASSUME ScriptTypeOK, NEW t \in Threads, NEW s \in States,
         NEW kind \in Kinds,
         \/ Run(t, s) /\ kind = "script"
         \/ RunPlugin(t, s) /\ kind = "message",
         NEW u \in Threads, NEW i \in 1 .. Len(frames'[u])
  PROVE  \/ OldFrame(u, i)
         \/ u = t /\ i = Len(frames[t]) + 1 /\ frames'[u][i] = [state |-> s, kind |-> kind]
<1>0. Len(frames[u]) \in Nat /\ Len(frames[t]) \in Nat
  BY FrameTypes
<1>1. CASE u # t
  <2>1. frames'[u] = frames[u]
    BY ZenonT(30), <1>1, Pushed, Called
  <2> QED
    BY <2>1 DEF OldFrame
<1>2. CASE u = t /\ Run(t, s) /\ kind = "script"
  <2>1. /\ Len(frames'[t]) = Len(frames[t]) + 1
        /\ frames'[t][Len(frames[t]) + 1] = [state |-> s, kind |-> "script"]
        /\ \A j \in 1 .. Len(frames[t]) : frames'[t][j] = frames[t][j]
    BY <1>2, Pushed
  <2>2. CASE i = Len(frames[t]) + 1
    BY <1>2, <2>1, <2>2
  <2>3. CASE i # Len(frames[t]) + 1
    <3>1. i \in 1 .. Len(frames[t])
      BY <1>0, <1>2, <2>1, <2>3
    <3> QED
      BY <1>2, <2>1, <3>1 DEF OldFrame
  <2> QED
    BY <2>2, <2>3
<1>3. CASE u = t /\ RunPlugin(t, s) /\ kind = "message"
  <2>1. /\ Len(frames[t]) = 0 /\ Len(frames'[t]) = 1
        /\ frames'[t][1] = [state |-> s, kind |-> "message"]
    BY <1>3, Called
  <2>2. i = 1 /\ i = Len(frames[t]) + 1
    BY <1>3, <2>1
  <2> QED
    BY <1>3, <2>1, <2>2
<1> QED
  BY <1>1, <1>2, <1>3

\* After a step that removes frames, the others are where they were.
LEMMA FewerFrames ==
  ASSUME ScriptTypeOK, MessageAtBottom, NEW t \in Threads,
         Ends(t) \/ RunPluginReturns(t) \/ RunPluginFails(t),
         NEW u \in Threads, NEW i \in 1 .. Len(frames'[u])
  PROVE  /\ OldFrame(u, i)
         /\ ~(u = t /\ i = Len(frames[t]))
         /\ u = t => Ends(t)
<1>0. Len(frames[u]) \in Nat
  BY FrameTypes
<1>1. CASE u # t
  <2>1. frames'[u] = frames[u]
    BY <1>1, Popped, Emptied
  <2> QED
    BY <1>1, <2>1 DEF OldFrame
<1>2. CASE u = t /\ Ends(t)
  <2>1. /\ Len(frames'[t]) \in 0 .. Len(frames[t]) - 1
        /\ \A j \in 1 .. Len(frames'[t]) : frames'[t][j] = frames[t][j]
    BY <1>2, Popped
  <2>2. i \in 1 .. Len(frames'[t]) /\ i \in 1 .. Len(frames[u]) /\ i # Len(frames[t])
    BY <1>0, <1>2, <2>1
  <2> QED
    BY <1>2, <2>1, <2>2 DEF OldFrame
<1>3. CASE u = t /\ (RunPluginReturns(t) \/ RunPluginFails(t))
  <2>1. Len(frames'[u]) = 0
    BY <1>3, Emptied
  <2> QED
    BY <2>1
<1> QED
  BY <1>1, <1>2, <1>3

\* A state that is to be run has no frame.
LEMMA NoFrameYet ==
  ASSUME ScriptTypeOK, PhaseOfFrame, NEW t \in Threads, NEW s \in States,
         Run(t, s) \/ RunPlugin(t, s),
         NEW u \in Threads, NEW i \in 1 .. Len(frames[u])
  PROVE  frames[u][i].state # s
<1>0. frames[u][i] \in Frames /\ frames[u][i].kind \in Kinds
  BY FrameTypes
<1>1. phase[frames[u][i].state] = IF frames[u][i].kind = "script" THEN "running" ELSE "ready"
  BY DEF PhaseOfFrame
<1>2. CASE Run(t, s)
  BY <1>1, <1>2 DEF Run
<1>3. CASE RunPlugin(t, s)
  <2>1. phase[s] = "ready" /\ ~Runs(u, s, "message")
    BY <1>3 DEF RunPlugin
  <2> SUFFICES ASSUME frames[u][i].state = s PROVE FALSE
    OBVIOUS
  <2>2. frames[u][i].kind = "message"
    BY <1>0, <1>1, <2>1 DEF Kinds
  <2>3. frames[u][i] = [state |-> s, kind |-> "message"]
    BY <1>0, <2>2 DEF Frames
  <2> QED
    BY <2>1, <2>3 DEF Runs
<1> QED
  BY <1>2, <1>3

LEMMA OnceKept ==
  ASSUME ImportInv, [ScriptNext]_scriptVars
  PROVE  StateOnce'
<1>0. ScriptTypeOK /\ MessageAtBottom /\ PhaseOfFrame /\ StateOnce
  BY DEF ImportInv, SignalInv
<1> SUFFICES ASSUME NEW u \in Threads, NEW v \in Threads,
                    NEW i \in 1 .. Len(frames'[u]), NEW j \in 1 .. Len(frames'[v]),
                    frames'[u][i].state = frames'[v][j].state
             PROVE  u = v /\ i = j
  BY DEF StateOnce
<1>1. ASSUME NEW t \in Threads, NEW s \in States, NEW kind \in Kinds,
             \/ Run(t, s) /\ kind = "script"
             \/ RunPlugin(t, s) /\ kind = "message"
      PROVE  u = v /\ i = j
  <2> DEFINE New(w, k) == w = t /\ k = Len(frames[t]) + 1
                            /\ frames'[w][k] = [state |-> s, kind |-> kind]
  <2>1. /\ OldFrame(u, i) \/ New(u, i)
        /\ OldFrame(v, j) \/ New(v, j)
    BY <1>0, <1>1, NewFrame
  <2>2. CASE OldFrame(u, i) /\ OldFrame(v, j)
    BY <1>0, <2>2 DEF OldFrame, StateOnce
  <2>3. CASE New(u, i) /\ New(v, j)
    BY <2>3
  <2>4. CASE OldFrame(u, i) /\ New(v, j)
    <3>1. frames[u][i].state # s
      BY <1>0, <1>1, <2>4, NoFrameYet DEF OldFrame
    <3>2. frames'[v][j].state = s
      BY <2>4
    <3> QED
      BY <2>4, <3>1, <3>2 DEF OldFrame
  <2>5. CASE New(u, i) /\ OldFrame(v, j)
    <3>1. frames[v][j].state # s
      BY <1>0, <1>1, <2>5, NoFrameYet DEF OldFrame
    <3>2. frames'[u][i].state = s
      BY <2>5
    <3> QED
      BY <2>5, <3>1, <3>2 DEF OldFrame
  <2> QED
    BY <2>1, <2>2, <2>3, <2>4, <2>5
<1>2. ASSUME NEW t \in Threads, Ends(t) \/ RunPluginReturns(t) \/ RunPluginFails(t)
      PROVE  u = v /\ i = j
  <2>1. OldFrame(u, i) /\ OldFrame(v, j)
    BY <1>0, <1>2, FewerFrames
  <2> QED
    BY <1>0, <2>1 DEF OldFrame, StateOnce
<1>3. CASE Quiet
  BY <1>0, <1>3, QuietFacts DEF StateOnce
<1> QED
  BY <1>1, <1>2, <1>3, StepCases DEF Kinds

LEMMA PhaseKept ==
  ASSUME ImportInv, [ScriptNext]_scriptVars
  PROVE  PhaseOfFrame'
<1>0. ScriptTypeOK /\ MessageAtBottom /\ PhaseOfFrame /\ StateOnce
      /\ phase \in [States -> {"new", "running", "ready", "closed"}]
  BY DEF ImportInv, SignalInv, ScriptTypeOK
<1> SUFFICES ASSUME NEW u \in Threads, NEW i \in 1 .. Len(frames'[u])
             PROVE  phase'[frames'[u][i].state] =
                      IF frames'[u][i].kind = "script" THEN "running" ELSE "ready"
  BY DEF PhaseOfFrame
<1> DEFINE Says(x) == IF x.kind = "script" THEN "running" ELSE "ready"
<1>a. \A w \in Threads : \A k \in 1 .. Len(frames[w]) :
        phase[frames[w][k].state] = Says(frames[w][k]) /\ frames[w][k].state \in States
  BY <1>0, FrameTypes DEF PhaseOfFrame
<1>1. ASSUME NEW t \in Threads, NEW s \in States, Run(t, s)
      PROVE  phase'[frames'[u][i].state] = Says(frames'[u][i])
  <2>1. phase' = [phase EXCEPT ![s] = "running"]
    BY <1>1 DEF Run
  <2>2. CASE OldFrame(u, i)
    <3>1. frames[u][i].state # s /\ i \in 1 .. Len(frames[u])
      BY <1>0, <1>1, <2>2, NoFrameYet DEF OldFrame
    <3>2. frames'[u][i] = frames[u][i]
      BY <2>2 DEF OldFrame
    <3>3. phase'[frames[u][i].state] = phase[frames[u][i].state]
      BY <1>0, <1>a, <2>1, <3>1
    <3> QED
      BY <1>a, <3>1, <3>2, <3>3
  <2>3. CASE frames'[u][i] = [state |-> s, kind |-> "script"]
    BY <1>0, <2>1, <2>3
  <2>4. "script" \in Kinds
    BY DEF Kinds
  <2>5. OldFrame(u, i) \/ frames'[u][i] = [state |-> s, kind |-> "script"]
    BY <1>0, <1>1, <2>4, NewFrame
  <2> QED
    BY <2>2, <2>3, <2>5
<1>2. ASSUME NEW t \in Threads, NEW s \in States, RunPlugin(t, s)
      PROVE  phase'[frames'[u][i].state] = Says(frames'[u][i])
  <2>1. phase' = phase /\ phase[s] = "ready"
    BY <1>2 DEF RunPlugin
  <2>2. CASE OldFrame(u, i)
    BY <1>a, <2>1, <2>2 DEF OldFrame
  <2>3. CASE frames'[u][i] = [state |-> s, kind |-> "message"]
    BY <2>1, <2>3
  <2>4. "message" \in Kinds
    BY DEF Kinds
  <2>5. OldFrame(u, i) \/ frames'[u][i] = [state |-> s, kind |-> "message"]
    BY <1>0, <1>2, <2>4, NewFrame
  <2> QED
    BY <2>2, <2>3, <2>5
<1>3. ASSUME NEW t \in Threads, Ends(t) \/ RunPluginReturns(t) \/ RunPluginFails(t)
      PROVE  phase'[frames'[u][i].state] = Says(frames'[u][i])
  <2>1. OldFrame(u, i) /\ ~(u = t /\ i = Len(frames[t]))
    BY <1>0, <1>3, FewerFrames
  <2>2. i \in 1 .. Len(frames[u]) /\ frames'[u][i] = frames[u][i]
    BY <2>1 DEF OldFrame
  <2>3. CASE RunEnds(t)
    <3>1. /\ Len(frames[t]) \in 1 .. Len(frames[t])
          /\ Top(t) = frames[t][Len(frames[t])]
      BY <1>0, <2>3, FrameTypes DEF RunEnds, Running
    <3>2. frames[u][i].state # Top(t).state
      BY <1>0, <2>1, <2>2, <3>1 DEF StateOnce
    <3>3. phase' = [phase EXCEPT ![Top(t).state] = "ready"]
      BY <2>3 DEF RunEnds
    <3>4. phase'[frames[u][i].state] = phase[frames[u][i].state]
      BY <1>0, <1>a, <2>2, <3>2, <3>3
    <3> QED
      BY <1>a, <2>2, <3>4
  <2>5. CASE RunFails(t)
    <3>1. PICK n \in 0 .. Len(frames[t]) - 1 : Unwind(t, n)
      BY <2>5 DEF RunFails
    <3>2. ASSUME u = t PROVE i <= n
      <4>1. frames[t] \in Seq(Frames) /\ Len(frames[t]) \in Nat /\ n \in Nat
        BY <1>0, <3>1, FrameTypes
      <4>2. \A j \in 1 .. n : frames[t][j] \in Frames
        BY <3>1, <4>1, ElementOfSeq
      <4>3. Len(SubSeq(frames[t], 1, n)) = IF 1 <= n THEN n - 1 + 1 ELSE 0
        BY <4>1, <4>2, SubSeqProperties
      <4>4. frames'[t] = SubSeq(frames[t], 1, n)
        BY <1>0, <3>1 DEF Unwind, ScriptTypeOK
      <4>5. (IF 1 <= n THEN n - 1 + 1 ELSE 0) = n
        BY <4>1
      <4>6. Len(frames'[u]) = n
        BY <3>2, <4>3, <4>4, <4>5
      <4> QED
        BY <4>1, <4>6
    <3>3. frames[u][i].state \notin Unwound(t, n)
      <4> SUFFICES ASSUME frames[u][i].state \in Unwound(t, n) PROVE FALSE
        OBVIOUS
      <4>1. PICK k \in n + 1 .. Len(frames[t]) : frames[u][i].state = frames[t][k].state
        BY DEF Unwound
      <4>2. k \in 1 .. Len(frames[t]) /\ k > n
        BY <1>0, <3>1, <4>1, FrameTypes
      <4>3. u = t /\ i = k
        BY <1>0, <2>2, <4>1, <4>2 DEF StateOnce
      <4>4. i <= n
        BY <3>2, <4>3
      <4> QED
        BY <3>1, <4>2, <4>3, <4>4
    <3>4. phase'[frames[u][i].state] = phase[frames[u][i].state]
      BY <1>a, <2>2, <3>1, <3>3 DEF Unwind
    <3> QED
      BY <1>a, <2>2, <3>4
  <2>4. CASE RunPluginReturns(t) \/ RunPluginFails(t)
    BY <1>a, <2>2, <2>4 DEF RunPluginReturns, RunPluginFails
  <2> QED
    BY <1>3, <2>3, <2>4, <2>5 DEF Ends
<1>4. CASE Quiet
  <2>1. frames' = frames
    BY <1>4, QuietFacts
  <2>2. i \in 1 .. Len(frames[u])
    BY <2>1
  <2>3. CASE \E s \in States : LoadFails(s) \/ Close(s)
    <3>1. PICK s \in States : LoadFails(s) \/ Close(s)
      BY <2>3
    <3>2. phase' = [phase EXCEPT ![s] = "closed"]
      BY <3>1 DEF LoadFails, Close
    <3>3. frames[u][i].state # s
      <4> SUFFICES ASSUME frames[u][i].state = s PROVE FALSE
        OBVIOUS
      <4>1. phase[s] = "ready" /\ ~Runs(u, s, "message")
        BY <1>a, <2>2, <3>1 DEF LoadFails, Close
      <4>2. frames[u][i] \in Frames /\ frames[u][i].kind \in Kinds
        BY <1>0, <2>2, FrameTypes
      <4>3. frames[u][i].kind = "message"
        BY <1>a, <2>2, <4>1, <4>2 DEF Kinds
      <4>4. frames[u][i] = [state |-> s, kind |-> "message"]
        BY <4>2, <4>3 DEF Frames
      <4> QED
        BY <2>2, <4>1, <4>4 DEF Runs
    <3> QED
      BY <1>0, <1>a, <2>1, <2>2, <3>2, <3>3
  <2>4. CASE ~\E s \in States : LoadFails(s) \/ Close(s)
    <3>1. phase' = phase
      BY <1>4, <2>4 DEF Quiet, Import, Interrupted, Interrupt, SetHook, scriptVars
    <3> QED
      BY <1>a, <2>1, <2>2, <3>1
  <2> QED
    BY <2>3, <2>4
<1> QED
  BY <1>1, <1>2, <1>3, <1>4, StepCases

LEMMA MixedKept ==
  ASSUME ImportInv, [ScriptNext]_scriptVars
  PROVE  MixedThreads'
<1>0. ScriptTypeOK /\ MessageAtBottom /\ MixedThreads
      /\ imported \in [Threads -> [Functions -> Paths \cup {None}]]
  BY DEF ImportInv, SignalInv, ScriptTypeOK
<1> SUFFICES ASSUME NEW u \in Threads, u \notin mixed'
             PROVE  Len(frames'[u]) <= 1 /\ (frames'[u] = <<>> => imported'[u] = NoImports)
  BY DEF MixedThreads
<1>a. u \notin mixed => /\ Len(frames[u]) <= 1
                        /\ frames[u] = <<>> => imported[u] = NoImports
  BY <1>0 DEF MixedThreads
<1>1. ASSUME NEW t \in Threads, NEW s \in States, Run(t, s)
      PROVE  Len(frames'[u]) <= 1 /\ (frames'[u] = <<>> => imported'[u] = NoImports)
  <2>1. imported' = imported /\ mixed' = IF frames[t] = <<>> THEN mixed ELSE mixed \cup {t}
    BY <1>1 DEF Run
  <2>2. u \notin mixed
    BY <2>1
  <2>3. CASE u = t
    <3>1. Len(frames[t]) = 0
      BY <2>1, <2>3, EmptySeq
    <3>2. frames' \in [Threads -> Seq(Frames)] /\ Len(frames'[t]) = Len(frames[t]) + 1
      BY <1>0, <1>1, Pushed
    <3>3. Len(frames'[t]) = 1
      BY <3>1, <3>2
    <3>4. frames'[t] # <<>>
      <4>1. Len(<<>>) = 0
        BY EmptySeq
      <4> QED
        BY SMTT(30), <3>3, <4>1
    <3> QED
      BY <2>3, <3>3, <3>4
  <2>4. CASE u # t
    <3>1. frames'[u] = frames[u]
      BY <1>0, <1>1, <2>4, Pushed
    <3> QED
      BY <1>a, <2>1, <2>2, <3>1
  <2> QED
    BY <2>3, <2>4
<1>2. ASSUME NEW t \in Threads, NEW s \in States, RunPlugin(t, s)
      PROVE  Len(frames'[u]) <= 1 /\ (frames'[u] = <<>> => imported'[u] = NoImports)
  <2>1. imported' = [imported EXCEPT ![t] = NoImports] /\ mixed' = mixed \ {t}
    BY <1>2 DEF RunPlugin, ResetImportedFunctions
  <2>2. CASE u = t
    <3>1. Len(frames'[u]) = 1 /\ imported'[u] = NoImports
      BY <1>0, <1>2, <2>1, <2>2, Called
    <3> QED
      BY <3>1
  <2>3. CASE u # t
    <3>1. frames'[u] = frames[u] /\ imported'[u] = imported[u] /\ u \notin mixed
      BY <1>0, <1>2, <2>1, <2>3, Called
    <3> QED
      BY <1>a, <3>1
  <2> QED
    BY <2>2, <2>3
<1>3. ASSUME NEW t \in Threads, Ends(t) \/ RunPluginFails(t)
      PROVE  Len(frames'[u]) <= 1 /\ (frames'[u] = <<>> => imported'[u] = NoImports)
  <2>1. imported' = imported /\ mixed' = mixed \cup {t}
    BY <1>3 DEF Ends, RunEnds, RunFails, Unwind, RunPluginFails, LeaveImports
  <2>2. u # t /\ u \notin mixed
    BY <2>1
  <2>3. frames'[u] = frames[u]
    BY <1>0, <1>3, <2>2, Popped, Emptied
  <2> QED
    BY <1>a, <2>1, <2>2, <2>3
<1>4. ASSUME NEW t \in Threads, RunPluginReturns(t)
      PROVE  Len(frames'[u]) <= 1 /\ (frames'[u] = <<>> => imported'[u] = NoImports)
  <2>1. imported' = [imported EXCEPT ![t] = NoImports] /\ mixed' = mixed \ {t}
    BY <1>4 DEF RunPluginReturns, ResetImportedFunctions
  <2>2. CASE u = t
    <3>1. Len(frames'[u]) = 0 /\ imported'[u] = NoImports
      BY <1>0, <1>4, <2>1, <2>2, Emptied
    <3> QED
      BY <3>1
  <2>3. CASE u # t
    <3>1. frames'[u] = frames[u] /\ imported'[u] = imported[u] /\ u \notin mixed
      BY <1>0, <1>4, <2>1, <2>3, Emptied
    <3> QED
      BY <1>a, <3>1
  <2> QED
    BY <2>2, <2>3
<1>5. CASE Quiet
  <2>1. frames' = frames /\ mixed' = mixed
    BY <1>5, QuietFacts
  <2>2. CASE \E t \in Threads, f \in Functions, lib \in Libraries : Import(t, f, lib)
    <3>1. PICK t \in Threads, f \in Functions, lib \in Libraries : Import(t, f, lib)
      BY <2>2
    <3>2. u = t => frames[u] # <<>>
      BY <3>1 DEF Import
    <3>3. u # t => imported'[u] = imported[u]
      BY <1>0, <3>1 DEF Import
    <3> QED
      BY <1>a, <2>1, <3>2, <3>3
  <2>3. CASE ~\E t \in Threads, f \in Functions, lib \in Libraries : Import(t, f, lib)
    <3>1. imported' = imported
      BY <1>5, <2>3 DEF Quiet, Interrupted, LoadFails, Close, Interrupt, SetHook, lookup, scriptVars
    <3> QED
      BY <1>a, <2>1, <3>1
  <2> QED
    BY <2>2, <2>3
<1> QED
  BY <1>1, <1>2, <1>3, <1>4, <1>5, StepCases

LEMMA ImportsKept ==
  ASSUME ImportInv, [ScriptNext]_scriptVars
  PROVE  ImportsKnown'
<1>0. ScriptTypeOK /\ MessageAtBottom /\ MixedThreads /\ StateOnce /\ ImportsKnown
      /\ imported \in [Threads -> [Functions -> Paths \cup {None}]]
      /\ known \in [States -> [Functions -> Paths \cup {None}]]
  BY DEF ImportInv, SignalInv, ScriptTypeOK
<1> SUFFICES ASSUME NEW u \in Threads, NEW g \in Functions,
                    frames'[u] # <<>>, u \notin mixed', imported'[u][g] # None
             PROVE  known'[frames'[u][Len(frames'[u])].state][g] = imported'[u][g]
  BY DEF ImportsKnown
<1>a. frames[u] # <<>> /\ u \notin mixed /\ imported[u][g] # None
        => known[frames[u][Len(frames[u])].state][g] = imported[u][g]
  BY <1>0 DEF ImportsKnown
<1>1. ASSUME NEW t \in Threads, NEW s \in States, Run(t, s)
      PROVE  known'[frames'[u][Len(frames'[u])].state][g] = imported'[u][g]
  <2>1. /\ imported' = imported /\ known' = known
        /\ mixed' = IF frames[t] = <<>> THEN mixed ELSE mixed \cup {t}
    BY <1>1 DEF Run
  <2>2. u # t
    <3> SUFFICES ASSUME u = t PROVE FALSE
      OBVIOUS
    <3>1. frames[u] = <<>> /\ u \notin mixed
      BY <2>1
    <3>2. imported[u] = NoImports
      BY <1>0, <3>1 DEF MixedThreads
    <3> QED
      BY <2>1, <3>2 DEF NoImports
  <2>3. frames'[u] = frames[u] /\ u \notin mixed
    BY <1>0, <1>1, <2>1, <2>2, Pushed
  <2> QED
    BY <1>a, <2>1, <2>3
<1>2. ASSUME NEW t \in Threads, NEW s \in States, RunPlugin(t, s)
      PROVE  known'[frames'[u][Len(frames'[u])].state][g] = imported'[u][g]
  <2>1. /\ imported' = [imported EXCEPT ![t] = NoImports] /\ known' = known
        /\ mixed' = mixed \ {t}
    BY <1>2 DEF RunPlugin, ResetImportedFunctions
  <2>2. u # t
    <3>1. imported'[t][g] = None
      BY <1>0, <2>1 DEF NoImports
    <3> QED
      BY <3>1
  <2>3. frames'[u] = frames[u] /\ u \notin mixed /\ imported'[u] = imported[u]
    BY <1>0, <1>2, <2>1, <2>2, Called
  <2> QED
    BY <1>a, <2>1, <2>3
<1>3. ASSUME NEW t \in Threads, Ends(t) \/ RunPluginFails(t)
      PROVE  known'[frames'[u][Len(frames'[u])].state][g] = imported'[u][g]
  <2>1. imported' = imported /\ mixed' = mixed \cup {t} /\ known' = known
    BY <1>3 DEF Ends, RunEnds, RunFails, Unwind, RunPluginFails, LeaveImports
  <2>2. u # t /\ u \notin mixed
    BY <2>1
  <2>3. frames'[u] = frames[u]
    BY <1>0, <1>3, <2>2, Popped, Emptied
  <2> QED
    BY <1>a, <2>1, <2>2, <2>3
<1>4. ASSUME NEW t \in Threads, RunPluginReturns(t)
      PROVE  known'[frames'[u][Len(frames'[u])].state][g] = imported'[u][g]
  <2>1. /\ imported' = [imported EXCEPT ![t] = NoImports] /\ known' = known
        /\ mixed' = mixed \ {t}
    BY <1>4 DEF RunPluginReturns, ResetImportedFunctions
  <2>2. u # t
    <3>1. imported'[t][g] = None
      BY <1>0, <2>1 DEF NoImports
    <3> QED
      BY <3>1
  <2>3. frames'[u] = frames[u] /\ u \notin mixed /\ imported'[u] = imported[u]
    BY <1>0, <1>4, <2>1, <2>2, Emptied
  <2> QED
    BY <1>a, <2>1, <2>3
<1>5. CASE Quiet
  <2>1. frames' = frames /\ mixed' = mixed
    BY <1>5, QuietFacts
  <2>2. CASE \E t \in Threads, f \in Functions, lib \in Libraries : Import(t, f, lib)
    <3>1. PICK t \in Threads, f \in Functions, lib \in Libraries : Import(t, f, lib)
      BY <2>2
    <3>2. PICK path \in GetDllPath(lib) :
              /\ imported' = [imported EXCEPT ![t][f] = path]
              /\ known' = [known EXCEPT ![Top(t).state][f] = path]
      BY <3>1 DEF Import
    <3> DEFINE own == frames[u][Len(frames[u])].state
    <3>3. /\ Len(frames[u]) \in 1 .. Len(frames[u]) /\ own \in States
          /\ frames[t] # <<>> /\ Len(frames[t]) \in 1 .. Len(frames[t])
          /\ Top(t) = frames[t][Len(frames[t])] /\ Top(t).state \in States
      BY <1>0, <2>1, <3>1, FrameTypes DEF Import
    <3>4. CASE u = t
      <4>1. own = Top(t).state
        BY <3>3, <3>4
      <4>2. CASE g = f
        BY <1>0, <2>1, <3>2, <3>3, <3>4, <4>1, <4>2
      <4>3. CASE g # f
        <5>1. imported'[u][g] = imported[u][g] /\ known'[own][g] = known[own][g]
          BY <1>0, <3>2, <3>3, <3>4, <4>1, <4>3
        <5> QED
          BY <1>a, <2>1, <5>1
      <4> QED
        BY <4>2, <4>3
    <3>5. CASE u # t
      <4>1. own # Top(t).state
        BY <1>0, <3>3, <3>5 DEF StateOnce
      <4>2. imported'[u][g] = imported[u][g] /\ known'[own][g] = known[own][g]
        BY <1>0, <3>2, <3>3, <3>5, <4>1
      <4> QED
        BY <1>a, <2>1, <4>2
    <3> QED
      BY <3>4, <3>5
  <2>3. CASE ~\E t \in Threads, f \in Functions, lib \in Libraries : Import(t, f, lib)
    <3>1. imported' = imported /\ known' = known
      BY <1>5, <2>3 DEF Quiet, Interrupted, LoadFails, Close, Interrupt, SetHook, lookup, scriptVars
    <3> QED
      BY <1>a, <2>1, <3>1
  <2> QED
    BY <2>2, <2>3
<1> QED
  BY <1>1, <1>2, <1>3, <1>4, <1>5, StepCases

LEMMA ImportInit == ScriptInit => ImportInv
<1> SUFFICES ASSUME ScriptInit PROVE ImportInv
  OBVIOUS
<1>1. \A t \in Threads : frames[t] = <<>> /\ Len(frames[t]) = 0 /\ imported[t] = NoImports
  BY EmptySeq DEF ScriptInit
<1>2. PhaseOfFrame /\ StateOnce
  BY <1>1 DEF PhaseOfFrame, StateOnce
<1>3. MixedThreads /\ ImportsKnown
  BY <1>1 DEF MixedThreads, ImportsKnown
<1> QED
  BY <1>2, <1>3, SignalInit DEF ImportInv

\* A script calls only what it has imported itself, from the library it was
\* imported from, as long as its thread holds the imports of one script only
\* (lua.cpp:318-356, lua_extension.cpp:157-213).
THEOREM ScriptsCallTheirImports == ScriptSpec => []CallsWhatItImported
<1>1. ScriptInit => ImportInv
  BY ImportInit
<1>2. ImportInv /\ [ScriptNext]_scriptVars => ImportInv'
  <2> SUFFICES ASSUME ImportInv, [ScriptNext]_scriptVars PROVE ImportInv'
    OBVIOUS
  <2>1. SignalInv'
    BY SignalStep DEF ImportInv
  <2> QED
    BY <2>1, OnceKept, PhaseKept, MixedKept, ImportsKept DEF ImportInv
<1>3. ImportInv => CallsWhatItImported
  BY DEF ImportInv, ImportsKnown, CallsWhatItImported, GetImportedFunction, Top, Last
<1> QED
  BY <1>1, <1>2, <1>3, PTL DEF ScriptSpec

(***************************************************************************)
(* Libraries                                                               *)
(***************************************************************************)
LEMMA DirectoriesGrow ==
  ASSUME ScriptTypeOK, [ScriptNext]_scriptVars, NEW lib \in Libraries
  PROVE  directories[lib] \subseteq directories'[lib]
<1>1. CASE \E t \in Threads, s \in States : Run(t, s)
  BY <1>1 DEF Run, StoreDirectoriesOfDlls
<1>2. CASE ~\E t \in Threads, s \in States : Run(t, s)
  <2>1. directories' = directories
    BY <1>2, StepCases DEF Quiet, Import, Interrupted, LoadFails, Close, Interrupt, SetHook,
       Ends, RunEnds, RunFails, RunPlugin, RunPluginReturns, RunPluginFails, lookup, scriptVars
  <2> QED
    BY <2>1
<1> QED
  BY <1>1, <1>2

LEMMA FoundThere ==
  ASSUME NEW lib \in Libraries, NEW path \in GetDllPath(lib), path \in Matches
  PROVE  \E d \in directories[Candidate(lib)] : path = <<d, Candidate(lib)>>
<1>1. path # <<None, lib>>
  BY ScriptAssumption
<1> QED
  BY <1>1 DEF GetDllPath

LEMMA LibraryKept ==
  ASSUME ScriptTypeOK, [ScriptNext]_scriptVars,
         NEW lib \in Libraries, NEW path \in GetDllPath(lib),
         path \in Matches, Candidate(lib)' = Candidate(lib)
  PROVE  GetDllPath(lib)' \subseteq {path}
<1> DEFINE name == Candidate(lib)
<1>1. PICK d \in directories[name] : path = <<d, name>>
  BY FoundThere
<1>2. name \in Libraries
  BY ScriptAssumption DEF Candidate
<1>3. d \in directories'[name]
  BY <1>1, <1>2, DirectoriesGrow
<1>4. PICK again : again = name
  OBVIOUS
<1>5. GetDllPath(lib)' =
        IF directories'[again] = {} THEN {<<None, lib>>}
        ELSE {<<e, again>> : e \in {e \in directories'[again] :
                 directories'[again] = {e} \/ Preferred(e, again)'}}
  BY <1>4 DEF GetDllPath, Preferred, IsFirst
<1> SUFFICES ASSUME NEW p \in GetDllPath(lib)' PROVE p = path
  OBVIOUS
<1>6. PICK e \in directories'[again] : /\ p = <<e, again>>
                                       /\ directories'[again] = {e} \/ Preferred(e, again)'
  BY <1>3, <1>4, <1>5
<1>7. CASE directories'[again] = {e}
  BY <1>1, <1>3, <1>4, <1>6, <1>7
<1>8. CASE Preferred(e, again)'
  <2>1. {x \in directories'[again] : <<x, again>> \in Matches} = {e}
    BY <1>8 DEF Preferred
  <2>2. d \in {x \in directories'[again] : <<x, again>> \in Matches}
    BY <1>1, <1>3, <1>4
  <2> QED
    BY <1>1, <1>4, <1>6, <2>1, <2>2
<1> QED
  BY <1>6, <1>7, <1>8

\* A library found in the directory that is named after it is never found
\* elsewhere later (lua_extension.cpp:277-336).
THEOREM LibrariesStay == ScriptSpec => LibraryStays
<1>1. ScriptInit => SignalInv
  BY SignalInit
<1>2. SignalInv /\ [ScriptNext]_scriptVars => SignalInv'
  BY SignalStep
<1>3. SignalInv /\ [ScriptNext]_scriptVars
        => [\A lib \in Libraries : \A path \in GetDllPath(lib) :
              path \in Matches /\ Candidate(lib)' = Candidate(lib)
                 => GetDllPath(lib)' \subseteq {path}]_scriptVars
  BY LibraryKept DEF SignalInv
<1> QED
  BY <1>1, <1>2, <1>3, PTL DEF ScriptSpec, LibraryStays

-----------------------------------------------------------------------------
(* Induction over the natural numbers, stated for a set *)

\* A least number outside would be the successor of one inside.

LEMMA NatSetInduction ==
  ASSUME NEW S, 0 \in S, \A n \in Nat : n \in S => n + 1 \in S
  PROVE  Nat \subseteq S
<1> DEFINE R == OpToRel(<, Nat)
           T == Nat \ S
<1>1. IsWellFoundedOn(R, Nat)
  BY NatLessThanWellFounded
<1>2. SUFFICES ASSUME T # {}
               PROVE  FALSE
  OBVIOUS
<1>3. PICK x \in T : \A y \in T : <<y, x>> \notin R
  <2> HIDE DEF R
  <2> QED
    BY <1>1, <1>2, WFMin
<1>4. \A y \in Nat : y < x => <<y, x>> \in R
  BY DEF OpToRel
<1>5. x # 0 /\ x \in Nat
  OBVIOUS
<1>6. x - 1 \in Nat /\ x - 1 < x /\ (x - 1) + 1 = x
  BY <1>5
<1>7. x - 1 \in S
  BY <1>3, <1>4, <1>6
<1> QED
  BY <1>6, <1>7

-----------------------------------------------------------------------------
(* Powers *)

\* Power is defined by recursion: the first powers are a function of their
\* own, and any two such functions agree, so that a function Power exists.
IsPower(g, n) ==
    g \in [0 .. n -> Nat] /\ g[0] = 1 /\ \A i \in 1 .. n : g[i] = ByteValues * g[i - 1]

LEMMA BytesAreTwo == ByteValues \in Nat /\ ByteValues >= 2
BY MemoryAssumption

LEMMA PowerExists == \A n \in Nat : \E g : IsPower(g, n)
<1> DEFINE S == {n \in Nat : \E g : IsPower(g, n)}
<1>1. 0 \in S
  <2>1. IsPower([i \in 0 .. 0 |-> 1], 0)
    BY DEF IsPower
  <2> QED
    BY <2>1
<1>2. ASSUME NEW n \in Nat, n \in S
      PROVE  n + 1 \in S
  <2>1. PICK g : IsPower(g, n)
    BY <1>2
  <2> DEFINE h == [i \in 0 .. n + 1 |-> IF i <= n THEN g[i] ELSE ByteValues * g[n]]
  <2>2. \A i \in 0 .. n : g[i] \in Nat
    BY <2>1 DEF IsPower
  <2>3. h \in [0 .. n + 1 -> Nat]
    <3>1. g[n] \in Nat
      BY <2>2
    <3>2. ByteValues * g[n] \in Nat
      BY <3>1, BytesAreTwo
    <3> QED
      BY <2>2, <3>2
  <2>4. h[0] = 1
    BY <2>1 DEF IsPower
  <2>5. ASSUME NEW i \in 1 .. n + 1
        PROVE  h[i] = ByteValues * h[i - 1]
    <3>1. CASE i <= n
      <4>1. i \in 1 .. n /\ i - 1 \in 0 .. n /\ i \in 0 .. n
        BY <3>1
      <4>2. h[i] = g[i] /\ h[i - 1] = g[i - 1]
        BY <4>1
      <4> QED
        BY <2>1, <4>1, <4>2 DEF IsPower
    <3>2. CASE i = n + 1
      <4>1. h[i] = ByteValues * g[n]
        BY <3>2
      <4>2. h[i - 1] = g[n]
        BY <3>2
      <4> QED
        BY <4>1, <4>2
    <3> QED
      BY <3>1, <3>2
  <2> HIDE DEF h
  <2>6. IsPower(h, n + 1)
    BY <2>3, <2>4, <2>5 DEF IsPower
  <2> QED
    BY <2>6
<1> HIDE DEF S
<1>3. Nat \subseteq S
  BY <1>1, <1>2, NatSetInduction
<1> QED
  BY <1>3 DEF S

LEMMA PowerUnique ==
  ASSUME NEW n \in Nat, NEW m \in Nat, n <= m, NEW g, NEW h, IsPower(g, n), IsPower(h, m)
  PROVE  \A i \in 0 .. n : g[i] = h[i]
<1> DEFINE S == {i \in Nat : i <= n => g[i] = h[i]}
<1>1. 0 \in S
  BY DEF IsPower
<1>2. ASSUME NEW i \in Nat, i \in S
      PROVE  i + 1 \in S
  <2>1. CASE i + 1 <= n
    <3>1. i + 1 \in 1 .. n /\ i + 1 \in 1 .. m /\ (i + 1) - 1 = i
      BY <2>1
    <3>2. g[i + 1] = ByteValues * g[i] /\ h[i + 1] = ByteValues * h[i]
      BY <3>1 DEF IsPower
    <3> QED
      BY <1>2, <2>1, <3>2
  <2>2. CASE ~(i + 1 <= n)
    BY <2>2
  <2> QED
    BY <2>1, <2>2
<1> HIDE DEF S
<1>3. Nat \subseteq S
  BY <1>1, <1>2, NatSetInduction
<1> QED
  BY <1>3 DEF S

LEMMA PowerDef == Power = [n \in Nat |-> IF n = 0 THEN 1 ELSE ByteValues * Power[n - 1]]
<1> DEFINE F(g) == [n \in Nat |-> IF n = 0 THEN 1 ELSE ByteValues * g[n - 1]]
           G(n) == CHOOSE g : IsPower(g, n)
           f == [n \in Nat |-> G(n)[n]]
<1>1. \A n \in Nat : IsPower(G(n), n)
  BY PowerExists
<1> HIDE DEF G
<1>2. f[0] = 1
  BY <1>1 DEF IsPower
<1>3. ASSUME NEW n \in Nat, n # 0
      PROVE  f[n] = ByteValues * f[n - 1]
  <2>1. n - 1 \in Nat /\ n - 1 <= n /\ n \in 1 .. n /\ n - 1 \in 0 .. n - 1
    BY <1>3
  <2>2. G(n)[n] = ByteValues * G(n)[n - 1]
    BY <1>1, <2>1 DEF IsPower
  <2>3. G(n - 1)[n - 1] = G(n)[n - 1]
    BY <1>1, <2>1, PowerUnique
  <2> QED
    BY <2>1, <2>2, <2>3
<1>4. f = F(f)
  BY <1>2, <1>3
<1> HIDE DEF f
<1>5. Power = CHOOSE g : g = F(g)
  BY DEF Power
<1> HIDE DEF F
<1>6. Power = F(Power)
  BY <1>4, <1>5
<1> QED
  BY <1>6 DEF F

LEMMA PowerSteps ==
  /\ Power[0] = 1
  /\ \A n \in Nat : Power[n] \in Nat /\ Power[n] > 0 /\ Power[n + 1] = ByteValues * Power[n]
<1>1. \A n \in Nat : Power[n] = IF n = 0 THEN 1 ELSE ByteValues * Power[n - 1]
  BY PowerDef
<1>2. Power[0] = 1
  BY <1>1
<1>3. \A n \in Nat : Power[n + 1] = ByteValues * Power[n]
  <2> TAKE n \in Nat
  <2>1. n + 1 \in Nat /\ n + 1 # 0 /\ (n + 1) - 1 = n
    OBVIOUS
  <2> QED
    BY <1>1, <2>1
<1> DEFINE S == {n \in Nat : Power[n] \in Nat /\ Power[n] > 0}
<1>4. 0 \in S
  BY <1>2
<1>5. ASSUME NEW n \in Nat, n \in S
      PROVE  n + 1 \in S
  <2>1. ByteValues * Power[n] \in Nat /\ ByteValues * Power[n] > 0
    BY <1>5, BytesAreTwo
  <2> QED
    BY <1>3, <2>1
<1> HIDE DEF S
<1>6. Nat \subseteq S
  BY <1>4, <1>5, NatSetInduction
<1> QED
  BY <1>2, <1>3, <1>6 DEF S

LEMMA PowerGrows ==
  ASSUME NEW n \in Nat, NEW m \in Nat, n < m
  PROVE  2 * Power[n] <= Power[m]
<1> DEFINE S == {k \in Nat : 2 * Power[n] <= Power[n + 1 + k]}
<1>1. 0 \in S
  <2>1. Power[n + 1] = ByteValues * Power[n] /\ Power[n] \in Nat /\ n + 1 + 0 = n + 1
    BY PowerSteps
  <2>2. ByteValues * Power[n] >= 2 * Power[n]
    BY <2>1, BytesAreTwo
  <2> QED
    BY <2>1, <2>2
<1>2. ASSUME NEW k \in Nat, k \in S
      PROVE  k + 1 \in S
  <2>1. n + 1 + k \in Nat /\ n + 1 + (k + 1) = (n + 1 + k) + 1
    OBVIOUS
  <2>2. /\ Power[n + 1 + (k + 1)] = ByteValues * Power[n + 1 + k]
        /\ Power[n + 1 + k] \in Nat /\ Power[n] \in Nat
    BY <2>1, PowerSteps
  <2>3. ByteValues * Power[n + 1 + k] >= Power[n + 1 + k]
    BY <2>2, BytesAreTwo
  <2>4. Power[n + 1 + (k + 1)] \in Nat
    BY <2>1, PowerSteps
  <2> QED
    BY <1>2, <2>2, <2>3, <2>4
<1> HIDE DEF S
<1>3. Nat \subseteq S
  BY <1>1, <1>2, NatSetInduction
<1>4. m - (n + 1) \in Nat /\ n + 1 + (m - (n + 1)) = m
  OBVIOUS
<1> QED
  BY <1>3, <1>4 DEF S

-----------------------------------------------------------------------------
(* Bytes of numbers *)

LEMMA Quotient ==
  ASSUME NEW a \in Int, NEW m \in Nat, m > 0, NEW q \in Int, NEW r \in Int,
         a = q * m + r, 0 <= r, r < m
  PROVE  a \div m = q /\ a % m = r
OBVIOUS

LEMMA Division ==
  ASSUME NEW a \in Int, NEW m \in Nat, m > 0
  PROVE  /\ a \div m \in Int /\ a % m \in Nat /\ a % m < m
         /\ a = (a \div m) * m + (a % m)
OBVIOUS

LEMMA NatQuotient ==
  ASSUME NEW a \in Nat, NEW m \in Nat, m > 0
  PROVE  a \div m \in Nat
OBVIOUS

LEMMA DivideTwice ==
  ASSUME NEW a \in Nat, NEW m \in Nat, m > 0, NEW k \in Nat, k > 0
  PROVE  (a \div m) \div k = a \div (m * k)
<1> DEFINE q == a \div m
           r == a % m
           q2 == q \div k
           r2 == q % k
<1>1. q \in Nat /\ r \in Nat /\ r < m /\ a = q * m + r
  BY Division, NatQuotient
<1> HIDE DEF q, r
<1>2. q2 \in Nat /\ r2 \in Nat /\ r2 < k /\ q = q2 * k + r2
  BY <1>1, Division, NatQuotient
<1> HIDE DEF q2, r2
<1>3. a = q2 * (m * k) + (r2 * m + r)
  BY <1>1, <1>2
<1>4. r2 * m + r < m * k /\ r2 * m + r \in Nat /\ m * k \in Nat /\ m * k > 0
  <2>1. r2 <= k - 1
    BY <1>2
  <2>2. r2 * m <= (k - 1) * m
    BY <1>2, <2>1
  <2>3. (k - 1) * m = m * k - m
    OBVIOUS
  <2>4. r2 * m \in Nat /\ m * k \in Nat /\ m * k > 0
    BY <1>2
  <2> QED
    BY <1>1, <2>2, <2>3, <2>4
<1>5. a \div (m * k) = q2
  <2> DEFINE mk == m * k
             rest == r2 * m + r
  <2>1. mk \in Nat /\ mk > 0 /\ rest \in Int /\ 0 <= rest /\ rest < mk /\ a = q2 * mk + rest
    BY <1>3, <1>4
  <2> HIDE DEF mk, rest
  <2>2. a \div mk = q2
    BY <1>2, <2>1, Quotient
  <2> QED
    BY <2>2 DEF mk
<1> QED
  BY <1>5 DEF q2, q

\* The bytes of a number determine it.
LEMMA SameBytes ==
  ASSUME NEW w \in Nat, NEW v \in Values(w), NEW u \in Values(w),
         \A i \in 0 .. w - 1 : Byte(v, i) = Byte(u, i)
  PROVE  v = u
<1> DEFINE S == {n \in Nat : \A x, y \in Nat :
                   /\ x < Power[n] /\ y < Power[n]
                   /\ \A i \in 0 .. n - 1 : Byte(x, i) = Byte(y, i)
                   => x = y}
<1>1. 0 \in S
  BY PowerSteps
<1>2. ASSUME NEW n \in Nat, n \in S
      PROVE  n + 1 \in S
  <2>1. SUFFICES ASSUME NEW x \in Nat, NEW y \in Nat, x < Power[n + 1], y < Power[n + 1],
                        \A i \in 0 .. n : Byte(x, i) = Byte(y, i)
                 PROVE  x = y
    OBVIOUS
  <2>2. ASSUME NEW z \in Nat, z < Power[n + 1]
        PROVE  /\ z \div ByteValues \in Nat /\ z \div ByteValues < Power[n]
               /\ z = (z \div ByteValues) * ByteValues + Byte(z, 0)
               /\ \A i \in 0 .. n - 1 : Byte(z \div ByteValues, i) = Byte(z, i + 1)
    <3> DEFINE q == z \div ByteValues
    <3>1. q \in Nat /\ z = q * ByteValues + (z % ByteValues) /\ z % ByteValues \in Nat
      BY BytesAreTwo, Division, NatQuotient
    <3>2. Byte(z, 0) = z % ByteValues
      <4>1. z \div 1 = z
        OBVIOUS
      <4> QED
        BY <4>1, PowerSteps DEF Byte
    <3>3. ASSUME NEW i \in 0 .. n - 1
          PROVE  Byte(q, i) = Byte(z, i + 1)
      <4>1. i \in Nat /\ Power[i] \in Nat /\ Power[i] > 0 /\ Power[i + 1] = ByteValues * Power[i]
        BY PowerSteps
      <4>2. q \div Power[i] = z \div Power[i + 1]
        BY <4>1, BytesAreTwo, DivideTwice
      <4> QED
        BY <4>2 DEF Byte
    <3> HIDE DEF q
    <3>4. q < Power[n]
      <4>1. Power[n] \in Nat /\ z < ByteValues * Power[n]
        BY <2>2, PowerSteps
      <4>2. q * ByteValues < ByteValues * Power[n]
        BY <3>1, <4>1, BytesAreTwo
      <4> QED
        BY <3>1, <4>1, <4>2, BytesAreTwo
    <3> QED
      BY <3>1, <3>2, <3>3, <3>4 DEF q
  <2>3. Byte(x, 0) = Byte(y, 0)
    BY <2>1
  <2>4. \A i \in 0 .. n - 1 : Byte(x \div ByteValues, i) = Byte(y \div ByteValues, i)
    BY <2>1, <2>2
  <2>5. x \div ByteValues = y \div ByteValues
    BY <1>2, <2>1, <2>2, <2>4
  <2> QED
    BY <2>1, <2>2, <2>3, <2>5
<1> HIDE DEF S
<1>3. Nat \subseteq S
  BY <1>1, <1>2, NatSetInduction
<1>4. v \in Nat /\ u \in Nat /\ v < Power[w] /\ u < Power[w]
  BY PowerSteps DEF Values
<1> QED
  BY <1>3, <1>4 DEF S

\* What fits into a narrower element is stored as it is.
LEMMA WrapSmall ==
  ASSUME NEW w \in Nat, w < LongWidth, NEW v \in Values(w)
  PROVE  Wrap(v) = v
<1> DEFINE half == Power[LongWidth] \div 2
<1>1. LongWidth \in Nat
  BY MemoryAssumption
<1>2. /\ Power[w] \in Nat /\ Power[LongWidth] \in Nat /\ 2 * Power[w] <= Power[LongWidth]
      /\ v \in Nat /\ v < Power[w]
  BY <1>1, PowerSteps, PowerGrows DEF Values
<1>3. half \in Nat /\ v < half
  BY <1>2
<1> HIDE DEF half
<1>4. (v + half) % (2 * half) = v + half
  <2> DEFINE m == 2 * half
             r == v + half
  <2>1. m \in Nat /\ m > 0 /\ r \in Int /\ 0 <= r /\ r < m /\ r = 0 * m + r
    BY <1>2, <1>3
  <2> HIDE DEF m, r
  <2>2. r % m = r
    BY <2>1, Quotient
  <2> QED
    BY <2>2 DEF m, r
<1> QED
  BY <1>2, <1>3, <1>4 DEF Wrap, half

LEMMA StoredFits ==
  ASSUME NEW w \in Nat, w < LongWidth, NEW v \in Values(w)
  PROVE  Stored(w, v) = {v}
<1>1. Power[w] \in Nat /\ Power[w] > 0 /\ v \in Nat /\ v < Power[w]
  BY PowerSteps DEF Values
<1>2. Power[w] - 1 \in Values(w)
  BY <1>1 DEF Values
<1>3. MaxInteger(w) = Power[w] - 1 /\ Wrap(v) = v
  BY <1>2, WrapSmall DEF MaxInteger
<1>4. v % Power[w] = v
  BY <1>1, Quotient
<1> QED
  BY <1>1, <1>3, <1>4 DEF Stored, Overflows

-----------------------------------------------------------------------------
(* Blocks of memory *)

\* Every element that is expected is in the block, byte for byte, unless it is
\* as wide as a lua_Integer.
Narrow == {e \in expected : e[1][1] < LongWidth}
MemoryInv ==
  /\ block \in [0 .. BlockSize - 1 -> 0 .. ByteValues - 1]
  /\ \A e \in Narrow : \E w \in Nat, o \in Nat : \E v \in Values(w) :
        /\ e = <<<<w, o>>, v>> /\ w < LongWidth /\ (o + 1) * w <= BlockSize
        /\ \A i \in 0 .. w - 1 : block[o * w + i] = Byte(v, i)

LEMMA MemoryStart ==
  ASSUME MemoryInit
  PROVE  MemoryInv
BY BytesAreTwo DEF MemoryInit, MemoryInv, Narrow

LEMMA ByteInRange == \A v \in Int, i \in Nat : Byte(v, i) \in 0 .. ByteValues - 1
<1> SUFFICES ASSUME NEW v \in Int, NEW i \in Nat
             PROVE  Byte(v, i) \in 0 .. ByteValues - 1
  OBVIOUS
<1>1. v \div Power[i] \in Int
  BY PowerSteps, Division
<1> QED
  BY <1>1, BytesAreTwo, Division DEF Byte

LEMMA StoredAreNumbers ==
  ASSUME NEW w \in Nat, NEW x \in Int
  PROVE  Stored(w, x) \subseteq Int
<1>1. Power[w] \in Nat /\ Power[w] > 0 /\ Power[LongWidth] \in Nat
  BY PowerSteps, MemoryAssumption
<1>2. \A y \in Int : Wrap(y) \in Int
  <2> DEFINE half == Power[LongWidth] \div 2
  <2>1. half \in Nat /\ half > 0
    <3>1. LongWidth \in Nat /\ 0 < LongWidth
      BY MemoryAssumption
    <3>2. 2 * Power[0] <= Power[LongWidth]
      BY <3>1, PowerGrows
    <3> QED
      BY <1>1, <3>2, PowerSteps
  <2> HIDE DEF half
  <2>2. \A y \in Int : ((y + half) % (2 * half)) \in Int
    BY <2>1
  <2> QED
    BY <2>1, <2>2 DEF Wrap, half
<1>3. MaxInteger(w) \in Int
  BY <1>1, <1>2 DEF MaxInteger
<1>4. \A y \in Int : y % Power[w] \in Int
  BY <1>1
<1> QED
  BY <1>3, <1>4 DEF Stored, Values

LEMMA MemoryKept ==
  ASSUME MemoryInv, [MemoryNext]_memoryVars
  PROVE  MemoryInv'
<1>1. CASE UNCHANGED memoryVars
  BY <1>1 DEF MemoryInv, memoryVars, Narrow
<1>2. CASE MemoryNext
  <2>1. PICK el \in Elements, x \in PokedValues : Poke(el[1], el[2], x)
    BY <1>2 DEF MemoryNext
  <2> DEFINE w == el[1]
             o == el[2]
             at == o * w
  <2>2. w \in Nat /\ o \in Nat /\ (o + 1) * w <= BlockSize /\ x \in Int
    <3>1. el[1] \in Widths /\ el[2] \in 0 .. BlockSize /\ (el[2] + 1) * el[1] <= BlockSize
      BY DEF Elements
    <3>2. Widths \subseteq Nat /\ PokedValues \subseteq Int /\ BlockSize \in Nat
      BY MemoryAssumption
    <3>3. el[1] \in Nat
      BY <3>1, <3>2
    <3>4. el[2] \in Nat
      BY <3>1, <3>2
    <3>5. x \in Int
      BY <3>2
    <3> QED
      BY <3>1, <3>3, <3>4, <3>5
  <2>3. at \in Nat /\ w * o = at /\ AddOffset(0, o, w) = at
    BY <2>2 DEF AddOffset
  <2>4. PICK stored \in Stored(w, x) :
          block' = [b \in DOMAIN block |->
                      IF b \in Bytes(at, w) THEN Byte(stored, b - at) ELSE block[b]]
    BY <2>1, <2>3 DEF Poke
  <2>5. Bytes(at, w) \subseteq 0 .. BlockSize - 1
    BY <2>1, <2>3 DEF Poke, MemoryInv
  <2>6. \A e \in Narrow' :
           \/ e \in Narrow /\ Bytes(e[1][1] * e[1][2], e[1][1]) \cap Bytes(at, w) = {}
           \/ e = <<<<w, o>>, x>> /\ w < LongWidth /\ x \in Values(w)
    BY <2>1, <2>3 DEF Poke, Narrow
  <2> HIDE DEF w, o, at
  <2>7. stored \in Int
    BY <2>2, StoredAreNumbers
  <2>8. block' \in [0 .. BlockSize - 1 -> 0 .. ByteValues - 1]
    <3>1. \A b \in Bytes(at, w) : b - at \in Nat
      BY <2>2, <2>3 DEF Bytes
    <3> QED
      BY <2>4, <2>7, <3>1, ByteInRange DEF MemoryInv
  <2>9. ASSUME NEW e \in Narrow,
               Bytes(e[1][1] * e[1][2], e[1][1]) \cap Bytes(at, w) = {}
        PROVE  \E n \in Nat, p \in Nat : \E v \in Values(n) :
                 /\ e = <<<<n, p>>, v>> /\ n < LongWidth /\ (p + 1) * n <= BlockSize
                 /\ \A i \in 0 .. n - 1 : block'[p * n + i] = Byte(v, i)
    <3>1. PICK n \in Nat, p \in Nat :
            \E u \in Values(n) :
              /\ e = <<<<n, p>>, u>> /\ n < LongWidth /\ (p + 1) * n <= BlockSize
              /\ \A i \in 0 .. n - 1 : block[p * n + i] = Byte(u, i)
      BY DEF MemoryInv
    <3>2. PICK v \in Values(n) :
            /\ e = <<<<n, p>>, v>> /\ n < LongWidth /\ (p + 1) * n <= BlockSize
            /\ \A i \in 0 .. n - 1 : block[p * n + i] = Byte(v, i)
      BY <3>1
    <3>3. Bytes(n * p, n) \cap Bytes(at, w) = {}
      BY <2>9, <3>2
    <3>4. ASSUME NEW i \in 0 .. n - 1
          PROVE  block'[p * n + i] = Byte(v, i)
      <4>1. p * n \in Nat /\ n * p = p * n /\ (p + 1) * n = p * n + n
        OBVIOUS
      <4>2. p * n + i \in Bytes(n * p, n) /\ p * n + i \in 0 .. BlockSize - 1
        BY <3>2, <4>1, MemoryAssumption DEF Bytes
      <4>3. block'[p * n + i] = block[p * n + i]
        BY <2>4, <3>3, <4>2 DEF MemoryInv
      <4> QED
        BY <3>2, <4>3
    <3> QED
      BY <3>2, <3>4
  <2>10. ASSUME w < LongWidth, x \in Values(w)
         PROVE  \A i \in 0 .. w - 1 : block'[o * w + i] = Byte(x, i)
    <3>1. stored = x
      BY <2>2, <2>10, StoredFits
    <3>2. ASSUME NEW i \in 0 .. w - 1
          PROVE  block'[at + i] = Byte(x, i)
      <4>1. at + i \in Bytes(at, w) /\ (at + i) - at = i
        BY <2>2, <2>3 DEF Bytes
      <4>2. at + i \in DOMAIN block
        BY <2>5, <4>1 DEF MemoryInv
      <4> QED
        BY <2>4, <3>1, <4>1, <4>2
    <3> QED
      BY <3>2 DEF at
  <2>11. \A e \in Narrow' : \E n \in Nat, p \in Nat : \E v \in Values(n) :
           /\ e = <<<<n, p>>, v>> /\ n < LongWidth /\ (p + 1) * n <= BlockSize
           /\ \A i \in 0 .. n - 1 : block'[p * n + i] = Byte(v, i)
    BY <2>2, <2>6, <2>9, <2>10
  <2> QED
    BY <2>8, <2>11 DEF MemoryInv
<1> QED
  BY <1>1, <1>2

\* An integer that fits into its element is read back until one of its bytes
\* is poked, for all widths narrower than a lua_Integer and whatever is poked
\* elsewhere (lua_extension.cpp:410-429, 566-849).
THEOREM PokedIsPeeked == MemorySpec => []ReadsBack
<1>1. ASSUME MemoryInv
      PROVE  ReadsBack
  <2> SUFFICES ASSUME NEW e \in Narrow
               PROVE  Peek(e[1][1], e[1][2]) = e[2]
    BY DEF ReadsBack, Narrow
  <2>1. PICK w \in Nat, o \in Nat : \E u \in Values(w) :
          /\ e = <<<<w, o>>, u>> /\ w < LongWidth
          /\ \A i \in 0 .. w - 1 : block[o * w + i] = Byte(u, i)
    BY <1>1 DEF MemoryInv
  <2>2. PICK v \in Values(w) :
          /\ e = <<<<w, o>>, v>> /\ w < LongWidth
          /\ \A i \in 0 .. w - 1 : block[o * w + i] = Byte(v, i)
    BY <2>1
  <2>3. AddOffset(0, o, w) = o * w
    BY DEF AddOffset
  <2>4. PeekFrom(o * w, w) = v
    <3>1. \A u \in Values(w) :
            (\A i \in 0 .. w - 1 : block[o * w + i] = Byte(u, i)) => u = v
      BY <2>2, SameBytes
    <3> QED
      BY <2>2, <3>1 DEF PeekFrom
  <2>5. Peek(w, o) = v
    BY <2>2, <2>3, <2>4, WrapSmall DEF Peek
  <2> QED
    BY <2>2, <2>5
<1>2. MemoryInit => MemoryInv
  BY MemoryStart
<1>3. MemoryInv /\ [MemoryNext]_memoryVars => MemoryInv'
  BY MemoryKept
<1> QED
  BY <1>1, <1>2, <1>3, PTL DEF MemorySpec

-----------------------------------------------------------------------------
(* Sequences *)

LEMMA OneMore ==
  ASSUME NEW S, NEW x \in S, NEW s \in Seq(S)
  PROVE  /\ <<x>> \o s \in Seq(S) /\ Len(<<x>> \o s) = Len(s) + 1
         /\ (<<x>> \o s)[1] = x
         /\ \A i \in 2 .. Len(s) + 1 : (<<x>> \o s)[i] = s[i - 1]
<1> DEFINE t == <<x>> \o s
<1>1. <<x>> \in Seq(S) /\ Len(<<x>>) = 1 /\ <<x>>[1] = x /\ Len(s) \in Nat
  OBVIOUS
<1>2. /\ t \in Seq(S) /\ Len(t) = 1 + Len(s)
      /\ \A i \in 1 .. 1 + Len(s) : t[i] = IF i <= 1 THEN <<x>>[i] ELSE s[i - 1]
  BY <1>1, ConcatProperties
<1> HIDE DEF t
<1>3. t[1] = x
  BY <1>1, <1>2
<1>4. ASSUME NEW i \in 2 .. Len(s) + 1
      PROVE  t[i] = s[i - 1]
  <2>1. i \in 1 .. 1 + Len(s) /\ ~(i <= 1)
    BY <1>1
  <2> QED
    BY <1>2, <2>1
<1> QED
  BY <1>1, <1>2, <1>3, <1>4 DEF t

-----------------------------------------------------------------------------
(* Calls of traverse *)

\* What gets smaller from a call to those it makes: there are fewer types left
\* or, with the same type, fewer arguments.
Args(c) == Len(c.head \o c.current)
Measure(c) ==
    IF Args(c) < MaxArguments
    THEN (TypeCount - c.index) * (MaxArguments + 1) + (MaxArguments - Args(c))
    ELSE 0

LEMMA CallFacts ==
  ASSUME NEW c \in Calls
  PROVE  /\ c.head \in Seq(Types) /\ c.current \in Seq(Types) /\ c.create \in BOOLEAN
         /\ c.index \in Nat /\ c.index \in Types /\ TypeCount - c.index \in Nat
         /\ c.head \o c.current \in Seq(Types)
         /\ Args(c) \in Nat /\ Measure(c) \in Nat
<1>1. /\ c.head \in Seq(Types) /\ c.current \in Seq(Types) /\ c.create \in BOOLEAN
      /\ c.index \in Types
  BY DEF Calls
<1>2. c.index \in Nat /\ TypeCount - c.index \in Nat /\ TypeCount \in Nat /\ MaxArguments \in Nat
  BY <1>1, SignatureAssumption DEF Types
<1>3. c.head \o c.current \in Seq(Types)
  BY <1>1, ConcatProperties
<1>4. Args(c) \in Nat
  <2> DEFINE total == c.head \o c.current
  <2>1. Args(c) = Len(total)
    BY DEF Args
  <2> HIDE DEF total
  <2>2. total \in Seq(Types) => Len(total) \in Nat
    OBVIOUS
  <2> QED
    BY <1>3, <2>1, <2>2 DEF total
<1>5. Measure(c) \in Nat
  <2>1. (TypeCount - c.index) * (MaxArguments + 1) \in Nat
    BY <1>2
  <2> QED
    BY <1>2, <1>4, <2>1 DEF Measure
<1> QED
  BY <1>1, <1>2, <1>3, <1>4, <1>5

LEMMA NextTypeFacts ==
  ASSUME NEW c \in Calls, Args(c) < MaxArguments, c.index < TypeCount
  PROVE  /\ NextType(c) \in Calls /\ Measure(NextType(c)) < Measure(c)
         /\ NextType(c).head \o NextType(c).current = c.head \o c.current
<1> DEFINE d == NextType(c)
           left == TypeCount - c.index
           p == (left - 1) * (MaxArguments + 1)
           q == left * (MaxArguments + 1)
<1>1. c.index + 1 \in Types
  BY CallFacts, SignatureAssumption DEF Types
<1>2. d \in Calls
  BY <1>1, CallFacts DEF Calls, NextType
<1>3. d.head = c.head \o c.current /\ d.current = <<>> /\ d.index = c.index + 1
  BY DEF NextType
<1>4. d.head \o d.current = c.head \o c.current
  BY <1>3, CallFacts, ConcatEmptySeq
<1>5. TypeCount - d.index = left - 1 /\ left \in Nat /\ MaxArguments \in Nat
  BY <1>3, CallFacts, SignatureAssumption
<1> HIDE DEF d, left
<1>6. p < q /\ p \in Int /\ q \in Int
  BY <1>5
<1>7. Measure(c) = q + (MaxArguments - Args(c))
  BY DEF Measure, left
<1>8. Measure(d) = p + (MaxArguments - Args(c))
  <2>1. Args(d) = Args(c)
    BY <1>4 DEF Args
  <2> QED
    BY <1>5, <2>1 DEF Measure
<1> HIDE DEF p, q
<1> QED
  BY <1>2, <1>4, <1>5, <1>6, <1>7, <1>8, CallFacts DEF d

LEMMA PrependFacts ==
  ASSUME NEW c \in Calls, Args(c) < MaxArguments
  PROVE  /\ Prepend(c) \in Calls /\ Measure(Prepend(c)) < Measure(c)
         /\ Args(Prepend(c)) = Args(c) + 1
         /\ Len(Prepend(c).current) = Len(c.current) + 1
         /\ Prepend(c).current[1] = c.index
         /\ \A i \in 2 .. Len(c.current) + 1 : Prepend(c).current[i] = c.current[i - 1]
<1> DEFINE d == Prepend(c)
           list == <<c.index>> \o c.current
           q == (TypeCount - c.index) * (MaxArguments + 1)
<1>1. /\ d.head = c.head /\ d.current = list /\ d.index = c.index
      /\ d = [head |-> c.head, current |-> list, index |-> c.index, create |-> TRUE]
  BY DEF Prepend
<1>2. /\ list \in Seq(Types) /\ Len(list) = Len(c.current) + 1
      /\ list[1] = c.index
      /\ \A i \in 2 .. Len(c.current) + 1 : list[i] = c.current[i - 1]
  BY CallFacts, OneMore
<1> HIDE DEF list
<1>3. d \in Calls
  BY <1>1, <1>2, CallFacts DEF Calls
<1>4. Args(d) = Args(c) + 1
  <2>1. \A u, v \in Seq(Types) : Len(u \o v) = Len(u) + Len(v)
    BY ConcatProperties
  <2>2. \A u, v, w \in Seq(Types) : Len(w) = Len(v) + 1 => Len(u \o w) = Len(u \o v) + 1
    BY <2>1
  <2> DEFINE u == c.head
             v == c.current
  <2>3. u \in Seq(Types) /\ v \in Seq(Types) /\ list \in Seq(Types) /\ Len(list) = Len(v) + 1
    BY <1>2, CallFacts
  <2>4. Args(c) = Len(u \o v) /\ Args(d) = Len(u \o list)
    BY <1>1 DEF Args
  <2> HIDE DEF u, v
  <2> QED
    BY <2>2, <2>3, <2>4
<1> HIDE DEF d
<1>5. Measure(d) < Measure(c)
  <2>1. q \in Nat /\ MaxArguments \in Nat /\ Args(c) \in Nat
    BY CallFacts, SignatureAssumption
  <2>2. Measure(c) = q + (MaxArguments - Args(c))
    BY DEF Measure
  <2>3. Measure(d) = IF Args(c) + 1 < MaxArguments
                     THEN q + (MaxArguments - (Args(c) + 1)) ELSE 0
    BY <1>1, <1>4 DEF Measure
  <2> HIDE DEF q
  <2> QED
    BY <2>1, <2>2, <2>3
<1> QED
  BY <1>1, <1>2, <1>3, <1>4, <1>5 DEF d

LEMMA TraversedSame ==
  ASSUME NEW c \in Calls, NEW g, NEW h,
         \A d \in Calls : Measure(d) < Measure(c) => g[d] = h[d]
  PROVE  Traversed(g, c) = Traversed(h, c)
<1>1. Args(c) < MaxArguments /\ c.index < TypeCount => g[NextType(c)] = h[NextType(c)]
  BY NextTypeFacts
<1>2. Args(c) < MaxArguments => g[Prepend(c)] = h[Prepend(c)]
  BY PrependFacts
<1> QED
  BY <1>1, <1>2 DEF Traversed, Args

\* As with Power: traverse on the smaller calls is a function of its own, and
\* any two such functions agree, so that a function traverse exists.
Smaller(n) == {c \in Calls : Measure(c) < n}
IsTraverse(g, n) == g = [c \in Smaller(n) |-> Traversed(g, c)]

LEMMA TraverseExists == \A n \in Nat : \E g : IsTraverse(g, n)
<1> DEFINE S == {n \in Nat : \E g : IsTraverse(g, n)}
<1>1. 0 \in S
  <2> DEFINE g == [c \in Smaller(0) |-> <<>>]
  <2>1. Smaller(0) = {}
    BY CallFacts DEF Smaller
  <2>2. IsTraverse(g, 0)
    BY <2>1 DEF IsTraverse
  <2> QED
    BY <2>2
<1>2. ASSUME NEW n \in Nat, n \in S
      PROVE  n + 1 \in S
  <2>1. PICK g : IsTraverse(g, n)
    BY <1>2
  <2> DEFINE h == [c \in Smaller(n + 1) |-> Traversed(g, c)]
  <2>2. ASSUME NEW c \in Smaller(n + 1)
        PROVE  Traversed(g, c) = Traversed(h, c)
    <3>1. ASSUME NEW d \in Calls, Measure(d) < Measure(c)
          PROVE  g[d] = h[d]
      <4>1. c \in Calls /\ Measure(c) \in Nat /\ Measure(d) \in Nat /\ Measure(c) < n + 1
        BY CallFacts DEF Smaller
      <4>2. d \in Smaller(n) /\ d \in Smaller(n + 1)
        BY <3>1, <4>1 DEF Smaller
      <4>3. g[d] = Traversed(g, d)
        BY <2>1, <4>2 DEF IsTraverse
      <4> QED
        BY <4>2, <4>3
    <3> HIDE DEF h
    <3>2. c \in Calls
      BY DEF Smaller
    <3> QED
      BY <3>1, <3>2, TraversedSame
  <2>3. IsTraverse(h, n + 1)
    <3>1. h = [c \in Smaller(n + 1) |-> Traversed(h, c)]
      BY <2>2
    <3> HIDE DEF h
    <3> QED
      BY <3>1 DEF IsTraverse
  <2> HIDE DEF h
  <2> QED
    BY <2>3
<1> HIDE DEF S
<1>3. Nat \subseteq S
  BY <1>1, <1>2, NatSetInduction
<1> QED
  BY <1>3 DEF S

LEMMA TraverseUnique ==
  ASSUME NEW n \in Nat, NEW m \in Nat, n <= m, NEW g, NEW h,
         IsTraverse(g, n), IsTraverse(h, m)
  PROVE  \A c \in Smaller(n) : g[c] = h[c]
<1> DEFINE S == {k \in Nat : \A c \in Smaller(n) : Measure(c) < k => g[c] = h[c]}
<1>1. 0 \in S
  BY CallFacts DEF Smaller
<1>2. ASSUME NEW k \in Nat, k \in S
      PROVE  k + 1 \in S
  <2>1. ASSUME NEW c \in Smaller(n), Measure(c) < k + 1
        PROVE  g[c] = h[c]
    <3>1. c \in Calls /\ Measure(c) \in Nat /\ Measure(c) < n /\ c \in Smaller(m)
      BY CallFacts DEF Smaller
    <3>2. ASSUME NEW d \in Calls, Measure(d) < Measure(c)
          PROVE  g[d] = h[d]
      <4>1. d \in Smaller(n) /\ Measure(d) < k
        BY <2>1, <3>1, <3>2, CallFacts DEF Smaller
      <4> QED
        BY <1>2, <4>1
    <3>3. Traversed(g, c) = Traversed(h, c)
      BY <3>1, <3>2, TraversedSame
    <3>4. g[c] = Traversed(g, c)
      BY DEF IsTraverse
    <3>5. h[c] = Traversed(h, c)
      BY <3>1 DEF IsTraverse
    <3> QED
      BY <3>3, <3>4, <3>5
  <2> QED
    BY <2>1
<1> HIDE DEF S
<1>3. Nat \subseteq S
  BY <1>1, <1>2, NatSetInduction
<1>4. n \in S
  BY <1>3
<1> QED
  BY <1>4 DEF S, Smaller

LEMMA TraverseDef == \A c \in Calls : traverse[c] = Traversed(traverse, c)
<1> DEFINE F(g) == [c \in Calls |-> Traversed(g, c)]
           G(n) == CHOOSE g : IsTraverse(g, n)
           f == [c \in Calls |-> G(Measure(c) + 1)[c]]
<1>1. \A n \in Nat : IsTraverse(G(n), n)
  BY TraverseExists
<1> HIDE DEF G
<1>2. ASSUME NEW c \in Calls
      PROVE  f[c] = Traversed(f, c)
  <2> DEFINE n == Measure(c) + 1
  <2>1. Measure(c) \in Nat /\ n \in Nat
    BY CallFacts
  <2>2. G(n)[c] = Traversed(G(n), c)
    <3>1. c \in Smaller(n)
      BY <2>1 DEF Smaller
    <3> QED
      BY <1>1, <2>1, <3>1 DEF IsTraverse
  <2>3. ASSUME NEW d \in Calls, Measure(d) < Measure(c)
        PROVE  G(n)[d] = f[d]
    <3>1. Measure(d) \in Nat /\ Measure(d) + 1 \in Nat /\ Measure(d) + 1 <= n
      BY <2>1, <2>3, CallFacts
    <3>2. d \in Smaller(Measure(d) + 1)
      BY <3>1 DEF Smaller
    <3>3. IsTraverse(G(n), n) /\ IsTraverse(G(Measure(d) + 1), Measure(d) + 1)
      BY <1>1, <2>1, <3>1
    <3> HIDE DEF n
    <3>4. G(Measure(d) + 1)[d] = G(n)[d]
      BY <2>1, <3>1, <3>2, <3>3, TraverseUnique
    <3> QED
      BY <3>4
  <2> HIDE DEF n, f
  <2>4. Traversed(G(n), c) = Traversed(f, c)
    BY <2>3, TraversedSame
  <2>5. f[c] = G(n)[c]
    BY DEF f, n
  <2> QED
    BY <2>2, <2>4, <2>5
<1>3. f = F(f)
  BY <1>2
<1> HIDE DEF f
<1>4. traverse = CHOOSE g : g = F(g)
  BY DEF traverse
<1> HIDE DEF F
<1>5. traverse = F(traverse)
  BY <1>3, <1>4
<1> QED
  BY <1>5 DEF F

-----------------------------------------------------------------------------
(* Lists *)

\* A sequence that lists each element of a set once.
Lists(s, S) ==
    /\ s \in Seq(S)
    /\ \A x \in S : \E i \in 1 .. Len(s) : s[i] = x
    /\ \A i, j \in 1 .. Len(s) : s[i] = s[j] => i = j

LEMMA ListsConcat ==
  ASSUME NEW S, NEW T, NEW s, NEW t, Lists(s, S), Lists(t, T), S \cap T = {}
  PROVE  Lists(s \o t, S \cup T)
<1> DEFINE u == s \o t
           m == Len(s)
           n == Len(t)
<1>1. s \in Seq(S) /\ t \in Seq(T) /\ m \in Nat /\ n \in Nat
  BY DEF Lists
<1>2. s \in Seq(S \cup T) /\ t \in Seq(S \cup T)
  BY <1>1
<1>3. /\ u \in Seq(S \cup T) /\ Len(u) = m + n
      /\ \A i \in 1 .. m + n : u[i] = IF i <= m THEN s[i] ELSE t[i - m]
  BY <1>2, ConcatProperties
<1>4. /\ \A i \in 1 .. m : s[i] \in S
      /\ \A x \in S : \E i \in 1 .. m : s[i] = x
      /\ \A i, j \in 1 .. m : s[i] = s[j] => i = j
  BY <1>1 DEF Lists
<1>5. /\ \A i \in 1 .. n : t[i] \in T
      /\ \A x \in T : \E i \in 1 .. n : t[i] = x
      /\ \A i, j \in 1 .. n : t[i] = t[j] => i = j
  BY <1>1 DEF Lists
<1> HIDE DEF u, m, n
<1>6. \A i \in 1 .. m : i \in 1 .. m + n /\ u[i] = s[i]
  BY <1>1, <1>3
<1>7. \A i \in 1 .. n : m + i \in 1 .. m + n /\ u[m + i] = t[i]
  <2> TAKE i \in 1 .. n
  <2>1. m + i \in 1 .. m + n /\ ~(m + i <= m) /\ (m + i) - m = i
    BY <1>1
  <2> QED
    BY <1>3, <2>1
<1>8. \A k \in 1 .. m + n : k \in 1 .. m \/ \E i \in 1 .. n : k = m + i
  <2> TAKE k \in 1 .. m + n
  <2>1. CASE k <= m
    BY <1>1, <2>1
  <2>2. CASE ~(k <= m)
    <3>1. k - m \in 1 .. n /\ k = m + (k - m)
      BY <1>1, <2>2
    <3> QED
      BY <3>1
  <2> QED
    BY <2>1, <2>2
<1>9. \A x \in S \cup T : \E k \in 1 .. m + n : u[k] = x
  <2> TAKE x \in S \cup T
  <2>1. CASE x \in S
    <3>1. PICK i \in 1 .. m : s[i] = x
      BY <1>4, <2>1
    <3> QED
      BY <1>6, <3>1
  <2>2. CASE x \in T
    <3>1. PICK i \in 1 .. n : t[i] = x
      BY <1>5, <2>2
    <3> QED
      BY <1>7, <3>1
  <2> QED
    BY <2>1, <2>2
<1>10. ASSUME NEW k \in 1 .. m + n, NEW l \in 1 .. m + n, u[k] = u[l]
       PROVE  k = l
  <2>1. CASE k \in 1 .. m /\ l \in 1 .. m
    BY <1>4, <1>6, <1>10, <2>1
  <2>2. CASE k \in 1 .. m /\ \E i \in 1 .. n : l = m + i
    BY <1>4, <1>5, <1>6, <1>7, <1>10, <2>2
  <2>3. CASE l \in 1 .. m /\ \E i \in 1 .. n : k = m + i
    <3>1. PICK i \in 1 .. n : k = m + i
      BY <2>3
    <3>2. u[l] \in S /\ u[k] \in T
      BY <1>4, <1>5, <1>6, <1>7, <2>3, <3>1
    <3> QED
      BY <1>10, <3>2
  <2>4. CASE (\E i \in 1 .. n : k = m + i) /\ \E i \in 1 .. n : l = m + i
    BY <1>5, <1>7, <1>10, <2>4
  <2> QED
    BY <1>8, <2>1, <2>2, <2>3, <2>4
<1>11. Lists(u, S \cup T)
  BY <1>3, <1>9, <1>10 DEF Lists
<1> QED
  BY <1>11 DEF u

LEMMA ListsOne ==
  ASSUME NEW x
  PROVE  Lists(<<x>>, {x})
<1>1. <<x>> \in Seq({x}) /\ Len(<<x>>) = 1 /\ <<x>>[1] = x
  OBVIOUS
<1> QED
  BY <1>1 DEF Lists

LEMMA ListsNothing == Lists(<<>>, {})
<1>1. <<>> \in Seq({}) /\ Len(<<>>) = 0
  OBVIOUS
<1> QED
  BY <1>1 DEF Lists

-----------------------------------------------------------------------------
(* What is generated *)

\* The lists of at least so many arguments that go on after total with types
\* from index on, in order.
Continued(total, index, least) ==
    {list \in Seq(Types) :
       /\ Len(list) <= MaxArguments /\ least <= Len(list)
       /\ \A i \in 1 .. Len(total) : list[i] = total[i]
       /\ \A i \in Len(total) + 1 .. Len(list) : list[i] >= index
       /\ \A i, j \in Len(total) + 1 .. Len(list) : i < j => list[i] <= list[j]}

Here(total, least) == IF least = Len(total) THEN {total} ELSE {}
WithNextType(total, index) ==
    IF index < TypeCount THEN Continued(total, index + 1, Len(total) + 1) ELSE {}
OneLonger(longer, total, index) ==
    /\ longer \in Seq(Types) /\ Len(longer) = Len(total) + 1
    /\ \A i \in 1 .. Len(total) : longer[i] = total[i]
    /\ longer[Len(total) + 1] = index

\* What goes on after total ends there, goes on with a later type, or has one
\* argument of this type more: the three parts traverse concatenates.
LEMMA ContinuedByNext ==
  ASSUME NEW total \in Seq(Types), Len(total) < MaxArguments, NEW index \in Types,
         NEW least, least = Len(total) \/ least = Len(total) + 1,
         NEW longer, OneLonger(longer, total, index)
  PROVE  /\ Continued(total, index, least)
              = Here(total, least)
                  \cup (WithNextType(total, index) \cup Continued(longer, index, Len(longer)))
         /\ WithNextType(total, index) \cap Continued(longer, index, Len(longer)) = {}
         /\ Here(total, least)
              \cap (WithNextType(total, index) \cup Continued(longer, index, Len(longer))) = {}
<1> DEFINE n == Len(total)
           all == Continued(total, index, least)
           here == Here(total, least)
           next == WithNextType(total, index)
           more == Continued(longer, index, Len(longer))
<1> USE DEF Here, WithNextType
<1>1. /\ longer \in Seq(Types) /\ Len(longer) = Len(total) + 1
      /\ \A i \in 1 .. Len(total) : longer[i] = total[i]
      /\ longer[Len(total) + 1] = index
  BY DEF OneLonger
<1>2. n \in Nat /\ MaxArguments \in Nat /\ TypeCount \in Nat /\ index \in Nat
  BY SignatureAssumption DEF Types
<1>3. \A list \in Seq(Types) : Len(list) \in Nat /\ \A i \in 1 .. Len(list) : list[i] \in Nat /\ list[i] <= TypeCount
  BY <1>2 DEF Types
<1>4. here \subseteq all
  BY <1>2 DEF Continued
<1>5. next \subseteq all
  <2> SUFFICES ASSUME NEW list \in Continued(total, index + 1, n + 1)
               PROVE  list \in all
    OBVIOUS
  <2>1. \A i \in n + 1 .. Len(list) : list[i] >= index + 1 /\ list[i] \in Nat
    BY <1>2, <1>3 DEF Continued
  <2>2. \A i \in n + 1 .. Len(list) : list[i] >= index
    BY <1>2, <2>1
  <2> QED
    BY <2>2 DEF Continued
<1>6. more \subseteq all
  <2> SUFFICES ASSUME NEW list \in more
               PROVE  list \in all
    OBVIOUS
  <2>1. /\ list \in Seq(Types) /\ Len(list) <= MaxArguments /\ n + 1 <= Len(list)
        /\ \A i \in 1 .. n + 1 : list[i] = longer[i]
        /\ \A i \in n + 2 .. Len(list) : list[i] >= index
        /\ \A i, j \in n + 2 .. Len(list) : i < j => list[i] <= list[j]
    BY <1>1, <1>2 DEF Continued
  <2>2. Len(list) \in Nat
    OBVIOUS
  <2>3. list[n + 1] = index
    BY <1>1, <1>2, <2>1
  <2>4. \A i \in 1 .. n : list[i] = total[i]
    BY <1>1, <1>2, <2>1
  <2>5. \A i \in n + 1 .. Len(list) : i = n + 1 \/ i \in n + 2 .. Len(list)
    BY <1>2, <2>2
  <2>6. \A i \in n + 1 .. Len(list) : list[i] >= index
    BY <1>2, <2>1, <2>3, <2>5
  <2>7. ASSUME NEW i \in n + 1 .. Len(list), NEW j \in n + 1 .. Len(list), i < j
        PROVE  list[i] <= list[j]
    <3>1. CASE i = n + 1
      BY <2>3, <2>6, <3>1
    <3>2. CASE i \in n + 2 .. Len(list)
      <4>1. j \in n + 2 .. Len(list)
        BY <1>2, <2>2, <2>7, <3>2
      <4> QED
        BY <2>1, <2>7, <3>2, <4>1
    <3> QED
      BY <2>5, <3>1, <3>2
  <2> QED
    BY <1>2, <2>1, <2>2, <2>4, <2>6, <2>7 DEF Continued
<1>7. ASSUME NEW list \in all
      PROVE  list \in here \cup (next \cup more)
  <2>1. /\ list \in Seq(Types) /\ Len(list) <= MaxArguments /\ n <= Len(list)
        /\ least <= Len(list)
        /\ \A i \in 1 .. n : list[i] = total[i]
        /\ \A i \in n + 1 .. Len(list) : list[i] >= index
        /\ \A i, j \in n + 1 .. Len(list) : i < j => list[i] <= list[j]
    BY <1>7 DEF Continued
  <2>2. Len(list) \in Nat
    BY <2>1
  <2>3. CASE Len(list) = n
    <3>1. \A i \in 1 .. Len(list) : list[i] = total[i]
      BY <2>1, <2>3
    <3>2. list = total
      BY <2>1, <2>3, <3>1, SeqEqual
    <3>3. least = n
      BY <1>2, <2>1, <2>3
    <3> QED
      BY <3>2, <3>3
  <2>4. CASE Len(list) > n /\ list[n + 1] = index
    <3>1. \A i \in 1 .. n + 1 : i \in 1 .. n \/ i = n + 1
      BY <1>2
    <3>2. \A i \in 1 .. n + 1 : list[i] = longer[i]
      BY <1>1, <2>1, <2>4, <3>1
    <3>3. \A i \in n + 2 .. Len(list) : i \in n + 1 .. Len(list)
      BY <1>2, <2>2
    <3>4. n + 1 <= Len(list) /\ (n + 1) + 1 = n + 2
      BY <1>2, <2>2, <2>4
    <3> QED
      BY <1>1, <1>2, <2>1, <3>2, <3>3, <3>4 DEF Continued
  <2>5. CASE Len(list) > n /\ list[n + 1] # index
    <3>1. n + 1 \in n + 1 .. Len(list) /\ n + 1 \in 1 .. Len(list)
      BY <1>2, <2>2, <2>5
    <3>2. list[n + 1] >= index + 1 /\ list[n + 1] \in Nat /\ list[n + 1] <= TypeCount
      BY <1>2, <1>3, <2>1, <2>5, <3>1
    <3>3. index < TypeCount
      BY <1>2, <3>2
    <3>4. ASSUME NEW i \in n + 1 .. Len(list)
          PROVE  list[i] >= index + 1
      <4>1. i = n + 1 \/ n + 1 < i
        BY <1>2, <2>2
      <4>2. list[n + 1] <= list[i] /\ list[i] \in Nat
        <5>1. i \in 1 .. Len(list)
          BY <1>2, <2>2
        <5> QED
          BY <1>3, <2>1, <3>1, <3>2, <4>1, <5>1
      <4> QED
        BY <1>2, <3>2, <4>2
    <3> QED
      BY <2>1, <2>5, <3>3, <3>4 DEF Continued
  <2>6. Len(list) = n \/ Len(list) > n
    BY <1>2, <2>1, <2>2
  <2> QED
    BY <2>3, <2>4, <2>5, <2>6
<1>8. \A list \in next : n + 1 \in 1 .. Len(list) /\ list[n + 1] >= index + 1 /\ list # total
  <2> SUFFICES ASSUME NEW list \in Continued(total, index + 1, n + 1)
               PROVE  n + 1 \in 1 .. Len(list) /\ list[n + 1] >= index + 1 /\ list # total
    OBVIOUS
  <2>1. /\ list \in Seq(Types) /\ n < Len(list)
        /\ \A i \in n + 1 .. Len(list) : list[i] >= index + 1
    BY DEF Continued
  <2>2. Len(list) \in Nat
    BY <2>1
  <2> QED
    BY <1>2, <2>1, <2>2
<1>9. \A list \in more : list[n + 1] = index /\ list # total
  <2> SUFFICES ASSUME NEW list \in more
               PROVE  list[n + 1] = index /\ list # total
    OBVIOUS
  <2>1. /\ list \in Seq(Types) /\ n + 1 <= Len(list)
        /\ \A i \in 1 .. n + 1 : list[i] = longer[i]
    BY <1>1 DEF Continued
  <2> QED
    BY <1>1, <1>2, <2>1
<1>10. next \cap more = {}
  <2>1. ~(index >= index + 1)
    BY <1>2
  <2> QED
    BY <1>8, <1>9, <2>1
<1>11. here \cap (next \cup more) = {}
  BY <1>8, <1>9
<1> QED
  BY <1>4, <1>5, <1>6, <1>7, <1>10, <1>11

LEMMA ContinuedEnd ==
  ASSUME NEW total \in Seq(Types), Len(total) = MaxArguments, NEW index,
         NEW least, least = Len(total) \/ least = Len(total) + 1
  PROVE  Continued(total, index, least) = IF least = Len(total) THEN {total} ELSE {}
<1>1. ASSUME NEW list \in Continued(total, index, least)
      PROVE  least = Len(total) /\ list = total
  <2>1. /\ list \in Seq(Types) /\ Len(list) <= MaxArguments /\ least <= Len(list)
        /\ \A i \in 1 .. Len(total) : list[i] = total[i]
    BY <1>1 DEF Continued
  <2>2. Len(list) = Len(total) /\ least = Len(total)
    BY <2>1, SignatureAssumption
  <2> QED
    BY <2>1, <2>2, SeqEqual
<1>2. least = Len(total) => total \in Continued(total, index, least)
  BY SignatureAssumption DEF Continued
<1> QED
  BY <1>1, <1>2

\* A call has been reached with arguments of its own type in current only.
Regular(c) ==
    /\ c \in Calls /\ Args(c) <= MaxArguments
    /\ \A i \in 1 .. Len(c.current) : c.current[i] = c.index
Least(c) == IF c.create THEN Args(c) ELSE Args(c) + 1
ToGenerate(c) == Continued(c.head \o c.current, c.index, Least(c))

LEMMA PrependRegular ==
  ASSUME NEW c, Regular(c), Args(c) < MaxArguments
  PROVE  LET total == c.head \o c.current
             longer == Prepend(c).head \o Prepend(c).current
         IN  /\ Regular(Prepend(c)) /\ Len(c.current) < MaxArguments
             /\ OneLonger(longer, total, c.index)
<1> DEFINE d == Prepend(c)
           head == c.head
           current == c.current
           next == d.current
           m == Len(head)
           n == Len(current)
           total == head \o current
           longer == head \o next
<1>1. /\ c \in Calls /\ head \in Seq(Types) /\ current \in Seq(Types)
      /\ \A i \in 1 .. n : current[i] = c.index
  BY CallFacts DEF Regular
<1>2. /\ d \in Calls /\ Len(next) = n + 1 /\ next[1] = c.index
      /\ Args(d) = Args(c) + 1 /\ Args(c) \in Nat
      /\ \A i \in 2 .. n + 1 : next[i] = current[i - 1]
  BY <1>1, PrependFacts, CallFacts
<1>3. d.head = head /\ d.index = c.index /\ next \in Seq(Types)
  <2>1. d.head = head /\ d.index = c.index
    BY DEF Prepend
  <2>2. next \in Seq(Types)
    BY <1>2, CallFacts
  <2> QED
    BY <2>1, <2>2
<1>4. Args(c) = Len(total) /\ Args(d) = Len(longer)
  BY <1>3 DEF Args
<1> HIDE DEF d, head, current, next
<1>5. m \in Nat /\ n \in Nat
  BY <1>1
<1>6. /\ total \in Seq(Types) /\ Len(total) = m + n
      /\ \A i \in 1 .. m + n : total[i] = IF i <= m THEN head[i] ELSE current[i - m]
  BY <1>1, ConcatProperties
<1>7. /\ longer \in Seq(Types) /\ Len(longer) = m + (n + 1)
      /\ \A i \in 1 .. m + (n + 1) : longer[i] = IF i <= m THEN head[i] ELSE next[i - m]
  <2>1. /\ longer \in Seq(Types) /\ Len(longer) = m + Len(next)
        /\ \A i \in 1 .. m + Len(next) :
             longer[i] = IF i <= m THEN head[i] ELSE next[i - m]
    BY <1>1, <1>3, ConcatProperties
  <2> HIDE DEF longer, m, n
  <2> QED
    BY <1>2, <2>1
<1>8. \A i \in 1 .. n + 1 : next[i] = c.index
  <2> TAKE i \in 1 .. n + 1
  <2>1. CASE i = 1
    BY <1>2, <2>1
  <2>2. CASE i \in 2 .. n + 1
    <3>1. i - 1 \in 1 .. n
      BY <1>5, <2>2
    <3> QED
      BY <1>1, <1>2, <2>2, <3>1
  <2> QED
    BY <1>5, <2>1, <2>2
<1> HIDE DEF m, n, total, longer
<1>9. ASSUME NEW i \in 1 .. m + n
      PROVE  longer[i] = total[i]
  <2>1. i \in 1 .. m + (n + 1)
    BY <1>5
  <2>2. CASE i <= m
    BY <1>6, <1>7, <2>1, <2>2
  <2>3. CASE ~(i <= m)
    <3>1. i - m \in 1 .. n /\ i - m \in 1 .. n + 1
      BY <1>5, <2>3
    <3>2. total[i] = current[i - m] /\ longer[i] = next[i - m]
      BY <1>6, <1>7, <2>1, <2>3
    <3> QED
      BY <1>1, <1>8, <3>1, <3>2 DEF n
  <2> QED
    BY <2>2, <2>3
<1>10. longer[m + n + 1] = c.index
  <2>1. m + n + 1 \in 1 .. m + (n + 1) /\ ~(m + n + 1 <= m) /\ (m + n + 1) - m = n + 1
        /\ n + 1 \in 1 .. n + 1
    BY <1>5
  <2>2. longer[m + n + 1] = next[n + 1]
    BY <1>7, <2>1
  <2> QED
    BY <1>8, <2>1, <2>2
<1>11. n < MaxArguments
  BY <1>4, <1>5, <1>6, SignatureAssumption
<1>12. Regular(d)
  <2>1. Args(d) <= MaxArguments
    BY <1>2, SignatureAssumption
  <2>2. \A i \in 1 .. Len(next) : next[i] = d.index
    BY <1>2, <1>3, <1>8 DEF n
  <2> QED
    BY <1>2, <2>1, <2>2 DEF Regular, next
<1>13. Len(longer) = Len(total) + 1
  BY <1>5, <1>6, <1>7
<1>14. OneLonger(longer, total, c.index)
  BY <1>5, <1>6, <1>7, <1>9, <1>10, <1>13 DEF OneLonger
<1>15. longer = d.head \o d.current
  BY <1>3 DEF longer, next
<1> QED
  BY <1>11, <1>12, <1>14, <1>15 DEF d, total, n, head, current

\* A call generates each list that goes on after its arguments once, if the
\* calls it makes do.
LEMMA TraverseStep ==
  ASSUME NEW c, Regular(c),
         \A d \in Calls : Regular(d) /\ Measure(d) < Measure(c) =>
           Lists(traverse[d], ToGenerate(d))
  PROVE  Lists(traverse[c], ToGenerate(c))
<1> DEFINE total == c.head \o c.current
           one == IF c.create THEN <<total>> ELSE <<>>
           here == Here(total, Least(c))
           n == NextType(c)
           p == Prepend(c)
<1>1. c \in Calls /\ c.create \in BOOLEAN /\ c.index \in Types /\ total \in Seq(Types)
  BY CallFacts DEF Regular
<1>2. Args(c) = Len(total)
  BY DEF Args
<1>3. /\ Least(c) = Len(total) \/ Least(c) = Len(total) + 1
      /\ Lists(one, here)
  <2> HIDE DEF total
  <2>1. Len(total) \in Nat /\ Len(total) # Len(total) + 1
    BY <1>1
  <2>2. CASE c.create
    BY <1>2, <2>2, ListsOne DEF Least, Here
  <2>3. CASE ~c.create
    <3>1. Least(c) = Len(total) + 1
      BY <1>2, <2>3 DEF Least
    <3>2. one = <<>>
      BY <2>3
    <3> HIDE DEF one
    <3>3. here = {}
      BY <2>1, <3>1 DEF Here
    <3> QED
      BY <3>1, <3>2, <3>3, ListsNothing
  <2> QED
    BY <2>2, <2>3
<1> HIDE DEF total, one, here
<1>4. CASE Args(c) < MaxArguments
  <2> DEFINE ns == IF c.index < TypeCount THEN traverse[n] ELSE <<>>
             ps == traverse[p]
             next == WithNextType(total, c.index)
             longer == p.head \o p.current
             more == Continued(longer, c.index, Len(longer))
  <2>1. Lists(ns, next)
    <3>1. CASE c.index < TypeCount
      <4>1. /\ n \in Calls /\ Measure(n) < Measure(c) /\ n.head \o n.current = total
        BY <1>1, <1>4, <3>1, NextTypeFacts DEF total
      <4>2. n.current = <<>> /\ n.index = c.index + 1 /\ n.create = FALSE
        BY DEF NextType
      <4>3. Args(n) = Args(c)
        BY <1>2, <4>1 DEF Args
      <4>4. Regular(n)
        <5>1. Len(n.current) = 0
          BY <4>2
        <5>2. Args(n) <= MaxArguments
          BY <4>3 DEF Regular
        <5> QED
          BY <4>1, <5>1, <5>2 DEF Regular
      <4>5. Lists(traverse[n], ToGenerate(n))
        BY <4>1, <4>4
      <4>6. ToGenerate(n) = Continued(total, c.index + 1, Len(total) + 1)
        <5>1. Least(n) = Len(total) + 1
          BY <1>2, <4>2, <4>3 DEF Least
        <5> QED
          BY <4>1, <4>2, <5>1 DEF ToGenerate
      <4> QED
        BY <3>1, <4>5, <4>6 DEF WithNextType
    <3>2. CASE ~(c.index < TypeCount)
      BY <3>2, ListsNothing DEF WithNextType
    <3> QED
      BY <3>1, <3>2
  <2>2. /\ Regular(p) /\ Len(c.current) < MaxArguments
        /\ OneLonger(longer, total, c.index)
    BY <1>4, PrependRegular DEF total
  <2>3. Lists(ps, more)
    <3>1. p \in Calls /\ Measure(p) < Measure(c)
      BY <1>1, <1>4, PrependFacts
    <3>2. p.index = c.index /\ p.create = TRUE
      BY DEF Prepend
    <3>3. Lists(traverse[p], ToGenerate(p))
      BY <2>2, <3>1
    <3>4. ToGenerate(p) = more
      <4>1. Least(p) = Len(longer)
        BY <3>2 DEF Least, Args
      <4> QED
        BY <3>2, <4>1 DEF ToGenerate
    <3> QED
      BY <3>3, <3>4
  <2>4. traverse[c] = one \o (ns \o ps)
    <3>1. traverse[c] = Traversed(traverse, c)
      BY <1>1, TraverseDef
    <3> HIDE DEF n, p
    <3> QED
      BY <1>2, <1>4, <2>2, <3>1 DEF Traversed, total, one, n, p
  <2> HIDE DEF ns, ps, longer
  <2>5. /\ ToGenerate(c) = here \cup (next \cup more)
        /\ next \cap more = {} /\ here \cap (next \cup more) = {}
    <3>1. ToGenerate(c) = Continued(total, c.index, Least(c))
      BY DEF ToGenerate, total
    <3>2. Len(total) < MaxArguments
      BY <1>2, <1>4
    <3> QED
      BY <1>1, <1>3, <2>2, <3>1, <3>2, ContinuedByNext DEF here
  <2> HIDE DEF next, more
  <2>6. Lists(ns \o ps, next \cup more)
    BY <2>1, <2>3, <2>5, ListsConcat
  <2>7. Lists(one \o (ns \o ps), here \cup (next \cup more))
    BY <1>3, <2>5, <2>6, ListsConcat
  <2> QED
    BY <2>4, <2>5, <2>7
<1>5. CASE ~(Args(c) < MaxArguments)
  <2>1. Len(total) = MaxArguments
    <3>1. Args(c) \in Nat /\ Args(c) <= MaxArguments
      BY <1>1, CallFacts DEF Regular
    <3> QED
      BY <1>2, <1>5, <3>1, SignatureAssumption
  <2>2. ToGenerate(c) = here
    <3>1. ToGenerate(c) = Continued(total, c.index, Least(c))
      BY DEF ToGenerate, total
    <3> QED
      BY <1>1, <1>3, <2>1, <3>1, ContinuedEnd DEF here, Here
  <2>3. traverse[c] = one \o (<<>> \o <<>>)
    <3>1. traverse[c] = Traversed(traverse, c)
      BY <1>1, TraverseDef
    <3> QED
      BY <1>2, <1>5, <3>1 DEF Traversed, total, one
  <2>4. Lists(<<>> \o <<>>, {} \cup {})
    BY ListsNothing, ListsConcat
  <2>5. Lists(one \o (<<>> \o <<>>), here \cup ({} \cup {}))
    BY <1>3, <2>4, ListsConcat
  <2> QED
    BY <2>2, <2>3, <2>5
<1> QED
  BY <1>4, <1>5

LEMMA TraverseGenerates ==
  ASSUME NEW c, Regular(c)
  PROVE  Lists(traverse[c], ToGenerate(c))
<1> DEFINE S == {k \in Nat : \A d \in Calls : Regular(d) /\ Measure(d) < k =>
                                Lists(traverse[d], ToGenerate(d))}
<1>1. 0 \in S
  BY CallFacts
<1>2. ASSUME NEW k \in Nat, k \in S
      PROVE  k + 1 \in S
  <2>1. ASSUME NEW d \in Calls, Regular(d), Measure(d) < k + 1
        PROVE  Lists(traverse[d], ToGenerate(d))
    <3>1. \A e \in Calls : Measure(e) < Measure(d) => Measure(e) < k
      BY <2>1, CallFacts
    <3> QED
      BY <1>2, <2>1, <3>1, TraverseStep
  <2> QED
    BY <2>1
<1> HIDE DEF S
<1>3. Nat \subseteq S
  BY <1>1, <1>2, NatSetInduction
<1>4. c \in Calls /\ Measure(c) + 1 \in Nat /\ Measure(c) < Measure(c) + 1
  BY CallFacts DEF Regular
<1>5. Measure(c) + 1 \in S
  BY <1>3, <1>4
<1> QED
  BY <1>4, <1>5 DEF S

LEMMA GeneratedLists == Lists(Generated, {list \in Seq(Types) : Supported(list)})
<1> DEFINE c == [head |-> <<>>, current |-> <<>>, index |-> 1, create |-> TRUE]
<1>1. c \in Calls
  BY SignatureAssumption DEF Calls, Types
<1>2. c.head \o c.current = <<>>
  OBVIOUS
<1>3. Args(c) = 0 /\ Len(c.current) = 0
  BY <1>2 DEF Args
<1>4. Regular(c)
  BY <1>1, <1>3, SignatureAssumption DEF Regular
<1>5. ToGenerate(c) = Continued(<<>>, 1, 0)
  BY <1>2, <1>3 DEF ToGenerate, Least
<1>6. Continued(<<>>, 1, 0) = {list \in Seq(Types) : Supported(list)}
  <2>1. Len(<<>>) = 0
    OBVIOUS
  <2>2. \A list \in Seq(Types) :
          Len(list) \in Nat /\ \A i \in 1 .. Len(list) : list[i] >= 1
    <3> SUFFICES ASSUME NEW list \in Seq(Types), NEW i \in 1 .. Len(list)
                 PROVE  list[i] >= 1
      OBVIOUS
    <3>1. list[i] \in Types
      OBVIOUS
    <3> QED
      BY <3>1, SignatureAssumption DEF Types
  <2> QED
    BY <2>1, <2>2, SignatureAssumption DEF Continued, Supported, Ordered
<1>7. Generated = traverse[c]
  BY DEF Generated
<1> HIDE DEF c
<1> QED
  BY <1>4, <1>5, <1>6, <1>7, TraverseGenerates

\* Every list of types that the limit and the order allow is found in one place
\* of map and if-chain, for any number of types, any limit and any division
\* between the two, and no other list is
\* (lua_code_generator_find_signature.lua:129-148, lua_extension.cpp:369-404).
THEOREM SignaturesAreFound == SignaturesSpec => []SignatureFoundOnce
<1>1. ASSUME NEW list \in Seq(Types)
      PROVE  Cardinality(FindSignature(list)) = IF Supported(list) THEN 1 ELSE 0
  <2> DEFINE places == {i \in 1 .. Len(Generated) : Generated[i] = list}
  <2>1. FindSignature(list) = places
    <3>1. \A i, j \in 1 .. Len(Generated) :
            Generated[i] = list /\ Generated[j] = list => (i \in InMap <=> j \in InMap)
      BY DEF InMap
    <3> QED
      BY <3>1 DEF FindSignature, InIfChain, InMap
  <2>2. CASE Supported(list)
    <3>1. PICK i \in 1 .. Len(Generated) : Generated[i] = list
      BY <2>2, GeneratedLists DEF Lists
    <3>2. \A j \in 1 .. Len(Generated) : Generated[j] = list => j = i
      BY <3>1, GeneratedLists DEF Lists
    <3>3. places = {i}
      BY <3>1, <3>2
    <3> HIDE DEF places
    <3> QED
      BY <2>1, <2>2, <3>3, FS_Singleton
  <2>3. CASE ~Supported(list)
    <3>1. \A i \in 1 .. Len(Generated) : Supported(Generated[i])
      BY GeneratedLists DEF Lists
    <3>2. places = {}
      BY <2>3, <3>1
    <3> HIDE DEF places
    <3> QED
      BY <2>1, <2>3, <3>2, FS_EmptySet
  <2> QED
    BY <2>2, <2>3
<1> DEFINE SInv == arguments \in Seq(Types)
<1>2. SignaturesInit => SInv
  BY DEF SignaturesInit
<1>3. SInv /\ [UNCHANGED arguments]_arguments => SInv'
  OBVIOUS
<1>4. SInv => SignatureFoundOnce
  BY <1>1 DEF SignatureFoundOnce
<1> QED
  BY <1>2, <1>3, <1>4, PTL DEF SignaturesSpec
=============================================================================
