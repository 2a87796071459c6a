----------------------------- MODULE PluginProofs -----------------------------
(***************************************************************************)
(* Proofs about the plugin store and the registry: types, user data, the   *)
(* agreement of the map of plugins with the folders and of the cache with  *)
(* the table, and what scans list, for every number of plugins, threads,   *)
(* versions and contents, every depth of nested scans, and calls that      *)
(* overlap.                                                                *)
(***************************************************************************)
EXTENDS PluginRegistry, SequenceTheorems, TLAPS

(***************************************************************************)
(* The inductive invariants                                                *)
(***************************************************************************)
F == Frame \cup RegistryFrame

\* Only the application makes these calls, on an empty stack ...
Bottom == {"backup", "remove", "restore", "write", "merge", "download"}
\* ... and these call nothing that scans.
Leaf == Work \cup {"write", "download"}
Shape ==
    \A t \in Threads : \A i \in 1 .. Len(stack[t]) :
        /\ stack[t][i].at \in Bottom => t = Owner /\ i = 1
        /\ stack[t][i].at \in Leaf => i = Len(stack[t])

\* A call that may take away what is in a folder has a backup of what was
\* stored last, or there is nothing to be kept.
Copying == {"create", "copy", "verify"}
Settled(n) == newest[n] = None \/ n \in risked \/ <<n, newest[n]>> \in backups
WorkSettled ==
    \A t \in Threads : \A x \in FramesOf(t) :
        x.at \in Copying \cup {"remove", "restore"} => Settled(x.name)

\* Without overlapping calls there is one thread in the store; what it starts
\* is as it was read, and what it copies is neither listed nor being started.
OneInside == \A t, u \in Threads : ~Idle(t) /\ ~Idle(u) => t = u
AsRead(x) == folder[x.name] # None /\ folder[x.name].toml = x.version
StartsAsRead(t) == \A x \in FramesOf(t) : x.at = "start" => AsRead(x)
CopiesUnlisted(t) ==
    \A x \in FramesOf(t) : x.at \in Copying =>
        /\ listed[x.name] = None
        /\ \A y \in FramesOf(t) : y.at = "start" => y.name # x.name
\* A folder that a scan has found and taken from its list is listed, or its
\* plugin is being started on top of the scan.
Covered(s, i, n) ==
    \/ n \in s[i].todo
    \/ listed[n] # None
    \/ i < Len(s) /\ s[i + 1].at = "start" /\ s[i + 1].name = n
ScansCover(t) ==
    \A i \in 1 .. Len(stack[t]) :
        stack[t][i].at = "scan" => \A n \in stack[t][i].found : Covered(stack[t], i, n)
Agrees(n) == listed[n] # None => folder[n] # None /\ folder[n].toml \in {listed[n], None}
ThreadInv(t) == StartsAsRead(t) /\ CopiesUnlisted(t) /\ ScansCover(t)

StackInv == TypeOK /\ Shape
DataInv == StackInv /\ WorkSettled /\ DataSafe
VersionInv ==
    /\ StackInv
    /\ ~overlapped => /\ OneInside
                      /\ \A n \in Plugins : Agrees(n)
                      /\ \A t \in Threads : ThreadInv(t)

(***************************************************************************)
(* Stacks                                                                  *)
(***************************************************************************)
LEMMA FrontFacts ==
  ASSUME NEW S, NEW s \in Seq(S), s # <<>>
  PROVE  /\ Len(s) \in Nat /\ Len(s) > 0
         /\ Last(s) = s[Len(s)] /\ Last(s) \in S
         /\ Front(s) \in Seq(S) /\ Len(Front(s)) = Len(s) - 1
         /\ \A i \in 1 .. Len(s) - 1 : Front(s)[i] = s[i]
<1>1. Len(s) \in Nat /\ Len(s) > 0
  BY EmptySeq, LenProperties
<1>2. Last(s) = s[Len(s)] /\ Last(s) \in S
  BY <1>1, ElementOfSeq DEF Last
<1>3. \A i \in 1 .. Len(s) - 1 : s[i] \in S
  BY <1>1, ElementOfSeq
<1>4. /\ SubSeq(s, 1, Len(s) - 1) \in Seq(S)
      /\ Len(SubSeq(s, 1, Len(s) - 1)) =
           IF 1 <= Len(s) - 1 THEN Len(s) - 1 - 1 + 1 ELSE 0
      /\ \A i \in 1 .. Len(s) - 1 - 1 + 1 : SubSeq(s, 1, Len(s) - 1)[i] = s[1 + i - 1]
  BY <1>1, <1>3, SubSeqProperties
<1>5. Front(s) \in Seq(S)
  BY <1>4 DEF Front
<1>6. Len(Front(s)) = Len(s) - 1
  <2> DEFINE n == Len(s)
             m == Len(SubSeq(s, 1, Len(s) - 1))
  <2>1. n \in Nat /\ n > 0 /\ m = IF 1 <= n - 1 THEN n - 1 - 1 + 1 ELSE 0
    BY <1>1, <1>4
  <2> HIDE DEF n, m
  <2>2. m = n - 1
    BY <2>1
  <2> QED
    BY <2>2 DEF n, m, Front
<1>7. \A i \in 1 .. Len(s) - 1 : Front(s)[i] = s[i]
  <2>1. 1 .. Len(s) - 1 - 1 + 1 = 1 .. Len(s) - 1 /\ \A i \in Nat : 1 + i - 1 = i
    BY <1>1
  <2> QED
    BY <1>4, <2>1 DEF Front
<1> QED
  BY <1>1, <1>2, <1>5, <1>6, <1>7

LEMMA StackFacts ==
  ASSUME stack \in [Threads -> Seq(F)], NEW t \in Threads
  PROVE  /\ stack[t] \in Seq(F) /\ Len(stack[t]) \in Nat
         /\ FramesOf(t) \subseteq F
         /\ Idle(t) <=> Len(stack[t]) = 0
         /\ Idle(t) => FramesOf(t) = {}
         /\ ~Idle(t) => Top(t) \in FramesOf(t) /\ Top(t) = stack[t][Len(stack[t])]
<1>1. stack[t] \in Seq(F) /\ Len(stack[t]) \in Nat /\ (Idle(t) <=> Len(stack[t]) = 0)
  BY EmptySeq, LenProperties DEF Idle
<1>2. \A i \in 1 .. Len(stack[t]) : stack[t][i] \in F
  BY <1>1, ElementOfSeq
<1>3. FramesOf(t) \subseteq F
  BY <1>2 DEF FramesOf
<1>4. Idle(t) => FramesOf(t) = {}
  BY <1>1 DEF FramesOf
<1>5. Top(t) = stack[t][Len(stack[t])]
  BY DEF Top, Last
<1>6. ~Idle(t) => Len(stack[t]) \in 1 .. Len(stack[t])
  BY <1>1
<1>7. ~Idle(t) => Top(t) \in FramesOf(t)
  BY <1>5, <1>6 DEF FramesOf
<1> QED
  BY <1>1, <1>3, <1>4, <1>5, <1>7


\* The stack of t keeps k frames; what it has on top of them is of new.
Moves(t, k, new) ==
    /\ stack' \in [Threads -> Seq(F)]
    /\ \A u \in Threads \ {t} : stack'[u] = stack[u]
    /\ Len(stack[t]) \in Nat /\ Len(stack'[t]) \in Nat
    /\ k \in 0 .. Len(stack[t]) /\ k <= Len(stack'[t])
    /\ \A i \in 1 .. k : stack'[t][i] = stack[t][i]
    /\ \A i \in 1 .. Len(stack'[t]) : i > k => stack'[t][i] \in new

LEMMA MovedFrames ==
  ASSUME NEW t \in Threads, NEW k, NEW new, Moves(t, k, new)
  PROVE  /\ FramesOf(t)' \subseteq FramesOf(t) \cup new
         /\ \A u \in Threads \ {t} : FramesOf(u)' = FramesOf(u) /\ Idle(u)' = Idle(u)
<1>1. ASSUME NEW i \in 1 .. Len(stack'[t])
      PROVE  stack'[t][i] \in FramesOf(t) \cup new
  <2>1. i > k \/ (i \in 1 .. k /\ i \in 1 .. Len(stack[t]))
    BY DEF Moves
  <2> QED
    BY <2>1 DEF Moves, FramesOf
<1>2. FramesOf(t)' \subseteq FramesOf(t) \cup new
  BY <1>1 DEF FramesOf
<1> QED
  BY <1>2 DEF Moves, FramesOf, Idle

LEMMA PushFacts ==
  ASSUME stack \in [Threads -> Seq(F)], NEW t \in Threads, NEW x \in F, Push(t, x)
  PROVE  /\ Moves(t, Len(stack[t]), {x})
         /\ Len(stack'[t]) = Len(stack[t]) + 1
         /\ stack'[t][Len(stack[t]) + 1] = x
<1>1. stack[t] \in Seq(F) /\ Len(stack[t]) \in Nat
  BY StackFacts
<1>2. stack' = [stack EXCEPT ![t] = Append(stack[t], x)]
  BY DEF Push, Frames
<1>3. /\ Append(stack[t], x) \in Seq(F)
      /\ Len(Append(stack[t], x)) = Len(stack[t]) + 1
      /\ \A i \in 1 .. Len(stack[t]) : Append(stack[t], x)[i] = stack[t][i]
      /\ Append(stack[t], x)[Len(stack[t]) + 1] = x
  BY <1>1, AppendProperties
<1>4. /\ stack' \in [Threads -> Seq(F)] /\ stack'[t] = Append(stack[t], x)
      /\ \A u \in Threads \ {t} : stack'[u] = stack[u]
  BY <1>2, <1>3
<1>5. \A i \in 1 .. Len(stack'[t]) : i > Len(stack[t]) => i = Len(stack[t]) + 1
  BY <1>1, <1>3, <1>4
<1> QED
  BY <1>1, <1>3, <1>4, <1>5 DEF Moves

LEMMA ReturnFacts ==
  ASSUME stack \in [Threads -> Seq(F)], NEW t \in Threads, ~Idle(t), Return(t)
  PROVE  /\ Moves(t, Len(stack[t]) - 1, {})
         /\ Len(stack'[t]) = Len(stack[t]) - 1
<1>1. stack[t] \in Seq(F) /\ stack[t] # <<>>
  BY StackFacts DEF Idle
<1>2. stack' = [stack EXCEPT ![t] = Front(stack[t])]
  BY DEF Return, Frames
<1>3. /\ Len(stack[t]) \in Nat /\ Len(stack[t]) > 0 /\ Front(stack[t]) \in Seq(F)
      /\ Len(Front(stack[t])) = Len(stack[t]) - 1
      /\ \A i \in 1 .. Len(stack[t]) - 1 : Front(stack[t])[i] = stack[t][i]
  BY <1>1, FrontFacts
<1>4. /\ stack' \in [Threads -> Seq(F)] /\ stack'[t] = Front(stack[t])
      /\ \A u \in Threads \ {t} : stack'[u] = stack[u]
  BY <1>2, <1>3
<1> QED
  BY <1>3, <1>4 DEF Moves

LEMMA GotoFacts ==
  ASSUME stack \in [Threads -> Seq(F)], NEW t \in Threads, ~Idle(t),
         NEW x \in F, Goto(t, x)
  PROVE  /\ Moves(t, Len(stack[t]) - 1, {x})
         /\ Len(stack'[t]) = Len(stack[t])
         /\ stack'[t][Len(stack[t])] = x
<1> DEFINE s == Front(stack[t])
<1>1. stack[t] \in Seq(F) /\ stack[t] # <<>>
  BY StackFacts DEF Idle
<1>2. stack' = [stack EXCEPT ![t] = Append(s, x)]
  BY DEF Goto, Frames
<1>3. /\ Len(stack[t]) \in Nat /\ Len(stack[t]) > 0
      /\ s \in Seq(F) /\ Len(s) = Len(stack[t]) - 1
      /\ \A i \in 1 .. Len(stack[t]) - 1 : s[i] = stack[t][i]
  BY <1>1, FrontFacts
<1> HIDE DEF s
<1>4. /\ Append(s, x) \in Seq(F) /\ Len(Append(s, x)) = Len(s) + 1
      /\ \A i \in 1 .. Len(s) : Append(s, x)[i] = s[i]
      /\ Append(s, x)[Len(s) + 1] = x
  BY <1>3, AppendProperties
<1>5. /\ stack' \in [Threads -> Seq(F)] /\ stack'[t] = Append(s, x)
      /\ \A u \in Threads \ {t} : stack'[u] = stack[u]
  BY <1>2, <1>4
<1>6. Len(s) + 1 = Len(stack[t]) /\ Len(stack'[t]) = Len(stack[t])
  BY <1>3, <1>4, <1>5
<1>7. \A i \in 1 .. Len(stack'[t]) : i > Len(stack[t]) - 1 => i = Len(stack[t])
  BY <1>3, <1>6
<1>8. \A i \in 1 .. Len(stack[t]) - 1 : stack'[t][i] = stack[t][i]
  BY <1>3, <1>4, <1>5
<1> QED
  BY <1>3, <1>4, <1>5, <1>6, <1>7, <1>8 DEF Moves

LEMMA ThrowFacts ==
  ASSUME stack \in [Threads -> Seq(F)], NEW t \in Threads, Throw(t)
  PROVE  Moves(t, 0, {}) /\ Len(stack'[t]) = 0 /\ FramesOf(t)' = {}
<1>1. <<>> \in Seq(F) /\ Len(<<>>) = 0
  BY EmptySeq
<1>2. stack' = [stack EXCEPT ![t] = <<>>]
  BY DEF Throw, Frames
<1>3. /\ stack' \in [Threads -> Seq(F)] /\ stack'[t] = <<>>
      /\ \A u \in Threads \ {t} : stack'[u] = stack[u]
  BY <1>1, <1>2
<1>4. FramesOf(t)' = {}
  BY <1>1, <1>3 DEF FramesOf
<1>5. Len(stack[t]) \in Nat
  BY StackFacts
<1> QED
  BY <1>1, <1>3, <1>4, <1>5 DEF Moves

\* The scan goes on, and the plugin it has found is started on top of it.
LEMMA DescendFacts ==
  ASSUME stack \in [Threads -> Seq(F)], NEW t \in Threads, ~Idle(t),
         NEW x \in F, NEW y \in F, Frames(t, Front(stack[t]) \o <<x, y>>)
  PROVE  /\ Moves(t, Len(stack[t]) - 1, {x, y})
         /\ Len(stack'[t]) = Len(stack[t]) + 1
         /\ stack'[t][Len(stack[t])] = x /\ stack'[t][Len(stack[t]) + 1] = y
<1> DEFINE s == Front(stack[t])
           z == <<x, y>>
           m == Len(stack[t])
<1>1. stack[t] \in Seq(F) /\ stack[t] # <<>>
  BY StackFacts DEF Idle
<1>2. stack' = [stack EXCEPT ![t] = s \o z]
  BY DEF Frames
<1>3. /\ m \in Nat /\ m > 0 /\ s \in Seq(F) /\ Len(s) = m - 1
      /\ \A i \in 1 .. m - 1 : s[i] = stack[t][i]
  BY <1>1, FrontFacts
<1>4. z \in Seq(F) /\ Len(z) = 2 /\ z[1] = x /\ z[2] = y
  OBVIOUS
<1> HIDE DEF s, z, m
<1>5. /\ s \o z \in Seq(F) /\ Len(s \o z) = Len(s) + Len(z)
      /\ \A i \in 1 .. Len(s) + Len(z) :
           (s \o z)[i] = IF i <= Len(s) THEN s[i] ELSE z[i - Len(s)]
  BY <1>3, <1>4, ConcatProperties
<1>6. /\ stack' \in [Threads -> Seq(F)] /\ stack'[t] = s \o z
      /\ \A u \in Threads \ {t} : stack'[u] = stack[u]
  BY <1>2, <1>5
<1>7. Len(s) + Len(z) = m + 1 /\ Len(stack'[t]) = m + 1
  BY <1>3, <1>4, <1>5, <1>6
<1>8. \A i \in 1 .. m + 1 : stack'[t][i] = IF i <= m - 1 THEN s[i] ELSE z[i - (m - 1)]
  BY <1>3, <1>5, <1>6, <1>7
<1>9. m \in 1 .. m + 1 /\ ~(m <= m - 1) /\ m - (m - 1) = 1
  BY <1>3
<1>10. m + 1 \in 1 .. m + 1 /\ ~(m + 1 <= m - 1) /\ m + 1 - (m - 1) = 2
  BY <1>3
<1>11. stack'[t][m] = x /\ stack'[t][m + 1] = y
  BY <1>4, <1>8, <1>9, <1>10
<1>12. \A i \in 1 .. m - 1 : i \in 1 .. m + 1 /\ i <= m - 1
  BY <1>3
<1>13. \A i \in 1 .. m - 1 : stack'[t][i] = stack[t][i]
  BY <1>3, <1>8, <1>12
<1>14. \A i \in 1 .. m + 1 : i > m - 1 => i = m \/ i = m + 1
  BY <1>3
<1>15. \A i \in 1 .. m + 1 : i > m - 1 => stack'[t][i] \in {x, y}
  BY <1>11, <1>14
<1> QED
  BY <1>3, <1>6, <1>7, <1>11, <1>13, <1>15 DEF Moves, m

(***************************************************************************)
(* What steps do to the stack of their thread                              *)
(***************************************************************************)
Pushes(t, x) ==
    /\ x \in F
    /\ Idle(t) \/ Top(t).at \in {"start", "merge"}
    /\ x.at \in Bottom => Idle(t) /\ t = Owner
    /\ Push(t, x)
GoesTo(t, x) ==
    /\ x \in F /\ x.at \notin {"scan", "start"}
    /\ ~Idle(t) /\ Top(t).at \in Leaf
    /\ x.at \in Bottom => Top(t).at \in Bottom
    /\ Goto(t, x)
Returns(t) == ~Idle(t) /\ Return(t)
Throws(t) == ~Idle(t) /\ Throw(t)
Descends(t, n) ==
    /\ At(t, "scan") /\ n \in Top(t).todo
    /\ [Top(t) EXCEPT !.todo = @ \ {n}] \in F /\ StartFrame(n) \in F
    /\ Constructible(n) /\ listed[n] = None
    /\ Frames(t, Front(stack[t]) \o <<[Top(t) EXCEPT !.todo = @ \ {n}], StartFrame(n)>>)

LEMMA ScanFrameType ==
  ScanFrame \in F /\ ScanFrame.at = "scan" /\ "scan" \notin Bottom \cup Leaf
  BY DEF ScanFrame, Folders, F, Frame, Bottom, Leaf, Work

LEMMA ShapeOfPush ==
  ASSUME stack \in [Threads -> Seq(F)], Shape, NEW t \in Threads, NEW x, Pushes(t, x)
  PROVE  Shape'
<1>1. /\ Moves(t, Len(stack[t]), {x}) /\ Len(stack'[t]) = Len(stack[t]) + 1
      /\ stack'[t][Len(stack[t]) + 1] = x /\ Len(stack[t]) \in Nat
  BY PushFacts, StackFacts DEF Pushes
<1>2. ASSUME NEW i \in 1 .. Len(stack[t])
      PROVE  stack[t][i].at \notin Leaf
  <2> SUFFICES ASSUME stack[t][i].at \in Leaf PROVE FALSE
    OBVIOUS
  <2>1. i = Len(stack[t]) /\ ~Idle(t) /\ Top(t) = stack[t][Len(stack[t])]
    BY <1>1, <1>2, StackFacts DEF Shape
  <2>2. Top(t).at \in {"start", "merge"}
    BY <2>1 DEF Pushes
  <2> QED
    BY <2>1, <2>2 DEF Leaf, Work
<1>3. ASSUME NEW i \in 1 .. Len(stack'[t])
      PROVE  /\ stack'[t][i].at \in Bottom => t = Owner /\ i = 1
             /\ stack'[t][i].at \in Leaf => i = Len(stack'[t])
  <2>1. CASE i \in 1 .. Len(stack[t])
    <3>1. stack'[t][i] = stack[t][i]
      BY <1>1, <2>1 DEF Moves
    <3> QED
      BY <1>2, <2>1, <3>1 DEF Shape
  <2>2. CASE i = Len(stack[t]) + 1
    <3>1. x.at \in Bottom => t = Owner /\ Len(stack[t]) = 0
      BY StackFacts DEF Pushes
    <3> QED
      BY <1>1, <2>2, <3>1
  <2> QED
    BY <1>1, <2>1, <2>2
<1>4. \A u \in Threads \ {t} : stack'[u] = stack[u]
  BY <1>1 DEF Moves
<1> QED
  BY <1>3, <1>4 DEF Shape

LEMMA ShapeOfGoto ==
  ASSUME stack \in [Threads -> Seq(F)], Shape, NEW t \in Threads, NEW x, GoesTo(t, x)
  PROVE  Shape'
<1> DEFINE m == Len(stack[t])
<1>1. /\ Moves(t, m - 1, {x}) /\ Len(stack'[t]) = m /\ stack'[t][m] = x
      /\ m \in Nat /\ m # 0 /\ Top(t) = stack[t][m]
  BY GotoFacts, StackFacts DEF GoesTo
<1>2. \A i \in 1 .. m - 1 : stack'[t][i] = stack[t][i]
  BY <1>1 DEF Moves
<1>3. /\ stack[t][m].at \in Bottom => t = Owner /\ m = 1
      /\ \A i \in 1 .. m - 1 : /\ stack[t][i].at \in Bottom => t = Owner /\ i = 1
                               /\ stack[t][i].at \in Leaf => i = m
  <2>1. m \in 1 .. m /\ \A i \in 1 .. m - 1 : i \in 1 .. m
    BY <1>1
  <2> QED
    BY <2>1 DEF Shape
<1> HIDE DEF m
<1>4. ASSUME NEW i \in 1 .. Len(stack'[t])
      PROVE  /\ stack'[t][i].at \in Bottom => t = Owner /\ i = 1
             /\ stack'[t][i].at \in Leaf => i = Len(stack'[t])
  <2>1. CASE i = m
    BY <1>1, <1>3, <2>1 DEF GoesTo
  <2>2. CASE i # m
    <3>1. i \in 1 .. m - 1
      BY <1>1, <2>2
    <3> QED
      BY <1>1, <1>2, <1>3, <3>1
  <2> QED
    BY <2>1, <2>2
<1>5. \A u \in Threads \ {t} : stack'[u] = stack[u]
  BY <1>1 DEF Moves
<1> QED
  BY <1>4, <1>5 DEF Shape

\* The new frames are of scans and starts, and no other has been on top.
LEMMA ShapeOfDescent ==
  ASSUME stack \in [Threads -> Seq(F)], Shape, NEW t \in Threads, NEW n, Descends(t, n)
  PROVE  Shape'
<1> DEFINE m == Len(stack[t])
           x == [Top(t) EXCEPT !.todo = @ \ {n}]
           y == StartFrame(n)
<1>1. /\ ~Idle(t) /\ Top(t).at = "scan" /\ x \in F /\ y \in F
      /\ Frames(t, Front(stack[t]) \o <<x, y>>)
  BY DEF Descends, At
<1>2. /\ m \in Nat /\ m # 0 /\ Top(t) = stack[t][m] /\ Top(t) \in F
  BY <1>1, StackFacts
<1>3. x.at = "scan" /\ y.at = "start"
  BY <1>1, <1>2 DEF StartFrame, F, Frame, RegistryFrame
<1> HIDE DEF x, y, m
<1>4. /\ Moves(t, m - 1, {x, y}) /\ Len(stack'[t]) = m + 1
      /\ stack'[t][m] = x /\ stack'[t][m + 1] = y
  BY <1>1, DescendFacts DEF m
<1>5. \A i \in 1 .. m - 1 : stack'[t][i] = stack[t][i]
  BY <1>4 DEF Moves
<1>6. \A i \in 1 .. m - 1 : /\ stack[t][i].at \in Bottom => t = Owner /\ i = 1
                            /\ stack[t][i].at \in Leaf => i = m
  BY <1>2 DEF Shape, m
<1>7. ASSUME NEW i \in 1 .. Len(stack'[t])
      PROVE  /\ stack'[t][i].at \in Bottom => t = Owner /\ i = 1
             /\ stack'[t][i].at \in Leaf => i = Len(stack'[t])
  <2>1. CASE i = m \/ i = m + 1
    BY <1>3, <1>4, <2>1 DEF Bottom, Leaf, Work
  <2>2. CASE i # m /\ i # m + 1
    <3>1. i \in 1 .. m - 1 /\ i # m
      BY <1>2, <1>4, <2>2
    <3> QED
      BY <1>5, <1>6, <3>1
  <2> QED
    BY <2>1, <2>2
<1>8. \A u \in Threads \ {t} : stack'[u] = stack[u]
  BY <1>4 DEF Moves
<1> QED
  BY <1>7, <1>8 DEF Shape

LEMMA ShapeOfReturn ==
  ASSUME stack \in [Threads -> Seq(F)], Shape, NEW t \in Threads, Returns(t) \/ Throws(t)
  PROVE  Shape'
<1>1. CASE Throws(t)
  <2>1. Moves(t, 0, {}) /\ Len(stack'[t]) = 0
    BY <1>1, ThrowFacts DEF Throws
  <2> QED
    BY <2>1 DEF Shape, Moves
<1>2. CASE Returns(t)
  <2> DEFINE m == Len(stack[t])
  <2>1. Moves(t, m - 1, {}) /\ Len(stack'[t]) = m - 1 /\ m \in Nat
    BY <1>2, ReturnFacts, StackFacts DEF Returns
  <2>2. \A i \in 1 .. m - 1 : stack'[t][i] = stack[t][i]
    BY <2>1 DEF Moves
  <2>3. \A i \in 1 .. m - 1 : /\ stack[t][i].at \in Bottom => t = Owner /\ i = 1
                              /\ stack[t][i].at \in Leaf => i = m
    BY <2>1 DEF Shape
  <2> HIDE DEF m
  <2>4. \A i \in 1 .. m - 1 : i # m
    BY <2>1
  <2>5. \A i \in 1 .. Len(stack'[t]) : /\ stack'[t][i].at \in Bottom => t = Owner /\ i = 1
                                      /\ stack'[t][i].at \notin Leaf
    BY <2>1, <2>2, <2>3, <2>4
  <2>6. \A u \in Threads \ {t} : stack'[u] = stack[u]
    BY <2>1 DEF Moves
  <2> QED
    BY <2>5, <2>6 DEF Shape
<1> QED
  BY <1>1, <1>2

Steps(t) ==
    \/ \E x : Pushes(t, x) \/ GoesTo(t, x)
    \/ Returns(t) \/ Throws(t) \/ \E n : Descends(t, n)
    \/ UNCHANGED stack

LEMMA ShapeKept ==
  ASSUME stack \in [Threads -> Seq(F)], Shape, NEW t \in Threads, Steps(t)
  PROVE  stack' \in [Threads -> Seq(F)] /\ Shape'
<1>1. ASSUME NEW x, Pushes(t, x) PROVE stack' \in [Threads -> Seq(F)] /\ Shape'
  BY <1>1, ShapeOfPush, PushFacts DEF Pushes, Moves
<1>2. ASSUME NEW x, GoesTo(t, x) PROVE stack' \in [Threads -> Seq(F)] /\ Shape'
  BY <1>2, ShapeOfGoto, GotoFacts DEF GoesTo, Moves
<1>3. ASSUME Returns(t) \/ Throws(t) PROVE stack' \in [Threads -> Seq(F)] /\ Shape'
  BY <1>3, ShapeOfReturn, ReturnFacts, ThrowFacts DEF Returns, Throws, Moves
<1>4. ASSUME NEW n, Descends(t, n) PROVE stack' \in [Threads -> Seq(F)] /\ Shape'
  BY <1>4, ShapeOfDescent, DescendFacts DEF Descends, At, Moves
<1>5. ASSUME UNCHANGED stack PROVE stack' \in [Threads -> Seq(F)] /\ Shape'
  BY <1>5 DEF Shape
<1> QED
  BY <1>1, <1>2, <1>3, <1>4, <1>5 DEF Steps

LEMMA Cleared ==
  ASSUME stack' = [t \in Threads |-> <<>>]
  PROVE  /\ stack' \in [Threads -> Seq(F)] /\ Shape'
         /\ \A t \in Threads : Idle(t)' /\ FramesOf(t)' = {} /\ Len(stack'[t]) = 0
<1>1. \A t \in Threads : stack'[t] = <<>> /\ Len(stack'[t]) = 0 /\ stack'[t] \in Seq(F)
  BY EmptySeq
<1>2. stack' \in [Threads -> Seq(F)]
  BY <1>1
<1>3. \A t \in Threads : Idle(t)' /\ FramesOf(t)' = {}
  BY <1>1 DEF Idle, FramesOf
<1> QED
  BY <1>1, <1>2, <1>3 DEF Shape

(***************************************************************************)
(* The steps of the calls                                                  *)
(***************************************************************************)
LEMMA FrameFields ==
  ASSUME NEW x \in F
  PROVE  /\ x.at = "scan" => x.todo \subseteq Plugins /\ x.found \subseteq Plugins
         /\ x.at = "start" => x.name \in Plugins /\ x.version \in Versions
         /\ x.at \in Copying => /\ x.name \in Plugins /\ x.spec \in PluginSpec
                                /\ x.src \in Versions \cup {None}
         /\ x.at \in {"backup", "remove"} => x.name \in Plugins
         /\ x.at = "restore" => x.name \in Plugins /\ x.data \in Contents
         /\ x.at = "write" => x.got \subseteq Offered
         /\ x.at = "merge" => /\ x.table \in [Plugins -> PluginSpec \cup {None}]
                              /\ x.error \in {"none", "cached", "no cache"}
         /\ x.at = "download" => x.name \in Plugins /\ x.spec \in PluginSpec
  BY DEF F, Frame, RegistryFrame, Copying

LEMMA FramesMade ==
  /\ \A n \in Plugins, spec \in PluginSpec, src \in Versions \cup {None}, c \in Copying :
       [at |-> c, name |-> n, spec |-> spec, src |-> src] \in F
  /\ \A n \in Plugins, w \in {"backup", "remove"} : [at |-> w, name |-> n] \in F
  /\ \A n \in Plugins, d \in Contents : [at |-> "restore", name |-> n, data |-> d] \in F
  /\ \A got \in SUBSET Offered : [at |-> "write", got |-> got] \in F
  /\ \A n \in Plugins, spec \in PluginSpec :
       [at |-> "download", name |-> n, spec |-> spec] \in F
  BY DEF F, Frame, RegistryFrame, Copying

\* A copy goes on: only its place changes.
LEMMA CopyGoesOn ==
  ASSUME NEW x \in F, x.at \in Copying, NEW c \in Copying
  PROVE  /\ [x EXCEPT !.at = c] \in F /\ [x EXCEPT !.at = c].at = c
         /\ [x EXCEPT !.at = c].name = x.name /\ [x EXCEPT !.at = c].src = x.src
<1>1. x \in [at : {"create", "copy", "verify"}, name : Plugins, spec : PluginSpec,
             src : Versions \cup {None}]
  BY DEF F, Frame, RegistryFrame, Copying
<1> QED
  BY <1>1 DEF F, Frame, Copying

LEMMA SpecTypes ==
  /\ \A v \in Versions \cup {None} : SpecOnDisk(v) \in PluginSpec
  /\ \A n \in Plugins : SpecOnline(n) \in PluginSpec
  /\ \A names : Specs(names) \in [Plugins -> PluginSpec \cup {None}]
  /\ \A tab \in [Plugins -> PluginSpec \cup {None}] :
       listed \in [Plugins -> Versions \cup {None}]
         => Merge(tab) \in [Plugins -> PluginSpec \cup {None}]
<1>1. \A v \in Versions \cup {None} : SpecOnDisk(v) \in PluginSpec
  BY DEF SpecOnDisk, PluginSpec
<1>2. \A n \in Plugins : SpecOnline(n) \in PluginSpec
  BY RegistryAssumption DEF SpecOnline, PluginSpec
<1>3. \A names : Specs(names) \in [Plugins -> PluginSpec \cup {None}]
  BY <1>2 DEF Specs
<1>4. ASSUME NEW tab \in [Plugins -> PluginSpec \cup {None}],
             listed \in [Plugins -> Versions \cup {None}]
      PROVE  Merge(tab) \in [Plugins -> PluginSpec \cup {None}]
  <2>1. ASSUME NEW n \in Plugins, listed[n] # None, tab[n] # None
        PROVE  [tab[n] EXCEPT !.installed = listed[n]] \in PluginSpec
    BY <1>4, <2>1 DEF PluginSpec
  <2> QED
    BY <1>1, <1>4, <2>1 DEF Merge
<1> QED
  BY <1>1, <1>2, <1>3, <1>4

LEMMA MergeFrames ==
  ASSUME TypeOK, NEW names, NEW x \in FromCache(names)
  PROVE  x \in F /\ x.at = "merge"
<1>1. \E cached, e : /\ x = [at |-> "merge", table |-> Specs(names \cup cached), error |-> e]
                     /\ e \in {"none", "cached", "no cache"}
  <2>1. CASE cache.state = "none"
    <3>1. Specs(names) = Specs(names \cup {})
      BY DEF Specs
    <3> QED
      BY <2>1, <3>1 DEF FromCache
  <2>2. CASE cache.state # "none"
    BY <2>2 DEF FromCache
  <2> QED
    BY <2>1, <2>2
<1>2. PICK cached, e : /\ x = [at |-> "merge", table |-> Specs(names \cup cached), error |-> e]
                       /\ e \in {"none", "cached", "no cache"}
  BY <1>1
<1> DEFINE tab == Specs(names \cup cached)
<1>3. tab \in [Plugins -> PluginSpec \cup {None}]
  BY SpecTypes
<1> HIDE DEF tab
<1>4. x = [at |-> "merge", table |-> tab, error |-> e]
  BY <1>2 DEF tab
<1>5. e \in {"none", "cached", "no cache"}
  BY <1>2
<1>6. x \in [at : {"merge"}, table : [Plugins -> PluginSpec \cup {None}],
             error : {"none", "cached", "no cache"}]
  BY <1>3, <1>4, <1>5
<1> QED
  BY <1>4, <1>6 DEF F, RegistryFrame

LEMMA InstallingFacts ==
  ASSUME NEW n \in Plugins, NEW spec \in PluginSpec, NEW src \in Versions \cup {None}
  PROVE  /\ Installing(n, spec, src) \in F
         /\ Installing(n, spec, src).at = "create" /\ Installing(n, spec, src).name = n
  BY FramesMade DEF Installing, Copying

LEMMA PushSteps ==
  ASSUME TypeOK, NEW t \in Threads
  PROVE  /\ GetPlugins(t) \/ PluginSends(t) \/ MergeScans(t) => Pushes(t, ScanFrame)
         /\ \A n \in Plugins, src \in Sources :
              InstallPlugin(t, n, src) => Pushes(t, Installing(n, SpecOnDisk(src), src))
         /\ \A n \in Plugins :
              UninstallPlugin(t, n) => Pushes(t, [at |-> "backup", name |-> n])
         /\ \A n \in Plugins, d \in Contents :
              RestorePersistentPluginFolder(t, n, d)
                => Pushes(t, [at |-> "restore", name |-> n, data |-> d])
         /\ Fetch(t) => \E got \in SUBSET Offered : Pushes(t, [at |-> "write", got |-> got])
         /\ FetchFails(t) => \E x \in FromCache({}) : Pushes(t, x)
         /\ RescanInstalled(t)
              => Pushes(t, [at |-> "merge", table |-> table, error |-> error])
         /\ \A n \in Plugins :
              Install(t, n) => Pushes(t, [at |-> "download", name |-> n, spec |-> table[n]])
<1>1. ASSUME GetPlugins(t) \/ PluginSends(t) \/ MergeScans(t) PROVE Pushes(t, ScanFrame)
  BY <1>1, ScanFrameType DEF GetPlugins, PluginSends, MergeScans, At, Pushes
<1>2. ASSUME NEW n \in Plugins, NEW src \in Sources, InstallPlugin(t, n, src)
      PROVE  Pushes(t, Installing(n, SpecOnDisk(src), src))
  <2>1. src \in Versions \cup {None} /\ SpecOnDisk(src) \in PluginSpec
    BY StoreAssumption, SpecTypes
  <2>2. Installing(n, SpecOnDisk(src), src) \in F
        /\ Installing(n, SpecOnDisk(src), src).at = "create"
    BY <2>1, InstallingFacts
  <2> QED
    BY <1>2, <2>2 DEF InstallPlugin, At, Pushes, Bottom
<1>3. ASSUME NEW n \in Plugins, UninstallPlugin(t, n)
      PROVE  Pushes(t, [at |-> "backup", name |-> n])
  BY <1>3, FramesMade DEF UninstallPlugin, Pushes
<1>4. ASSUME NEW n \in Plugins, NEW d \in Contents, RestorePersistentPluginFolder(t, n, d)
      PROVE  Pushes(t, [at |-> "restore", name |-> n, data |-> d])
  BY <1>4, FramesMade DEF RestorePersistentPluginFolder, Pushes
<1>5. ASSUME Fetch(t)
      PROVE  \E got \in SUBSET Offered : Pushes(t, [at |-> "write", got |-> got])
  BY <1>5, FramesMade DEF Fetch, Pushes
<1>6. ASSUME FetchFails(t) PROVE \E x \in FromCache({}) : Pushes(t, x)
  BY <1>6, MergeFrames DEF FetchFails, Pushes
<1>7. ASSUME RescanInstalled(t)
      PROVE  Pushes(t, [at |-> "merge", table |-> table, error |-> error])
  <2> DEFINE x == [at |-> "merge", table |-> table, error |-> error]
  <2>1. /\ table \in [Plugins -> PluginSpec \cup {None}]
        /\ error \in {"none", "cached", "no cache"}
    BY <1>7 DEF RescanInstalled, TypeOK
  <2>2. x \in F
    BY <2>1 DEF F, RegistryFrame
  <2> QED
    BY <1>7, <2>2 DEF RescanInstalled, Pushes
<1>8. ASSUME NEW n \in Plugins, Install(t, n)
      PROVE  Pushes(t, [at |-> "download", name |-> n, spec |-> table[n]])
  <2>1. table[n] \in PluginSpec
    BY <1>8 DEF Install, TypeOK
  <2> QED
    BY <1>8, <2>1, FramesMade DEF Install, Pushes
<1> QED
  BY <1>1, <1>2, <1>3, <1>4, <1>5, <1>6, <1>7, <1>8

LEMMA GotoSteps ==
  ASSUME TypeOK, NEW t \in Threads
  PROVE  /\ CopyBegins(t) => GoesTo(t, [Top(t) EXCEPT !.at = "copy"])
         /\ CopyEnds(t) => GoesTo(t, [Top(t) EXCEPT !.at = "verify"])
         /\ BackupEnds(t) => GoesTo(t, [at |-> "remove", name |-> Top(t).name])
         /\ WriteEnds(t) =>
              GoesTo(t, [at |-> "merge", table |-> Specs(Top(t).got), error |-> "none"])
         /\ WriteFails(t) => \E x \in FromCache(Top(t).got) : GoesTo(t, x)
         /\ DownloadEnds(t) =>
              \E src \in Archives : GoesTo(t, Installing(Top(t).name, Top(t).spec, src))
<1>0. ~Idle(t) => Top(t) \in F
  BY StackFacts DEF TypeOK, F
<1>1. ASSUME CopyBegins(t) PROVE GoesTo(t, [Top(t) EXCEPT !.at = "copy"])
  BY <1>0, <1>1, CopyGoesOn DEF CopyBegins, At, GoesTo, Copying, Bottom, Leaf, Work
<1>2. ASSUME CopyEnds(t) PROVE GoesTo(t, [Top(t) EXCEPT !.at = "verify"])
  BY <1>0, <1>2, CopyGoesOn DEF CopyEnds, At, GoesTo, Copying, Bottom, Leaf, Work
<1>3. ASSUME BackupEnds(t) PROVE GoesTo(t, [at |-> "remove", name |-> Top(t).name])
  BY <1>0, <1>3, FrameFields, FramesMade DEF BackupEnds, At, GoesTo, Bottom, Leaf, Work
<1>4. ASSUME WriteEnds(t)
      PROVE  GoesTo(t, [at |-> "merge", table |-> Specs(Top(t).got), error |-> "none"])
  <2> DEFINE x == [at |-> "merge", table |-> Specs(Top(t).got), error |-> "none"]
  <2>1. Specs(Top(t).got) \in [Plugins -> PluginSpec \cup {None}]
    BY SpecTypes
  <2>2. x \in F
    BY <2>1 DEF F, RegistryFrame
  <2> QED
    BY <1>4, <2>2 DEF WriteEnds, At, GoesTo, Bottom, Leaf
<1>5. ASSUME WriteFails(t) PROVE \E x \in FromCache(Top(t).got) : GoesTo(t, x)
  <2>1. PICK x \in FromCache(Top(t).got) : Goto(t, x)
    BY <1>5 DEF WriteFails
  <2>2. x \in F /\ x.at = "merge"
    BY MergeFrames
  <2> QED
    BY <1>5, <2>1, <2>2 DEF WriteFails, At, GoesTo, Bottom, Leaf
<1>6. ASSUME DownloadEnds(t)
      PROVE  \E src \in Archives : GoesTo(t, Installing(Top(t).name, Top(t).spec, src))
  <2>1. PICK src \in Archives : Goto(t, Installing(Top(t).name, Top(t).spec, src))
    BY <1>6 DEF DownloadEnds
  <2>2. /\ ~Idle(t) /\ Top(t).at = "download" /\ Top(t).name \in Plugins
        /\ Top(t).spec \in PluginSpec
    BY <1>0, <1>6, FrameFields DEF DownloadEnds, At
  <2>3. /\ Installing(Top(t).name, Top(t).spec, src) \in F
        /\ Installing(Top(t).name, Top(t).spec, src).at = "create"
    BY <2>2, RegistryAssumption, InstallingFacts
  <2> QED
    BY <2>1, <2>2, <2>3 DEF GoesTo, Bottom, Leaf
<1> QED
  BY <1>1, <1>2, <1>3, <1>4, <1>5, <1>6

LEMMA EndSteps ==
  ASSUME TypeOK, NEW t \in Threads
  PROVE  /\ PluginStarts(t) \/ ScanEnds(t) => Returns(t)
         /\ PluginFails(t) => Throws(t)
         /\ ScanNext(t) => Throws(t) \/ \E n : Descends(t, n)
         /\ CopyFails(t) \/ Verify(t) => Returns(t) \/ Throws(t)
         /\ BackupFails(t) \/ RemoveEnds(t) \/ RemoveFails(t) \/ RestoreEnds(t) => Returns(t)
         /\ RestoreFails(t) => Throws(t)
         /\ MergeEnds(t) \/ DownloadFails(t) => Returns(t)
         /\ InvalidatePluginScan(t) => UNCHANGED stack
<1>1. ASSUME ScanNext(t) PROVE Throws(t) \/ \E n : Descends(t, n)
  <2> SUFFICES ASSUME ~Throws(t) PROVE \E n : Descends(t, n)
    OBVIOUS
  <2> DEFINE x(n) == [Top(t) EXCEPT !.todo = @ \ {n}]
  <2>1. PICK n \in Top(t).todo : /\ Constructible(n) /\ listed[n] = None
                                 /\ Frames(t, Front(stack[t]) \o <<x(n), StartFrame(n)>>)
    BY <1>1 DEF ScanNext, Throws, At
  <2>2. ~Idle(t) /\ Top(t).at = "scan" /\ Top(t) \in F
    BY <1>1, StackFacts DEF ScanNext, At, TypeOK, F
  <2>3. n \in Plugins
    BY <2>2, FrameFields
  <2>4. Top(t) \in [at : {"scan"}, todo : SUBSET Plugins, found : SUBSET Plugins]
    BY <2>2 DEF F, Frame, RegistryFrame
  <2>5. x(n) \in F
    BY <2>4 DEF F, Frame
  <2>6. folder[n] # None /\ folder[n].toml \in Versions
    <3>1. folder[n] \in Folder /\ folder[n].toml # None
      BY <2>1, <2>3 DEF Constructible, TypeOK, StoreTypeOK
    <3> QED
      BY <2>1, <3>1 DEF Folder, Constructible
  <2>7. StartFrame(n) \in F
    BY <2>3, <2>6 DEF StartFrame, F, Frame
  <2> QED
    BY <2>1, <2>2, <2>5, <2>7 DEF Descends, At
<1>2. CopyFails(t) \/ Verify(t) => Returns(t) \/ Throws(t)
  BY DEF CopyFails, Verify, RemoveTarget, At, Returns, Throws
<1> QED
  BY <1>1, <1>2
  DEF PluginStarts, ScanEnds, PluginFails, BackupFails, RemoveEnds, RemoveFails, RestoreEnds,
      RestoreFails, MergeEnds, DownloadFails, InvalidatePluginScan, At, Returns, Throws

\* Every step is one of a thread, of a plugin that stores data, or a restart.
LEMMA NextSteps ==
  ASSUME TypeOK, [Next]_vars
  PROVE  (\E t \in Threads : Steps(t)) \/ RestartRegistry
<1>1. ASSUME NEW t \in Threads,
             \/ StoreCall(t) \/ StoreStep(t)
             \/ Fetch(t) \/ FetchFails(t) \/ WriteEnds(t) \/ WriteFails(t)
             \/ RescanInstalled(t) \/ MergeScans(t) \/ MergeEnds(t)
             \/ \E n \in Plugins : Install(t, n)
             \/ DownloadFails(t) \/ DownloadEnds(t)
      PROVE  Steps(t)
  <2>1. ASSUME \/ GetPlugins(t) \/ PluginSends(t) \/ MergeScans(t)
               \/ Fetch(t) \/ FetchFails(t) \/ RescanInstalled(t)
               \/ \E n \in Plugins :
                    \/ \E src \in Sources : InstallPlugin(t, n, src)
                    \/ UninstallPlugin(t, n)
                    \/ \E d \in Contents : RestorePersistentPluginFolder(t, n, d)
                    \/ Install(t, n)
        PROVE  \E x : Pushes(t, x)
    BY <2>1, PushSteps
  <2>2. ASSUME \/ CopyBegins(t) \/ CopyEnds(t) \/ BackupEnds(t)
               \/ WriteEnds(t) \/ WriteFails(t) \/ DownloadEnds(t)
        PROVE  \E x : GoesTo(t, x)
    BY <2>2, GotoSteps
  <2>3. ASSUME \/ PluginStarts(t) \/ ScanEnds(t) \/ PluginFails(t) \/ ScanNext(t)
               \/ CopyFails(t) \/ Verify(t) \/ BackupFails(t) \/ RemoveEnds(t)
               \/ RemoveFails(t) \/ RestoreEnds(t) \/ RestoreFails(t) \/ MergeEnds(t)
               \/ DownloadFails(t) \/ InvalidatePluginScan(t)
        PROVE  Steps(t)
    BY <2>3, EndSteps DEF Steps
  <2> QED
    BY <1>1, <2>1, <2>2, <2>3 DEF StoreCall, StoreStep, Steps
<1>2. ASSUME NEW n \in Plugins, NEW d \in Contents, StoreData(n, d)
      PROVE  UNCHANGED stack
  BY <1>2 DEF StoreData
<1>3. UNCHANGED vars => UNCHANGED stack
  BY DEF vars, storeVars
<1>4. UNCHANGED stack => \E t \in Threads : Steps(t)
  BY StoreAssumption DEF Steps
<1> QED
  BY <1>1, <1>2, <1>3, <1>4 DEF Next

LEMMA StackKept ==
  ASSUME StackInv, [Next]_vars
  PROVE  stack' \in [Threads -> Seq(F)] /\ Shape'
<1>1. stack \in [Threads -> Seq(F)] /\ TypeOK /\ Shape
  BY DEF StackInv, TypeOK, F
<1>2. CASE RestartRegistry
  BY <1>2, Cleared DEF RestartRegistry, Restart
<1>3. ASSUME NEW t \in Threads, Steps(t) PROVE stack' \in [Threads -> Seq(F)] /\ Shape'
  BY <1>1, <1>3, ShapeKept
<1> QED
  BY <1>1, <1>2, <1>3, NextSteps

(***************************************************************************)
(* Types                                                                   *)
(***************************************************************************)
LEMMA FolderTypes ==
  /\ EmptyFolder \in Folder
  /\ \A x \in Folder, v \in Versions \cup {None} :
       [x EXCEPT !.toml = v] \in Folder /\ [x EXCEPT !.toml = v].data = x.data
       /\ [x EXCEPT !.toml = v].toml = v
  /\ \A x \in Folder, d \in Contents \cup {None} :
       [x EXCEPT !.data = d] \in Folder /\ [x EXCEPT !.data = d].toml = x.toml
       /\ [x EXCEPT !.data = d].data = d
  /\ \A x \in Folder : x # None /\ x.toml \in Versions \cup {None} /\ x.data \in Contents \cup {None}
  /\ \A x \in Folder : \A part \in PartsOf(x) :
       part \in Folder /\ part.toml \in {None, x.toml} /\ part.data \in {None, x.data}
  BY StoreAssumption DEF EmptyFolder, Folder, PartsOf

\* What becomes of one folder, when others stay as they are.
Alters(n, f) == folder' = [folder EXCEPT ![n] = f]

LEMMA AlteredTypes ==
  ASSUME StoreTypeOK, NEW n, NEW f \in Folder \cup {None}, Alters(n, f)
  PROVE  /\ folder' \in [Plugins -> {None} \cup Folder]
         /\ n \in Plugins => folder'[n] = f
         /\ \A m \in Plugins \ {n} : folder'[m] = folder[m]
  BY DEF StoreTypeOK, Alters

LEMMA TopFacts ==
  ASSUME TypeOK, NEW t \in Threads, ~Idle(t)
  PROVE  Top(t) \in F /\ Top(t) \in FramesOf(t)
  BY StackFacts DEF TypeOK, F

LEMMA CopyBeginsFolder ==
  ASSUME TypeOK, NEW t \in Threads, CopyBegins(t)
  PROVE  \E f \in Folder :
           /\ Alters(Top(t).name, f)
           /\ folder[Top(t).name] # None => f.data = folder[Top(t).name].data
           /\ Top(t).name \in Plugins
<1>1. Top(t).name \in Plugins /\ Top(t).src \in Versions \cup {None}
  BY TopFacts, FrameFields DEF CopyBegins, At, Copying
<1> DEFINE n == Top(t).name
           found == IF folder[n] = None THEN EmptyFolder ELSE folder[n]
<1>2. found \in Folder /\ (folder[n] # None => found.data = folder[n].data)
  BY <1>1, FolderTypes DEF TypeOK, StoreTypeOK
<1>3. PICK f \in {found, [found EXCEPT !.toml = Top(t).src]} : Alters(n, f)
  BY DEF CopyBegins, Alters
<1> HIDE DEF found
<1>4. f \in Folder /\ f.data = found.data
  <2>1. CASE f = found
    BY <1>2, <2>1
  <2>2. CASE f = [found EXCEPT !.toml = Top(t).src]
    BY <1>1, <1>2, <2>2, FolderTypes
  <2> QED
    BY <1>3, <2>1, <2>2
<1>5. folder[n] # None => f.data = folder[n].data
  BY <1>2, <1>4
<1> HIDE DEF n
<1>6. Alters(n, f) /\ n \in Plugins
  BY <1>1, <1>3 DEF n
<1> QED
  BY <1>4, <1>5, <1>6 DEF n

LEMMA CopyEndsFolder ==
  ASSUME TypeOK, NEW t \in Threads, CopyEnds(t)
  PROVE  \E f \in Folder :
           /\ Alters(Top(t).name, f) /\ f.data = folder[Top(t).name].data
           /\ Top(t).name \in Plugins
<1>1. Top(t).name \in Plugins /\ Top(t).src \in Versions \cup {None}
  BY TopFacts, FrameFields DEF CopyEnds, At, Copying
<1>2. folder[Top(t).name] \in Folder
  BY <1>1 DEF CopyEnds, TypeOK, StoreTypeOK
<1> DEFINE f == [folder[Top(t).name] EXCEPT !.toml = Top(t).src]
<1>3. Alters(Top(t).name, f)
  BY DEF CopyEnds, Alters
<1> HIDE DEF f
<1>4. f \in Folder /\ f.data = folder[Top(t).name].data
  BY <1>1, <1>2, FolderTypes DEF f
<1> QED
  BY <1>1, <1>3, <1>4

\* What is taken away of a folder.
Reduces(n) ==
    \E f \in Folder \cup {None} :
        /\ Alters(n, f)
        /\ f # None => /\ folder[n] # None
                       /\ f.toml \in {None, folder[n].toml} /\ f.data \in {None, folder[n].data}

LEMMA PartReduces ==
  ASSUME TypeOK, NEW n \in Plugins, folder[n] # None,
         \E part \in PartsOf(folder[n]) : Alters(n, part)
  PROVE  Reduces(n)
<1>1. folder[n] \in Folder
  BY DEF TypeOK, StoreTypeOK
<1>2. \A part \in PartsOf(folder[n]) :
        part \in Folder /\ part.toml \in {None, folder[n].toml} /\ part.data \in {None, folder[n].data}
  BY <1>1, FolderTypes
<1> QED
  BY <1>2 DEF Reduces

LEMMA RemoveTargetReduces ==
  ASSUME TypeOK, NEW t \in Threads, RemoveTarget(t), Top(t).name \in Plugins
  PROVE  Reduces(Top(t).name)
<1>1. CASE folder' = [folder EXCEPT ![Top(t).name] = None]
  BY <1>1 DEF Reduces, Alters
<1>2. CASE folder' # [folder EXCEPT ![Top(t).name] = None]
  BY <1>2, PartReduces DEF RemoveTarget, Alters
<1> QED
  BY <1>1, <1>2

LEMMA RestoreFolder ==
  ASSUME TypeOK, NEW t \in Threads, NEW n \in Plugins, NEW d \in Contents,
         RestorePersistentPluginFolder(t, n, d)
  PROVE  \E f \in Folder :
           /\ Alters(n, f)
           /\ folder[n] # None => f.toml = folder[n].toml
<1> DEFINE found == IF folder[n] = None THEN EmptyFolder ELSE folder[n]
<1>1. found \in Folder /\ (folder[n] # None => found.toml = folder[n].toml)
  BY FolderTypes DEF TypeOK, StoreTypeOK
<1>2. PICK f \in {found, [found EXCEPT !.data = None]} : Alters(n, f)
  BY DEF RestorePersistentPluginFolder, Alters
<1> HIDE DEF found
<1>3. f \in Folder /\ f.toml = found.toml
  <2>1. CASE f = found
    BY <1>1, <2>1
  <2>2. CASE f = [found EXCEPT !.data = None]
    BY <1>1, <2>2, FolderTypes
  <2> QED
    BY <1>2, <2>1, <2>2
<1>4. folder[n] # None => f.toml = folder[n].toml
  BY <1>1, <1>3
<1> QED
  BY <1>2, <1>3, <1>4

LEMMA RestoreEndsFolder ==
  ASSUME TypeOK, NEW t \in Threads, RestoreEnds(t)
  PROVE  \E f \in Folder :
           /\ Alters(Top(t).name, f) /\ f.toml = folder[Top(t).name].toml
           /\ Top(t).name \in Plugins
<1>1. Top(t).name \in Plugins /\ Top(t).data \in Contents
  BY TopFacts, FrameFields DEF RestoreEnds, At
<1>2. folder[Top(t).name] \in Folder
  BY <1>1 DEF RestoreEnds, TypeOK, StoreTypeOK
<1> DEFINE f == [folder[Top(t).name] EXCEPT !.data = Top(t).data]
<1>3. Alters(Top(t).name, f)
  BY DEF RestoreEnds, Alters
<1> HIDE DEF f
<1>4. f \in Folder /\ f.toml = folder[Top(t).name].toml
  BY <1>1, <1>2, FolderTypes DEF f
<1> QED
  BY <1>1, <1>3, <1>4

LEMMA StoredFolder ==
  ASSUME TypeOK, NEW n \in Plugins, NEW d \in Contents, StoreData(n, d)
  PROVE  \E f \in Folder : Alters(n, f) /\ f.toml = folder[n].toml /\ f.data = d
<1>1. folder[n] \in Folder
  BY DEF StoreData, TypeOK, StoreTypeOK
<1> DEFINE f == [folder[n] EXCEPT !.data = d]
<1>2. Alters(n, f)
  BY DEF StoreData, Alters
<1> HIDE DEF f
<1>3. f \in Folder /\ f.toml = folder[n].toml /\ f.data = d
  BY <1>1, FolderTypes DEF f
<1> QED
  BY <1>2, <1>3

LEMMA FoldersKept ==
  ASSUME TypeOK, [Next]_vars
  PROVE  folder' \in [Plugins -> {None} \cup Folder]
<1> DEFINE Goal == folder' \in [Plugins -> {None} \cup Folder]
<1>0. StoreTypeOK /\ folder \in [Plugins -> {None} \cup Folder]
  BY DEF TypeOK, StoreTypeOK
<1>1. ASSUME NEW t \in Threads, CopyBegins(t) PROVE Goal
  BY <1>0, <1>1, CopyBeginsFolder, AlteredTypes
<1>2. ASSUME NEW t \in Threads, CopyEnds(t) PROVE Goal
  BY <1>0, <1>2, CopyEndsFolder, AlteredTypes
<1>3. ASSUME NEW n, Reduces(n) PROVE Goal
  BY <1>0, <1>3, AlteredTypes DEF Reduces
<1>4. ASSUME NEW t \in Threads, CopyFails(t) PROVE Goal
  <2>1. Top(t).name \in Plugins
    BY <1>4, TopFacts, FrameFields DEF CopyFails, At, Copying
  <2> QED
    BY <1>3, <1>4, <2>1, RemoveTargetReduces DEF CopyFails
<1>5. ASSUME NEW t \in Threads, Verify(t) PROVE Goal
  <2>1. Top(t).name \in Plugins
    BY <1>5, TopFacts, FrameFields DEF Verify, At, Copying
  <2>2. RemoveTarget(t) \/ UNCHANGED folder
    BY <1>5 DEF Verify
  <2> QED
    BY <1>0, <1>3, <2>1, <2>2, RemoveTargetReduces
<1>6. ASSUME NEW t \in Threads, RemoveEnds(t) PROVE Goal
  BY <1>0, <1>6 DEF RemoveEnds
<1>7. ASSUME NEW t \in Threads, RemoveFails(t) PROVE Goal
  <2>1. Top(t).name \in Plugins
    BY <1>7, TopFacts, FrameFields DEF RemoveFails, At
  <2>2. \/ UNCHANGED folder
        \/ folder[Top(t).name] # None
           /\ \E part \in PartsOf(folder[Top(t).name]) : Alters(Top(t).name, part)
    BY <1>7 DEF RemoveFails, Alters
  <2> QED
    BY <1>0, <1>3, <2>1, <2>2, PartReduces
<1>8. ASSUME NEW t \in Threads, NEW n \in Plugins, NEW d \in Contents,
             RestorePersistentPluginFolder(t, n, d)
      PROVE  Goal
  BY <1>0, <1>8, RestoreFolder, AlteredTypes
<1>9. ASSUME NEW t \in Threads, RestoreEnds(t) PROVE Goal
  BY <1>0, <1>9, RestoreEndsFolder, AlteredTypes
<1>10. ASSUME NEW n \in Plugins, NEW d \in Contents, StoreData(n, d) PROVE Goal
  BY <1>0, <1>10, StoredFolder, AlteredTypes
<1>11. ASSUME NEW t \in Threads,
              \/ GetPlugins(t) \/ InvalidatePluginScan(t) \/ ScanNext(t) \/ PluginStarts(t)
              \/ PluginFails(t) \/ PluginSends(t) \/ ScanEnds(t)
              \/ (\E n \in Plugins : \/ \E src \in Sources : InstallPlugin(t, n, src)
                                     \/ UninstallPlugin(t, n) \/ Install(t, n))
              \/ BackupEnds(t) \/ BackupFails(t) \/ RestoreFails(t)
              \/ Fetch(t) \/ FetchFails(t) \/ WriteEnds(t) \/ WriteFails(t)
              \/ RescanInstalled(t) \/ MergeScans(t) \/ MergeEnds(t)
              \/ DownloadFails(t) \/ DownloadEnds(t)
       PROVE  Goal
  <2>1. folder' = folder
    BY <1>11 DEF GetPlugins, InvalidatePluginScan, ScanNext, PluginStarts, PluginFails,
                 PluginSends, ScanEnds, InstallPlugin, UninstallPlugin, Install, BackupEnds,
                 BackupFails, RestoreFails, Fetch, FetchFails, WriteEnds, WriteFails,
                 RescanInstalled, MergeScans, MergeEnds, DownloadFails, DownloadEnds, disk
  <2> QED
    BY <1>0, <2>1
<1>12. CASE RestartRegistry \/ UNCHANGED vars
  BY <1>0, <1>12 DEF RestartRegistry, Restart, vars, storeVars, disk
<1> QED
  BY <1>1, <1>2, <1>4, <1>5, <1>6, <1>7, <1>8, <1>9, <1>10, <1>11, <1>12
  DEF Next, StoreCall, StoreStep

LEMMA ListKept ==
  ASSUME TypeOK, [Next]_vars
  PROVE  listed' \in [Plugins -> Versions \cup {None}]
<1> DEFINE Goal == listed' \in [Plugins -> Versions \cup {None}]
<1>0. StoreTypeOK /\ listed \in [Plugins -> Versions \cup {None}]
  BY DEF TypeOK, StoreTypeOK
<1>1. ASSUME NEW t \in Threads, PluginStarts(t) PROVE Goal
  <2>1. Top(t).version \in Versions
    BY <1>1, TopFacts, FrameFields DEF PluginStarts, At
  <2> QED
    BY <1>0, <1>1, <2>1 DEF PluginStarts
<1>2. ASSUME NEW t \in Threads, Verify(t) PROVE Goal
  <2>1. CASE listed' = listed
    BY <1>0, <2>1
  <2>2. CASE listed' # listed
    <3>1. /\ Constructible(Top(t).name)
          /\ listed' = [listed EXCEPT ![Top(t).name] = folder[Top(t).name].toml]
      BY <1>2, <2>2 DEF Verify
    <3>2. Top(t).name \in Plugins
      BY <1>2, TopFacts, FrameFields DEF Verify, At, Copying
    <3>3. folder[Top(t).name].toml \in Versions \cup {None}
      BY <1>0, <3>1, <3>2, FolderTypes DEF Constructible, StoreTypeOK
    <3> QED
      BY <1>0, <3>1, <3>3
  <2> QED
    BY <2>1, <2>2
<1>3. ASSUME NEW t \in Threads, RemoveEnds(t) \/ InvalidatePluginScan(t) PROVE Goal
  BY <1>0, <1>3 DEF RemoveEnds, InvalidatePluginScan
<1>4. ASSUME NEW t \in Threads,
             \/ GetPlugins(t) \/ ScanNext(t)
             \/ PluginFails(t) \/ PluginSends(t) \/ ScanEnds(t)
             \/ (\E n \in Plugins :
                   \/ \E src \in Sources : InstallPlugin(t, n, src)
                   \/ UninstallPlugin(t, n) \/ Install(t, n)
                   \/ \E d \in Contents : RestorePersistentPluginFolder(t, n, d))
             \/ CopyBegins(t) \/ CopyEnds(t) \/ CopyFails(t)
             \/ BackupEnds(t) \/ BackupFails(t) \/ RemoveFails(t)
             \/ RestoreEnds(t) \/ RestoreFails(t)
             \/ Fetch(t) \/ FetchFails(t) \/ WriteEnds(t) \/ WriteFails(t)
             \/ RescanInstalled(t) \/ MergeScans(t) \/ MergeEnds(t)
             \/ DownloadFails(t) \/ DownloadEnds(t)
      PROVE  listed' = listed
  BY <1>4 DEF GetPlugins, ScanNext, PluginFails, PluginSends, ScanEnds, InstallPlugin,
              UninstallPlugin, Install, RestorePersistentPluginFolder, CopyBegins, CopyEnds,
              CopyFails, BackupEnds, BackupFails, RemoveFails, RestoreEnds, RestoreFails, Fetch,
              FetchFails, WriteEnds, WriteFails, RescanInstalled, MergeScans, MergeEnds,
              DownloadFails, DownloadEnds, memory
<1>5. ASSUME NEW n \in Plugins, NEW d \in Contents, StoreData(n, d) PROVE listed' = listed
  BY <1>5 DEF StoreData, memory
<1>6. CASE RestartRegistry
  BY <1>6 DEF RestartRegistry, Restart
<1>7. CASE UNCHANGED vars
  BY <1>0, <1>7 DEF vars, storeVars, memory
<1> QED
  BY <1>0, <1>1, <1>2, <1>3, <1>4, <1>5, <1>6, <1>7 DEF Next, StoreCall, StoreStep

LEMMA OtherTypesKept ==
  ASSUME TypeOK, [Next]_vars
  PROVE  /\ backups' \subseteq Plugins \X Contents
         /\ scanned' \in BOOLEAN /\ overlapped' \in BOOLEAN
         /\ newest' \in [Plugins -> Contents \cup {None}] /\ risked' \subseteq Plugins
<1> DEFINE Goal == /\ backups' \subseteq Plugins \X Contents
                   /\ scanned' \in BOOLEAN /\ overlapped' \in BOOLEAN
                   /\ newest' \in [Plugins -> Contents \cup {None}] /\ risked' \subseteq Plugins
<1>0. StoreTypeOK
  BY DEF TypeOK
<1>1. \A t : Enter(t) => overlapped' \in BOOLEAN
  BY <1>0 DEF Enter, StoreTypeOK
<1>2. ASSUME NEW t \in Threads,
             \/ GetPlugins(t) \/ InvalidatePluginScan(t)
             \/ (\E n \in Plugins : \/ \E src \in Sources : InstallPlugin(t, n, src)
                                    \/ UninstallPlugin(t, n) \/ Install(t, n))
             \/ Fetch(t) \/ FetchFails(t) \/ RescanInstalled(t)
      PROVE  Goal
  <2>1. Enter(t) /\ UNCHANGED <<backups, newest, risked>> /\ scanned' \in {scanned, FALSE}
    BY <1>2 DEF GetPlugins, InvalidatePluginScan, InstallPlugin, UninstallPlugin, Install, Fetch,
                FetchFails, RescanInstalled, disk, memory, user
  <2> QED
    BY <1>0, <1>1, <2>1 DEF StoreTypeOK
<1>3. ASSUME NEW t \in Threads,
             \/ ScanNext(t) \/ PluginStarts(t) \/ PluginFails(t) \/ PluginSends(t) \/ ScanEnds(t)
             \/ CopyBegins(t) \/ CopyEnds(t) \/ CopyFails(t) \/ Verify(t)
             \/ BackupFails(t) \/ RemoveEnds(t) \/ RemoveFails(t)
             \/ RestoreEnds(t) \/ RestoreFails(t) \/ WriteEnds(t) \/ WriteFails(t)
             \/ MergeScans(t) \/ MergeEnds(t) \/ DownloadFails(t) \/ DownloadEnds(t)
      PROVE  Goal
  <2>1. UNCHANGED <<backups, newest, risked, overlapped>> /\ scanned' \in {scanned, TRUE}
    BY <1>3 DEF ScanNext, PluginStarts, PluginFails, PluginSends, ScanEnds, CopyBegins, CopyEnds,
                CopyFails, Verify, BackupFails, RemoveEnds, RemoveFails, RestoreEnds, RestoreFails,
                WriteEnds, WriteFails, MergeScans, MergeEnds, DownloadFails, DownloadEnds, disk,
                memory, user
  <2> QED
    BY <1>0, <2>1 DEF StoreTypeOK
<1>4. ASSUME NEW t \in Threads, BackupEnds(t) PROVE Goal
  <2>1. Top(t).name \in Plugins
    BY <1>4, TopFacts, FrameFields DEF BackupEnds, At
  <2>2. folder[Top(t).name].data \in Contents \cup {None}
    BY <1>0, <1>4, <2>1, FolderTypes DEF BackupEnds, StoreTypeOK
  <2>3. backups' \subseteq Plugins \X Contents
    BY <1>0, <1>4, <2>1, <2>2 DEF BackupEnds, StoreTypeOK
  <2> QED
    BY <1>0, <1>4, <2>3 DEF BackupEnds, memory, user, StoreTypeOK
<1>5. ASSUME NEW t \in Threads, NEW n \in Plugins, NEW d \in Contents,
             RestorePersistentPluginFolder(t, n, d)
      PROVE  Goal
  BY <1>0, <1>1, <1>5 DEF RestorePersistentPluginFolder, memory, StoreTypeOK
<1>6. ASSUME NEW n \in Plugins, NEW d \in Contents, StoreData(n, d) PROVE Goal
  BY <1>0, <1>6 DEF StoreData, memory, StoreTypeOK
<1>7. CASE RestartRegistry
  BY <1>0, <1>7 DEF RestartRegistry, Restart, disk, user, StoreTypeOK
<1>8. CASE UNCHANGED vars
  BY <1>0, <1>8 DEF vars, storeVars, disk, memory, user, StoreTypeOK
<1> QED
  BY <1>2, <1>3, <1>4, <1>5, <1>6, <1>7, <1>8 DEF Next, StoreCall, StoreStep

RegistryTypeOK ==
    /\ table \in [Plugins -> PluginSpec \cup {None}]
    /\ error \in {"no registry", "none", "cached", "no cache"}
    /\ cache \in [state : {"none", "half", "whole"}, names : SUBSET Offered]

LEMMA RegistryTypesKept ==
  ASSUME TypeOK, [Next]_vars
  PROVE  RegistryTypeOK'
<1>0. RegistryTypeOK /\ listed \in [Plugins -> Versions \cup {None}]
  BY DEF TypeOK, RegistryTypeOK, StoreTypeOK
<1>1. NoTable \in [Plugins -> PluginSpec \cup {None}]
  BY DEF NoTable
<1>2. ASSUME UNCHANGED registryVars
      PROVE  RegistryTypeOK'
  BY <1>0, <1>2 DEF registryVars, RegistryTypeOK
<1>3. ASSUME NEW t \in Threads, Fetch(t)
      PROVE  RegistryTypeOK'
  <2>1. cache' \in {cache, [state |-> "half", names |-> {}]}
    BY <1>3 DEF Fetch
  <2>a. [state |-> "half", names |-> {}]
          \in [state : {"none", "half", "whole"}, names : SUBSET Offered]
    OBVIOUS
  <2>2. cache' \in [state : {"none", "half", "whole"}, names : SUBSET Offered]
    BY <1>0, <2>1, <2>a DEF RegistryTypeOK
  <2> QED
    BY <1>0, <1>1, <1>3, <2>2 DEF Fetch, Replace, RegistryTypeOK
<1>4. ASSUME NEW t \in Threads, FetchFails(t)
      PROVE  RegistryTypeOK'
  BY <1>0, <1>1, <1>4 DEF FetchFails, Replace, RegistryTypeOK
<1>5. ASSUME NEW t \in Threads, WriteEnds(t)
      PROVE  RegistryTypeOK'
  <2>1. Top(t) \in F /\ Top(t).at = "write"
    BY <1>5, StackFacts DEF WriteEnds, At, TypeOK, F
  <2>2. Top(t).got \in SUBSET Offered
    BY <2>1 DEF F, Frame, RegistryFrame
  <2> QED
    BY <1>0, <1>5, <2>2 DEF WriteEnds, RegistryTypeOK
<1>6. ASSUME NEW t \in Threads, MergeEnds(t)
      PROVE  RegistryTypeOK'
  <2>1. Top(t) \in F /\ Top(t).at = "merge"
    BY <1>6, StackFacts DEF MergeEnds, At, TypeOK, F
  <2>2. /\ Top(t).table \in [Plugins -> PluginSpec \cup {None}]
        /\ Top(t).error \in {"none", "cached", "no cache"}
    BY <2>1 DEF F, Frame, RegistryFrame
  <2>3. Merge(Top(t).table) \in [Plugins -> PluginSpec \cup {None}]
    BY <1>0, <2>2, SpecTypes
  <2> QED
    BY <1>0, <1>6, <2>2, <2>3 DEF MergeEnds, RegistryTypeOK
<1>7. CASE RestartRegistry
  BY <1>0, <1>1, <1>7 DEF RestartRegistry, Replace, RegistryTypeOK
<1>8. ASSUME NEW t \in Threads,
             \/ WriteFails(t) \/ RescanInstalled(t) \/ MergeScans(t)
             \/ \E n \in Plugins : Install(t, n)
             \/ DownloadFails(t) \/ DownloadEnds(t)
      PROVE  UNCHANGED registryVars
  BY <1>8 DEF WriteFails, RescanInstalled, MergeScans, Install, DownloadFails, DownloadEnds
<1>9. UNCHANGED vars => UNCHANGED registryVars
  BY DEF vars
<1> QED
  BY <1>2, <1>3, <1>4, <1>5, <1>6, <1>7, <1>8, <1>9 DEF Next

LEMMA StackInvKept ==
  ASSUME StackInv, [Next]_vars
  PROVE  StackInv'
<1>1. stack' \in [Threads -> Seq(F)] /\ Shape'
  BY StackKept
<1>2. StoreTypeOK'
  BY FoldersKept, ListKept, OtherTypesKept DEF StackInv, StoreTypeOK
<1>3. RegistryTypeOK'
  BY RegistryTypesKept DEF StackInv
<1> QED
  BY <1>1, <1>2, <1>3 DEF StackInv, TypeOK, RegistryTypeOK, F

LEMMA InitFacts ==
  ASSUME Init
  PROVE  /\ StackInv
         /\ \A t \in Threads : Idle(t) /\ Len(stack[t]) = 0 /\ FramesOf(t) = {}
<1>1. \A t \in Threads : stack[t] = <<>> /\ Idle(t) /\ Len(stack[t]) = 0 /\ FramesOf(t) = {}
  BY EmptySeq DEF Init, StoreInit, FramesOf, Idle
<1>2. stack \in [Threads -> Seq(F)]
  BY EmptySeq DEF Init, StoreInit
<1>3. Shape
  BY <1>1 DEF Shape
<1>4. folder \in [Plugins -> {None} \cup Folder]
  <2>1. [toml: Versions \cup {None}, data: {None}] \subseteq Folder
    BY DEF Folder
  <2> QED
    BY <2>1 DEF Init, StoreInit
<1>5. StoreTypeOK
  BY <1>4 DEF Init, StoreInit, StoreTypeOK
<1>6. RegistryTypeOK
  BY DEF Init, RegistryInit, NoTable, Replace, RegistryTypeOK
<1> QED
  BY <1>1, <1>2, <1>3, <1>5, <1>6 DEF StackInv, TypeOK, RegistryTypeOK, F

\* The types of all variables and frames, whatever calls overlap, fail or are
\* cut off (agents.cpp:85-335, plugin_registry.cpp).
THEOREM PluginTypes == Spec => []TypeOK
<1>1. Init => StackInv
  BY InitFacts
<1>2. StackInv /\ [Next]_vars => StackInv'
  BY StackInvKept
<1>3. StackInv => TypeOK
  BY DEF StackInv
<1> QED
  BY <1>1, <1>2, <1>3, PTL DEF Spec

(***************************************************************************)
(* User data                                                               *)
(***************************************************************************)
\* The calls that may take away user data.
Taking == Copying \cup {"remove", "restore"}

\* Frames of t are old or of new, and of other threads they are old.
FramesFrom(t, new) ==
    /\ FramesOf(t)' \subseteq FramesOf(t) \cup new
    /\ \A u \in Threads \ {t} : FramesOf(u)' = FramesOf(u)

LEMMA StepFrames ==
  ASSUME TypeOK, NEW t \in Threads
  PROVE  /\ \A x : Pushes(t, x) \/ GoesTo(t, x) => FramesFrom(t, {x})
         /\ Returns(t) \/ Throws(t) \/ UNCHANGED stack => FramesFrom(t, {})
         /\ \A n : Descends(t, n) =>
              FramesFrom(t, {[Top(t) EXCEPT !.todo = @ \ {n}], StartFrame(n)})
<1>1. stack \in [Threads -> Seq(F)]
  BY DEF TypeOK, F
<1>2. ASSUME NEW k, NEW new, Moves(t, k, new) PROVE FramesFrom(t, new)
  BY <1>2, MovedFrames DEF FramesFrom
<1>3. ASSUME NEW x, Pushes(t, x) \/ GoesTo(t, x) PROVE FramesFrom(t, {x})
  BY <1>1, <1>2, <1>3, PushFacts, GotoFacts DEF Pushes, GoesTo
<1>4. ASSUME Returns(t) PROVE FramesFrom(t, {})
  BY <1>1, <1>2, <1>4, ReturnFacts DEF Returns
<1>5. ASSUME Throws(t) PROVE FramesFrom(t, {})
  BY <1>1, <1>2, <1>5, ThrowFacts DEF Throws
<1>6. ASSUME UNCHANGED stack PROVE FramesFrom(t, {})
  BY <1>6 DEF FramesFrom, FramesOf
<1>7. ASSUME NEW n, Descends(t, n)
      PROVE  FramesFrom(t, {[Top(t) EXCEPT !.todo = @ \ {n}], StartFrame(n)})
  <2> DEFINE x == [Top(t) EXCEPT !.todo = @ \ {n}]
             y == StartFrame(n)
  <2>1. ~Idle(t) /\ x \in F /\ y \in F /\ Frames(t, Front(stack[t]) \o <<x, y>>)
    BY <1>7 DEF Descends, At
  <2> HIDE DEF x, y
  <2>2. Moves(t, Len(stack[t]) - 1, {x, y})
    BY <1>1, <2>1, DescendFacts
  <2>3. FramesFrom(t, {x, y})
    BY <1>2, <2>2
  <2> QED
    BY <2>3 DEF x, y
<1> QED
  BY <1>3, <1>4, <1>5, <1>6, <1>7

\* Enough for the data: new frames that take data away are settled, what was
\* settled stays so, and folders lose data only of settled plugins.
LEMMA DataStays ==
  ASSUME DataInv, NEW t \in Threads, NEW new, FramesFrom(t, new),
         \A x \in new : x.at \in Taking => Settled(x.name)',
         \A n : Settled(n) => Settled(n)',
         \A n \in Plugins : n \notin risked' /\ Kept(n) => Kept(n)' \/ Settled(n)',
         risked \subseteq risked'
  PROVE  WorkSettled' /\ DataSafe'
<1>1. WorkSettled'
  <2> SUFFICES ASSUME NEW u \in Threads, NEW x \in FramesOf(u)', x.at \in Taking
               PROVE  Settled(x.name)'
    BY DEF WorkSettled, Taking
  <2>1. x \in FramesOf(u) \/ x \in new
    BY DEF FramesFrom
  <2>2. CASE x \in FramesOf(u)
    BY <2>2 DEF DataInv, WorkSettled, Taking
  <2> QED
    BY <2>1, <2>2
<1>2. DataSafe'
  <2> SUFFICES ASSUME NEW n \in Plugins, n \notin risked' PROVE Kept(n)'
    BY DEF DataSafe
  <2>1. Kept(n)
    BY DEF DataInv, DataSafe
  <2> QED
    BY <2>1 DEF Settled, Kept
<1> QED
  BY <1>1, <1>2

\* Nothing on disk changes, and nothing the user data is told by.
LEMMA QuietData ==
  ASSUME DataInv, NEW t \in Threads, NEW new, FramesFrom(t, new),
         \A x \in new : x.at \in Taking => Settled(x.name),
         UNCHANGED <<disk, user>>
  PROVE  WorkSettled' /\ DataSafe'
<1>1. \A n : (Settled(n)' <=> Settled(n)) /\ (Kept(n)' <=> Kept(n))
  BY DEF Settled, Kept, disk, user
<1> QED
  BY <1>1, DataStays DEF user

\* A folder changes of which the data is settled.
LEMMA SettledData ==
  ASSUME DataInv, NEW t \in Threads, NEW new, FramesFrom(t, new), NEW n \in Plugins,
         \A x \in new : x.at \in Taking => Settled(x.name),
         Settled(n), NEW f, Alters(n, f), UNCHANGED <<backups, user>>
  PROVE  WorkSettled' /\ DataSafe'
<1>1. \A m : Settled(m)' <=> Settled(m)
  BY DEF Settled, user
<1>2. \A m \in Plugins : m # n => (Kept(m)' <=> Kept(m))
  BY DEF Kept, user, Alters, DataInv, StackInv, TypeOK, StoreTypeOK
<1> QED
  BY <1>1, <1>2, DataStays DEF user

LEMMA FreeIsSettled ==
  ASSUME DataInv, NEW n \in Plugins, MayInstall(n)
  PROVE  Settled(n)
  BY DEF DataInv, DataSafe, Kept, Settled, MayInstall

LEMMA DataKept ==
  ASSUME DataInv, [Next]_vars
  PROVE  WorkSettled' /\ DataSafe'
<1> DEFINE Goal == WorkSettled' /\ DataSafe'
<1>0. /\ TypeOK /\ StoreTypeOK /\ WorkSettled /\ DataSafe
      /\ stack \in [Threads -> Seq(F)]
  BY DEF DataInv, StackInv, TypeOK, F
<1>a. ASSUME NEW t \in Threads, ~Idle(t), Top(t).at \in Taking
      PROVE  Top(t).name \in Plugins /\ Settled(Top(t).name)
  BY <1>0, <1>a, TopFacts, FrameFields DEF WorkSettled, Taking, Copying
<1>1. ASSUME NEW t \in Threads, GetPlugins(t) \/ PluginSends(t) \/ MergeScans(t) PROVE Goal
  <2>1. FramesFrom(t, {ScanFrame}) /\ ScanFrame.at \notin Taking
    BY <1>0, <1>1, PushSteps, StepFrames, ScanFrameType DEF Taking, Copying
  <2>2. UNCHANGED <<disk, user>>
    BY <1>1 DEF GetPlugins, PluginSends, MergeScans
  <2> QED
    BY <2>1, <2>2, QuietData
<1>2. ASSUME NEW t \in Threads, NEW n \in Plugins, NEW src \in Sources, InstallPlugin(t, n, src)
      PROVE  Goal
  <2> DEFINE x == Installing(n, SpecOnDisk(src), src)
  <2>1. FramesFrom(t, {x})
    BY <1>0, <1>2, PushSteps, StepFrames
  <2>2. Settled(n) /\ UNCHANGED <<disk, user>> /\ x.name = n
    BY <1>2, FreeIsSettled DEF InstallPlugin, Installing
  <2> HIDE DEF x
  <2> QED
    BY <2>1, <2>2, QuietData
<1>3. ASSUME NEW t \in Threads, NEW n \in Plugins, UninstallPlugin(t, n) \/ Install(t, n)
      PROVE  Goal
  <2>1. \E x : Pushes(t, x) /\ x.at \in {"backup", "download"}
    <3>1. CASE UninstallPlugin(t, n)
      <4>1. Pushes(t, [at |-> "backup", name |-> n])
        BY <1>0, <3>1, PushSteps
      <4> QED
        BY <4>1
    <3>2. CASE Install(t, n)
      <4>1. Pushes(t, [at |-> "download", name |-> n, spec |-> table[n]])
        BY <1>0, <3>2, PushSteps
      <4> QED
        BY <4>1
    <3> QED
      BY <1>3, <3>1, <3>2
  <2>2. \E x : FramesFrom(t, {x}) /\ x.at \notin Taking
    BY <1>0, <2>1, StepFrames DEF Taking, Copying
  <2>3. UNCHANGED <<disk, user>>
    BY <1>3 DEF UninstallPlugin, Install
  <2> QED
    BY <2>2, <2>3, QuietData
<1>4. ASSUME NEW t \in Threads, Fetch(t) \/ FetchFails(t) \/ RescanInstalled(t)
      PROVE  Goal
  <2>a. \E x : Pushes(t, x) /\ x.at \in {"write", "merge"}
    <3>1. CASE Fetch(t)
      <4>1. PICK got \in SUBSET Offered : Pushes(t, [at |-> "write", got |-> got])
        BY <1>0, <3>1, PushSteps
      <4> QED
        BY <4>1
    <3>2. CASE FetchFails(t)
      BY <1>0, <3>2, PushSteps, MergeFrames
    <3>3. CASE RescanInstalled(t)
      <4>1. Pushes(t, [at |-> "merge", table |-> table, error |-> error])
        BY <1>0, <3>3, PushSteps
      <4> QED
        BY <4>1
    <3> QED
      BY <1>4, <3>1, <3>2, <3>3
  <2>1. \E x : FramesFrom(t, {x}) /\ x.at \notin Taking
    BY <1>0, <2>a, StepFrames DEF Taking, Copying
  <2>2. UNCHANGED <<disk, user>>
    BY <1>4 DEF Fetch, FetchFails, RescanInstalled
  <2> QED
    BY <2>1, <2>2, QuietData
<1>5. ASSUME NEW t \in Threads, WriteEnds(t) \/ WriteFails(t) PROVE Goal
  <2>a. \E x : GoesTo(t, x) /\ x.at = "merge"
    <3>1. CASE WriteEnds(t)
      <4>1. GoesTo(t, [at |-> "merge", table |-> Specs(Top(t).got), error |-> "none"])
        BY <1>0, <3>1, GotoSteps
      <4> QED
        BY <4>1
    <3>2. CASE WriteFails(t)
      BY <1>0, <3>2, GotoSteps, MergeFrames
    <3> QED
      BY <1>5, <3>1, <3>2
  <2>1. \E x : FramesFrom(t, {x}) /\ x.at \notin Taking
    BY <1>0, <2>a, StepFrames DEF Taking, Copying
  <2>2. UNCHANGED <<disk, user>>
    BY <1>5 DEF WriteEnds, WriteFails
  <2> QED
    BY <2>1, <2>2, QuietData
<1>6. ASSUME NEW t \in Threads,
             \/ PluginStarts(t) \/ ScanEnds(t) \/ PluginFails(t) \/ InvalidatePluginScan(t)
             \/ BackupFails(t) \/ RestoreFails(t) \/ MergeEnds(t) \/ DownloadFails(t)
      PROVE  Goal
  <2>1. FramesFrom(t, {})
    BY <1>0, <1>6, EndSteps, StepFrames
  <2>2. UNCHANGED <<disk, user>>
    BY <1>6 DEF PluginStarts, ScanEnds, PluginFails, InvalidatePluginScan, BackupFails,
                RestoreFails, MergeEnds, DownloadFails
  <2> QED
    BY <2>1, <2>2, QuietData
<1>7. ASSUME NEW t \in Threads, ScanNext(t) PROVE Goal
  <2>1. UNCHANGED <<disk, user>>
    BY <1>7 DEF ScanNext
  <2>2. CASE Throws(t)
    BY <1>0, <2>1, <2>2, StepFrames, QuietData
  <2>3. ASSUME NEW n, Descends(t, n) PROVE Goal
    <3> DEFINE x == [Top(t) EXCEPT !.todo = @ \ {n}]
               y == StartFrame(n)
    <3>1. FramesFrom(t, {x, y})
      BY <1>0, <2>3, StepFrames
    <3>2. Top(t).at = "scan" /\ Top(t) \in F
      BY <1>0, <2>3, TopFacts DEF Descends, At
    <3>3. x.at = "scan" /\ y.at = "start"
      BY <3>2 DEF StartFrame, F, Frame, RegistryFrame
    <3> HIDE DEF x, y
    <3>4. \A z \in {x, y} : z.at \notin Taking
      BY <3>3 DEF Taking, Copying
    <3> QED
      BY <2>1, <3>1, <3>4, QuietData
  <2> QED
    BY <1>0, <1>7, <2>2, <2>3, EndSteps
<1>8. ASSUME NEW t \in Threads, CopyBegins(t) \/ CopyEnds(t) PROVE Goal
  <2>1. PICK c \in Copying : GoesTo(t, [Top(t) EXCEPT !.at = c])
    BY <1>0, <1>8, GotoSteps DEF Copying
  <2>2. ~Idle(t) /\ Top(t).at \in Copying /\ Top(t) \in F
    BY <1>0, <1>8, TopFacts DEF CopyBegins, CopyEnds, At, Copying
  <2>3. Top(t).name \in Plugins /\ Settled(Top(t).name)
    BY <1>a, <2>2 DEF Taking
  <2>4. \E f : Alters(Top(t).name, f)
    BY <1>0, <1>8, CopyBeginsFolder, CopyEndsFolder
  <2>5. UNCHANGED <<backups, user>>
    BY <1>8 DEF CopyBegins, CopyEnds
  <2> DEFINE x == [Top(t) EXCEPT !.at = c]
  <2>6. FramesFrom(t, {x}) /\ x.name = Top(t).name
    BY <1>0, <2>1, <2>2, StepFrames, CopyGoesOn
  <2> HIDE DEF x
  <2> QED
    BY <2>3, <2>4, <2>5, <2>6, SettledData
<1>9. ASSUME NEW t \in Threads,
             CopyFails(t) \/ Verify(t) \/ RemoveEnds(t) \/ RemoveFails(t) \/ RestoreEnds(t)
      PROVE  Goal
  <2>1. FramesFrom(t, {})
    BY <1>0, <1>9, EndSteps, StepFrames
  <2>2. ~Idle(t) /\ Top(t).at \in Taking
    BY <1>9 DEF CopyFails, Verify, RemoveEnds, RemoveFails, RestoreEnds, At, Taking, Copying
  <2>3. Top(t).name \in Plugins /\ Settled(Top(t).name)
    BY <1>a, <2>2
  <2>4. UNCHANGED <<backups, user>>
    BY <1>9 DEF CopyFails, Verify, RemoveEnds, RemoveFails, RestoreEnds
  <2>5. UNCHANGED folder \/ \E f : Alters(Top(t).name, f)
    BY <1>9 DEF CopyFails, Verify, RemoveTarget, RemoveEnds, RemoveFails, RestoreEnds, Alters
  <2>6. CASE UNCHANGED folder
    BY <2>1, <2>4, <2>6, QuietData DEF disk
  <2> QED
    BY <2>1, <2>3, <2>4, <2>5, <2>6, SettledData
<1>10. ASSUME NEW t \in Threads, BackupEnds(t) PROVE Goal
  <2>a. PICK n : n = Top(t).name
    OBVIOUS
  <2> DEFINE x == [at |-> "remove", name |-> n]
  <2>1. FramesFrom(t, {x})
    BY <1>0, <1>10, <2>a, GotoSteps, StepFrames
  <2>2. n \in Plugins /\ folder[n] # None
    BY <1>0, <1>10, <2>a, TopFacts, FrameFields DEF BackupEnds, At
  <2>3. /\ UNCHANGED <<folder, user>> /\ backups \subseteq backups'
        /\ folder[n].data # None => <<n, folder[n].data>> \in backups'
    BY <1>10, <2>a DEF BackupEnds
  <2>4. Settled(n)'
    <3>1. CASE n \in risked
      BY <2>3, <3>1 DEF Settled, user
    <3>2. CASE n \notin risked
      <4>1. Kept(n)
        BY <1>0, <2>2, <3>2 DEF DataSafe
      <4> QED
        BY <2>3, <4>1 DEF Settled, Kept, user
    <3> QED
      BY <3>1, <3>2
  <2>5. \A m : (Settled(m) => Settled(m)') /\ (Kept(m) => Kept(m)')
    BY <2>3 DEF Settled, Kept, user
  <2>6. x.name = n
    OBVIOUS
  <2> HIDE DEF x
  <2> QED
    BY <2>1, <2>3, <2>4, <2>5, <2>6, DataStays DEF user
<1>11. ASSUME NEW t \in Threads, NEW n \in Plugins, NEW d \in Contents,
              RestorePersistentPluginFolder(t, n, d)
       PROVE  Goal
  <2> DEFINE x == [at |-> "restore", name |-> n, data |-> d]
  <2>1. FramesFrom(t, {x}) /\ x.name = n
    BY <1>0, <1>11, PushSteps, StepFrames
  <2> HIDE DEF x
  <2>2. /\ <<n, d>> \in backups /\ UNCHANGED <<backups, newest>>
        /\ risked' = IF newest[n] = d THEN risked ELSE risked \cup {n}
    BY <1>11 DEF RestorePersistentPluginFolder
  <2>3. Settled(n)' /\ risked \subseteq risked'
    BY <2>2 DEF Settled
  <2>4. \A m : Settled(m) => Settled(m)'
    BY <2>2 DEF Settled
  <2>5. \E f : Alters(n, f)
    BY <1>0, <1>11, RestoreFolder
  <2>6. \A m \in Plugins : m # n /\ Kept(m) => Kept(m)'
    BY <1>0, <2>2, <2>5 DEF Alters, Kept, StoreTypeOK
  <2> QED
    BY <2>1, <2>3, <2>4, <2>6, DataStays
<1>12. ASSUME NEW n \in Plugins, NEW d \in Contents, StoreData(n, d) PROVE Goal
  <2>1. /\ UNCHANGED <<backups, stack>> /\ newest' = [newest EXCEPT ![n] = d]
        /\ risked' = IF WorkedOn(n) THEN risked \cup {n} ELSE risked \ {n}
    BY <1>12 DEF StoreData
  <2>2. PICK f \in Folder : Alters(n, f) /\ f.data = d
    BY <1>0, <1>12, StoredFolder
  <2>3. folder'[n] = f /\ folder'[n] # None /\ \A m \in Plugins \ {n} : folder'[m] = folder[m]
    BY <1>0, <2>2, FolderTypes DEF Alters, StoreTypeOK
  <2>4. newest'[n] = d /\ \A m \in Plugins \ {n} : newest'[m] = newest[m]
    BY <1>0, <2>1 DEF StoreTypeOK
  <2>5. Kept(n)' /\ \A m \in Plugins \ {n} : Kept(m) => Kept(m)'
    BY <2>1, <2>2, <2>3, <2>4 DEF Kept
  <2>6. DataSafe'
    <3> SUFFICES ASSUME NEW m \in Plugins, m \notin risked' PROVE Kept(m)'
      BY DEF DataSafe
    <3>1. m # n => m \notin risked
      BY <2>1
    <3> QED
      BY <1>0, <2>5, <3>1 DEF DataSafe
  <2>7. WorkSettled'
    <3> SUFFICES ASSUME NEW t \in Threads, NEW x \in FramesOf(t), x.at \in Taking
                 PROVE  Settled(x.name)'
      BY <2>1 DEF WorkSettled, Taking, FramesOf
    <3>1. x \in F
      BY <1>0, StackFacts
    <3>2. x.name \in Plugins /\ Settled(x.name)
      BY <1>0, <3>1, FrameFields DEF WorkSettled, Taking, Copying
    <3>3. CASE x.name = n
      <4>1. WorkedOn(n)
        BY <3>3 DEF WorkedOn, Work, Taking, Copying
      <4> QED
        BY <2>1, <3>3, <4>1 DEF Settled
    <3>4. CASE x.name # n
      BY <2>1, <2>4, <3>2, <3>4 DEF Settled
    <3> QED
      BY <3>3, <3>4
  <2> QED
    BY <2>6, <2>7
<1>13. ASSUME NEW t \in Threads, DownloadEnds(t) PROVE Goal
  <2>1. PICK src : FramesFrom(t, {Installing(Top(t).name, Top(t).spec, src)})
    BY <1>0, <1>13, GotoSteps, StepFrames
  <2>2. Top(t).name \in Plugins
    BY <1>0, <1>13, TopFacts, FrameFields DEF DownloadEnds, At
  <2> DEFINE x == Installing(Top(t).name, Top(t).spec, src)
  <2>3. Settled(Top(t).name) /\ UNCHANGED <<disk, user>> /\ x.name = Top(t).name
    BY <1>13, <2>2, FreeIsSettled DEF DownloadEnds, Installing
  <2> HIDE DEF x
  <2>4. FramesFrom(t, {x})
    BY <2>1 DEF x
  <2> QED
    BY <2>3, <2>4, QuietData
<1>14. CASE RestartRegistry
  <2>1. (\A t \in Threads : FramesOf(t)' = {}) /\ UNCHANGED <<disk, user>>
    BY <1>14, Cleared DEF RestartRegistry, Restart
  <2>2. WorkSettled'
    BY <2>1 DEF WorkSettled
  <2>3. DataSafe'
    BY <1>0, <2>1 DEF DataSafe, Kept, disk, user
  <2> QED
    BY <2>2, <2>3
<1>15. CASE UNCHANGED vars
  <2>1. UNCHANGED <<disk, user, stack>>
    BY <1>15 DEF vars, storeVars
  <2>2. WorkSettled'
    BY <1>0, <2>1 DEF WorkSettled, Settled, FramesOf, disk, user
  <2>3. DataSafe'
    BY <1>0, <2>1 DEF DataSafe, Kept, disk, user
  <2> QED
    BY <2>2, <2>3
<1> QED
  BY <1>1, <1>2, <1>3, <1>4, <1>5, <1>6, <1>7, <1>8, <1>9, <1>10, <1>11, <1>12, <1>13, <1>14,
     <1>15 DEF Next, StoreCall, StoreStep

\* What a plugin stored last is in its folder or in a backup, unless it was
\* stored while a call worked on the folder or another backup was restored over
\* it: no failing copy, removal or restoring, no installation by another thread
\* or by a script, and no end of the process takes it away (agents.cpp:226-335).
THEOREM UserDataIsSafe == Spec => []DataSafe
<1>1. Init => DataInv
  <2> SUFFICES ASSUME Init PROVE DataInv
    OBVIOUS
  <2>1. StackInv /\ WorkSettled
    BY InitFacts DEF WorkSettled
  <2>2. DataSafe
    BY DEF Init, StoreInit, DataSafe, Kept
  <2> QED
    BY <2>1, <2>2 DEF DataInv
<1>2. DataInv /\ [Next]_vars => DataInv'
  BY StackInvKept, DataKept DEF DataInv
<1>3. DataInv => DataSafe
  BY DEF DataInv
<1> QED
  BY <1>1, <1>2, <1>3, PTL DEF Spec

(***************************************************************************)
(* The map and the folders, and what scans list                            *)
(***************************************************************************)
\* The thread enters the store, or goes on in it.
Within(t) == Enter(t) \/ (~Idle(t) /\ overlapped' = overlapped)

\* What is left of the frames of t calls something, and is not of new.
Leaves(t, new) ==
    \A y \in FramesOf(t)' : y \in new \/ (y \in FramesOf(t) /\ y.at \notin Leaf)

LEMMA LeafOnTop ==
  ASSUME StackInv, NEW t \in Threads
  PROVE  /\ \A i \in 1 .. Len(stack[t]) - 1 : stack[t][i] \in FramesOf(t) /\ stack[t][i].at \notin Leaf
         /\ Idle(t) \/ Top(t).at \notin Leaf => \A x \in FramesOf(t) : x.at \notin Leaf
         /\ ~Idle(t) /\ Top(t).at \in Leaf /\ Top(t).at \in Bottom => FramesOf(t) = {Top(t)}
<1>0. /\ stack \in [Threads -> Seq(F)] /\ Len(stack[t]) \in Nat
      /\ Idle(t) <=> Len(stack[t]) = 0
      /\ ~Idle(t) => Top(t) = stack[t][Len(stack[t])]
      /\ \A i \in 1 .. Len(stack[t]) : /\ stack[t][i].at \in Bottom => t = Owner /\ i = 1
                                       /\ stack[t][i].at \in Leaf => i = Len(stack[t])
  BY StackFacts DEF StackInv, TypeOK, F, Shape
<1> DEFINE m == Len(stack[t])
<1>1. \A i \in 1 .. m - 1 : i \in 1 .. m /\ i # m
  BY <1>0
<1>2. \A i \in 1 .. m - 1 : stack[t][i] \in FramesOf(t) /\ stack[t][i].at \notin Leaf
  BY <1>0, <1>1 DEF FramesOf
<1>3. ASSUME Idle(t) \/ Top(t).at \notin Leaf, NEW i \in 1 .. m
      PROVE  stack[t][i].at \notin Leaf
  BY <1>0, <1>3
<1>4. ASSUME ~Idle(t), Top(t).at \in Leaf, Top(t).at \in Bottom
      PROVE  FramesOf(t) = {Top(t)}
  <2>1. m \in 1 .. m
    BY <1>0, <1>4
  <2>2. m = 1
    BY <1>0, <1>4, <2>1
  <2> QED
    BY <1>0, <1>4, <2>2 DEF FramesOf
<1> QED
  BY <1>2, <1>3, <1>4 DEF FramesOf

LEMMA StepLeaves ==
  ASSUME StackInv, NEW t \in Threads
  PROVE  /\ \A x : Pushes(t, x) \/ GoesTo(t, x) => Leaves(t, {x})
         /\ Returns(t) \/ Throws(t) => Leaves(t, {})
         /\ \A n : Descends(t, n) =>
              Leaves(t, {[Top(t) EXCEPT !.todo = @ \ {n}], StartFrame(n)})
<1>0. stack \in [Threads -> Seq(F)] /\ TypeOK
  BY DEF StackInv, TypeOK, F
<1>1. ASSUME NEW new, Moves(t, Len(stack[t]) - 1, new)
      PROVE  Leaves(t, new)
  <2>1. ASSUME NEW i \in 1 .. Len(stack'[t])
        PROVE  \/ stack'[t][i] \in new
               \/ stack'[t][i] \in FramesOf(t) /\ stack'[t][i].at \notin Leaf
    <3>1. i > Len(stack[t]) - 1 \/ i \in 1 .. Len(stack[t]) - 1
      BY <1>1 DEF Moves
    <3> QED
      BY <1>1, <3>1, LeafOnTop DEF Moves
  <2> QED
    BY <2>1 DEF Leaves, FramesOf
<1>2. ASSUME NEW x, Pushes(t, x) PROVE Leaves(t, {x})
  <2>1. FramesFrom(t, {x})
    BY <1>0, <1>2, StepFrames
  <2>2. \A y \in FramesOf(t) : y.at \notin Leaf
    BY <1>2, LeafOnTop DEF Pushes, Leaf, Work
  <2> QED
    BY <2>1, <2>2 DEF FramesFrom, Leaves
<1>3. ASSUME NEW x, GoesTo(t, x) PROVE Leaves(t, {x})
  BY <1>0, <1>1, <1>3, GotoFacts DEF GoesTo
<1>4. ASSUME Returns(t) PROVE Leaves(t, {})
  BY <1>0, <1>1, <1>4, ReturnFacts DEF Returns
<1>5. ASSUME Throws(t) PROVE Leaves(t, {})
  BY <1>0, <1>5, ThrowFacts DEF Throws, Leaves
<1>6. ASSUME NEW n, Descends(t, n)
      PROVE  Leaves(t, {[Top(t) EXCEPT !.todo = @ \ {n}], StartFrame(n)})
  <2> DEFINE x == [Top(t) EXCEPT !.todo = @ \ {n}]
             y == StartFrame(n)
  <2>1. ~Idle(t) /\ x \in F /\ y \in F /\ Frames(t, Front(stack[t]) \o <<x, y>>)
    BY <1>6 DEF Descends, At
  <2> HIDE DEF x, y
  <2>2. Moves(t, Len(stack[t]) - 1, {x, y})
    BY <1>0, <2>1, DescendFacts
  <2>3. Leaves(t, {x, y})
    BY <1>1, <2>2
  <2> QED
    BY <2>3 DEF x, y
<1> QED
  BY <1>2, <1>3, <1>4, <1>5, <1>6

\* What is listed stays listed.
Lists == \A n : listed[n] # None => listed'[n] # None

LEMMA CoverKept ==
  ASSUME StackInv, NEW t \in Threads, ScansCover(t), Lists
  PROVE  /\ \A x : Pushes(t, x) /\ (x.at = "scan" => x.todo = x.found) => ScansCover(t)'
         /\ \A x : GoesTo(t, x) => ScansCover(t)'
         /\ Returns(t) /\ (Top(t).at = "start" => listed'[Top(t).name] # None) => ScansCover(t)'
         /\ Throws(t) => ScansCover(t)'
         /\ \A n : Descends(t, n) => ScansCover(t)'
<1> DEFINE m == Len(stack[t])
<1>0. /\ stack \in [Threads -> Seq(F)] /\ m \in Nat
      /\ Idle(t) <=> m = 0
      /\ ~Idle(t) => Top(t) = stack[t][m] /\ Top(t) \in F
  BY StackFacts DEF StackInv, TypeOK, F
\* A frame stays covered, unless the start on top of it has gone or is another.
<1>1. ASSUME NEW i \in 1 .. m, i \in 1 .. Len(stack'[t]), stack'[t][i] = stack[t][i],
             stack[t][i].at = "scan",
             \/ /\ i + 1 \in 1 .. m /\ i + 1 \in 1 .. Len(stack'[t])
                /\ stack'[t][i + 1] = stack[t][i + 1]
             \/ i = m
             \/ i + 1 = m /\ stack[t][m].at # "start"
             \/ i + 1 = m /\ listed'[stack[t][m].name] # None
      PROVE  \A n \in stack'[t][i].found : Covered(stack[t], i, n)'
  <2> SUFFICES ASSUME NEW n \in stack[t][i].found
               PROVE  \/ n \in stack'[t][i].todo
                      \/ listed'[n] # None
                      \/ /\ i < Len(stack'[t])
                         /\ stack'[t][i + 1].at = "start" /\ stack'[t][i + 1].name = n
    BY <1>1 DEF Covered
  <2>1. \/ n \in stack[t][i].todo
        \/ listed[n] # None
        \/ i < m /\ stack[t][i + 1].at = "start" /\ stack[t][i + 1].name = n
    BY <1>1 DEF ScansCover, Covered
  <2>2. CASE n \in stack[t][i].todo \/ listed[n] # None
    BY <1>1, <2>2 DEF Lists
  <2>3. CASE i < m /\ stack[t][i + 1].at = "start" /\ stack[t][i + 1].name = n
    <3>1. CASE i + 1 \in 1 .. m /\ i + 1 \in 1 .. Len(stack'[t])
               /\ stack'[t][i + 1] = stack[t][i + 1]
      BY <1>0, <2>3, <3>1
    <3>2. CASE i = m
      BY <1>0, <2>3, <3>2
    <3>3. CASE i + 1 = m /\ (stack[t][m].at # "start" \/ listed'[stack[t][m].name] # None)
      BY <2>3, <3>3
    <3> QED
      BY <1>1, <3>1, <3>2, <3>3
  <2> QED
    BY <2>1, <2>2, <2>3
<1>2. ASSUME NEW x, Pushes(t, x), x.at = "scan" => x.todo = x.found
      PROVE  ScansCover(t)'
  <2>1. /\ Moves(t, m, {x}) /\ Len(stack'[t]) = m + 1 /\ stack'[t][m + 1] = x
    BY <1>0, <1>2, PushFacts DEF Pushes
  <2>2. \A i \in 1 .. m : stack'[t][i] = stack[t][i]
    BY <2>1 DEF Moves
  <2>3. ASSUME NEW i \in 1 .. m + 1, stack'[t][i].at = "scan"
        PROVE  \A n \in stack'[t][i].found : Covered(stack[t], i, n)'
    <3>1. CASE i = m + 1
      BY <1>2, <2>1, <2>3, <3>1 DEF Covered
    <3>2. CASE i # m + 1
      <4>1. /\ i \in 1 .. m /\ i \in 1 .. Len(stack'[t]) /\ stack'[t][i] = stack[t][i]
            /\ i = m \/ (i + 1 \in 1 .. m /\ i + 1 \in 1 .. Len(stack'[t]))
        BY <1>0, <2>1, <2>2, <3>2
      <4> QED
        BY <1>1, <2>2, <2>3, <4>1
    <3> QED
      BY <3>1, <3>2
  <2> QED
    BY <2>1, <2>3 DEF ScansCover
<1>3. ASSUME NEW x, GoesTo(t, x) PROVE ScansCover(t)'
  <2>1. /\ Moves(t, m - 1, {x}) /\ Len(stack'[t]) = m /\ stack'[t][m] = x
        /\ m # 0 /\ stack[t][m].at # "start" /\ x.at # "scan"
    BY <1>0, <1>3, GotoFacts DEF GoesTo, Leaf, Work
  <2>2. \A i \in 1 .. m - 1 : stack'[t][i] = stack[t][i]
    BY <2>1 DEF Moves
  <2>3. ASSUME NEW i \in 1 .. m, stack'[t][i].at = "scan"
        PROVE  \A n \in stack'[t][i].found : Covered(stack[t], i, n)'
    <3>1. i # m
      BY <2>1, <2>3
    <3>2. /\ i \in 1 .. m /\ i \in 1 .. Len(stack'[t]) /\ i \in 1 .. m - 1
          /\ i + 1 = m \/ (i + 1 \in 1 .. m /\ i + 1 \in 1 .. Len(stack'[t]) /\ i + 1 \in 1 .. m - 1)
      BY <1>0, <2>1, <3>1
    <3> QED
      BY <1>1, <2>1, <2>2, <2>3, <3>2
  <2> QED
    BY <2>1, <2>3 DEF ScansCover
<1>4. ASSUME Returns(t), Top(t).at = "start" => listed'[Top(t).name] # None
      PROVE  ScansCover(t)'
  <2>1. Moves(t, m - 1, {}) /\ Len(stack'[t]) = m - 1 /\ m # 0
    BY <1>0, <1>4, ReturnFacts DEF Returns
  <2>2. \A i \in 1 .. m - 1 : stack'[t][i] = stack[t][i]
    BY <2>1 DEF Moves
  <2>3. ASSUME NEW i \in 1 .. m - 1, stack'[t][i].at = "scan"
        PROVE  \A n \in stack'[t][i].found : Covered(stack[t], i, n)'
    <3>1. /\ i \in 1 .. m /\ i \in 1 .. Len(stack'[t])
          /\ i + 1 = m \/ (i + 1 \in 1 .. m /\ i + 1 \in 1 .. Len(stack'[t]) /\ i + 1 \in 1 .. m - 1)
      BY <1>0, <2>1
    <3>2. stack[t][m].at # "start" \/ listed'[stack[t][m].name] # None
      BY <1>0, <1>4, <2>1
    <3> QED
      BY <1>1, <2>2, <2>3, <3>1, <3>2
  <2> QED
    BY <2>1, <2>3 DEF ScansCover
<1>5. ASSUME Throws(t) PROVE ScansCover(t)'
  BY <1>0, <1>5, ThrowFacts DEF Throws, ScansCover
<1>6. ASSUME NEW n, Descends(t, n) PROVE ScansCover(t)'
  <2> DEFINE x == [Top(t) EXCEPT !.todo = @ \ {n}]
             y == StartFrame(n)
  <2>1. /\ ~Idle(t) /\ Top(t).at = "scan" /\ x \in F /\ y \in F
        /\ Frames(t, Front(stack[t]) \o <<x, y>>)
    BY <1>6 DEF Descends, At
  <2>2. Top(t) \in [at : {"scan"}, todo : SUBSET Plugins, found : SUBSET Plugins]
    BY <1>0, <2>1 DEF F, Frame, RegistryFrame
  <2>3. /\ x.at = "scan" /\ x.todo = Top(t).todo \ {n} /\ x.found = Top(t).found
        /\ y.at = "start" /\ y.name = n
    BY <2>2 DEF StartFrame
  <2> HIDE DEF x, y
  <2>4. /\ Moves(t, m - 1, {x, y}) /\ Len(stack'[t]) = m + 1
        /\ stack'[t][m] = x /\ stack'[t][m + 1] = y /\ m # 0
    BY <1>0, <2>1, DescendFacts
  <2>5. \A i \in 1 .. m - 1 : stack'[t][i] = stack[t][i]
    BY <2>4 DEF Moves
  <2>6. \A k \in x.found : k = n \/ k \in x.todo \/ listed'[k] # None
    <3> SUFFICES ASSUME NEW k \in Top(t).found, k # n, k \notin Top(t).todo
                 PROVE  listed'[k] # None
      BY <2>3
    <3>1. m \in 1 .. m /\ ~(m < m)
      BY <1>0, <2>4
    <3>2. Covered(stack[t], m, k)
      BY <1>0, <2>1, <3>1 DEF ScansCover
    <3> QED
      BY <1>0, <2>1, <3>1, <3>2 DEF Covered, Lists
  <2>7. ASSUME NEW i \in 1 .. m + 1, stack'[t][i].at = "scan"
        PROVE  \A k \in stack'[t][i].found : Covered(stack[t], i, k)'
    <3>1. CASE i = m
      <4>1. m < Len(stack'[t]) /\ m + 1 = i + 1
        BY <1>0, <2>4, <3>1
      <4> QED
        BY <2>3, <2>4, <2>6, <3>1, <4>1 DEF Covered
    <3>2. CASE i # m
      <4>1. i # m + 1
        BY <2>3, <2>4, <2>7
      <4>2. /\ i \in 1 .. m /\ i \in 1 .. Len(stack'[t]) /\ i \in 1 .. m - 1
            /\ i + 1 = m \/ (i + 1 \in 1 .. m /\ i + 1 \in 1 .. Len(stack'[t]) /\ i + 1 \in 1 .. m - 1)
        BY <1>0, <2>4, <3>2, <4>1
      <4>3. stack[t][m].at # "start"
        BY <1>0, <2>1
      <4> QED
        BY <1>1, <2>5, <2>7, <4>2, <4>3
    <3> QED
      BY <3>1, <3>2
  <2> QED
    BY <2>4, <2>7 DEF ScansCover
<1> QED
  BY <1>2, <1>3, <1>4, <1>5, <1>6

Alone(t) == ~overlapped /\ (\A n \in Plugins : Agrees(n)) /\ ThreadInv(t)
StillAgrees(t) == (\A n \in Plugins : Agrees(n)') /\ ThreadInv(t)'

LEMMA OthersStay ==
  ASSUME StackInv, NEW t \in Threads, Steps(t)
  PROVE  \A u \in Threads \ {t} : stack'[u] = stack[u]
<1>0. stack \in [Threads -> Seq(F)]
  BY DEF StackInv, TypeOK, F
<1>1. ASSUME NEW x, Pushes(t, x) \/ GoesTo(t, x)
      PROVE  \A u \in Threads \ {t} : stack'[u] = stack[u]
  BY <1>0, <1>1, PushFacts, GotoFacts DEF Pushes, GoesTo, Moves
<1>2. ASSUME Returns(t) \/ Throws(t)
      PROVE  \A u \in Threads \ {t} : stack'[u] = stack[u]
  BY <1>0, <1>2, ReturnFacts, ThrowFacts DEF Returns, Throws, Moves
<1>3. ASSUME NEW n, Descends(t, n)
      PROVE  \A u \in Threads \ {t} : stack'[u] = stack[u]
  BY <1>0, <1>3, DescendFacts DEF Descends, At, Moves
<1> QED
  BY <1>1, <1>2, <1>3 DEF Steps

LEMMA NoFrames ==
  ASSUME NEW t \in Threads, FramesOf(t) = {}
  PROVE  ThreadInv(t)
  BY DEF ThreadInv, StartsAsRead, CopiesUnlisted, ScansCover, FramesOf

LEMMA NoFramesLater ==
  ASSUME NEW t \in Threads, FramesOf(t)' = {}
  PROVE  ThreadInv(t)'
  BY DEF ThreadInv, StartsAsRead, CopiesUnlisted, ScansCover, FramesOf

\* Who is alone in the store need only look at itself.
LEMMA AloneStep ==
  ASSUME VersionInv, NEW t \in Threads, Within(t), Steps(t),
         Alone(t) => StillAgrees(t), ~overlapped'
  PROVE  OneInside' /\ (\A n \in Plugins : Agrees(n)') /\ \A u \in Threads : ThreadInv(u)'
<1>0. StackInv /\ stack \in [Threads -> Seq(F)]
  BY DEF VersionInv, StackInv, TypeOK, F
<1>1. ~overlapped /\ OneInside /\ (\A n \in Plugins : Agrees(n)) /\ ThreadInv(t)
  <2>1. overlapped \in BOOLEAN /\ overlapped' \in BOOLEAN
    BY <1>0 DEF StackInv, TypeOK, StoreTypeOK, Within, Enter
  <2>2. overlapped => overlapped'
    BY <2>1 DEF Within, Enter
  <2> QED
    BY <2>2 DEF VersionInv
<1>2. \A u \in Threads \ {t} : Idle(u)
  BY <1>1 DEF Within, Enter, OneInside
<1>3. \A u \in Threads \ {t} : Idle(u)' /\ FramesOf(u)' = FramesOf(u)
  BY <1>0, <1>2, OthersStay DEF Idle, FramesOf
<1>4. \A u \in Threads \ {t} : FramesOf(u)' = {}
  BY <1>0, <1>2, <1>3, StackFacts
<1>5. OneInside'
  <2> SUFFICES ASSUME NEW u \in Threads, NEW v \in Threads, ~Idle(u)', ~Idle(v)'
               PROVE  u = v
    BY DEF OneInside
  <2> QED
    BY <1>3
<1>6. \A u \in Threads \ {t} : ThreadInv(u)'
  BY <1>4, NoFramesLater
<1> QED
  BY <1>1, <1>5, <1>6 DEF Alone, StillAgrees

\* What is asked of the frames that stay, and of new ones.
LEMMA ThreadStays ==
  ASSUME NEW t \in Threads, ThreadInv(t), NEW new, Leaves(t, new),
         \A x \in FramesOf(t) : x.at = "start" => AsRead(x)',
         \A x \in new : x.at = "start" => AsRead(x)',
         \A x \in new : x.at \in Copying =>
             /\ listed'[x.name] = None
             /\ \A y \in FramesOf(t) \cup new : y.at = "start" => y.name # x.name,
         ScansCover(t)'
  PROVE  ThreadInv(t)'
<1>1. StartsAsRead(t)'
  BY DEF StartsAsRead, Leaves
<1>2. \A x \in FramesOf(t)' : x.at \in Copying => x \in new
  BY DEF Leaves, Leaf, Work, Copying
<1>3. \A y \in FramesOf(t)' : y \in FramesOf(t) \cup new
  BY DEF Leaves
<1>4. CopiesUnlisted(t)'
  BY <1>2, <1>3 DEF CopiesUnlisted
<1> QED
  BY <1>1, <1>4 DEF ThreadInv

\* No folder and no entry of the map changes; what is new does not copy.
LEMMA QuietVersions ==
  ASSUME NEW t \in Threads, Alone(t), NEW new, Leaves(t, new),
         \A x \in new : x.at \notin Copying /\ (x.at = "start" => AsRead(x)),
         UNCHANGED <<folder, listed>>, ScansCover(t)'
  PROVE  StillAgrees(t)
<1>1. \A x : AsRead(x)' <=> AsRead(x)
  BY DEF AsRead
<1>2. \A n \in Plugins : Agrees(n)'
  BY DEF Alone, Agrees
<1>3. ThreadInv(t) /\ \A x \in FramesOf(t) : x.at = "start" => AsRead(x)'
  BY <1>1 DEF Alone, ThreadInv, StartsAsRead
<1>4. ThreadInv(t)'
  BY <1>1, <1>3, ThreadStays
<1> QED
  BY <1>2, <1>4 DEF StillAgrees

LEMMA UnchangedLists ==
  ASSUME UNCHANGED listed PROVE Lists
  BY DEF Lists

\* Calls and returns that only move the thread.
LEMMA QuietCover ==
  ASSUME StackInv, NEW t \in Threads, Alone(t), UNCHANGED <<folder, listed>>,
         \/ \E x : /\ Pushes(t, x) \/ GoesTo(t, x)
                   /\ x.at \notin Copying \cup {"start"}
                   /\ x.at = "scan" => x.todo = x.found
         \/ Returns(t) /\ Top(t).at # "start"
         \/ Throws(t)
         \/ \E n : Descends(t, n)
  PROVE  StillAgrees(t)
<1>0. ScansCover(t) /\ Lists
  BY UnchangedLists DEF Alone, ThreadInv
<1>1. ASSUME NEW x, Pushes(t, x) \/ GoesTo(t, x), x.at \notin Copying \cup {"start"},
             x.at = "scan" => x.todo = x.found
      PROVE  StillAgrees(t)
  <2>1. ScansCover(t)'
    BY <1>0, <1>1, CoverKept
  <2>2. Leaves(t, {x})
    BY <1>1, StepLeaves
  <2> QED
    BY <1>1, <2>1, <2>2, QuietVersions
<1>2. ASSUME (Returns(t) /\ Top(t).at # "start") \/ Throws(t)
      PROVE  StillAgrees(t)
  <2>1. ScansCover(t)'
    BY <1>0, <1>2, CoverKept
  <2>2. Leaves(t, {})
    BY <1>2, StepLeaves
  <2> QED
    BY <2>1, <2>2, QuietVersions
<1>3. ASSUME NEW n, Descends(t, n) PROVE StillAgrees(t)
  <2> DEFINE x == [Top(t) EXCEPT !.todo = @ \ {n}]
             y == StartFrame(n)
  <2>1. ScansCover(t)'
    BY <1>0, <1>3, CoverKept
  <2>2. Leaves(t, {x, y})
    BY <1>3, StepLeaves
  <2>3. Top(t).at = "scan" /\ Top(t) \in F
    BY <1>3, TopFacts DEF Descends, At, StackInv
  <2>4. x.at = "scan" /\ y.at = "start"
    BY <2>3 DEF StartFrame, F, Frame, RegistryFrame
  <2>5. AsRead(y)
    BY <1>3 DEF Descends, Constructible, StartFrame, AsRead
  <2> HIDE DEF x, y
  <2>6. \A z \in {x, y} : z.at \notin Copying /\ (z.at = "start" => AsRead(z))
    BY <2>4, <2>5 DEF Copying
  <2> QED
    BY <2>1, <2>2, <2>6, QuietVersions
<1> QED
  BY <1>1, <1>2, <1>3

\* A folder changes whose plugin is not listed, or that keeps or loses its toml.
LEMMA AlteredAgrees ==
  ASSUME TypeOK, NEW n \in Plugins, NEW f \in Folder \cup {None}, Alters(n, f),
         \A m \in Plugins : Agrees(m),
         \/ listed'[n] = None
         \/ listed' = listed /\ f # None /\ f.toml \in {None, folder[n].toml},
         \A m \in Plugins \ {n} : listed'[m] = listed[m]
  PROVE  \A m \in Plugins : Agrees(m)'
<1>1. folder'[n] = f /\ \A m \in Plugins \ {n} : folder'[m] = folder[m]
  BY AlteredTypes DEF TypeOK
<1>2. \A m \in Plugins \ {n} : Agrees(m)'
  BY <1>1 DEF Agrees
<1>3. Agrees(n)'
  BY <1>1 DEF Agrees
<1> QED
  BY <1>2, <1>3

LEMMA AlteredStarts ==
  ASSUME TypeOK, NEW t \in Threads, StartsAsRead(t), NEW n \in Plugins,
         NEW f \in Folder \cup {None}, Alters(n, f)
  PROVE  \A x \in FramesOf(t) : x.at = "start" /\ x.name # n => AsRead(x)'
<1>1. \A m \in Plugins \ {n} : folder'[m] = folder[m]
  BY AlteredTypes DEF TypeOK
<1> SUFFICES ASSUME NEW x \in FramesOf(t), x.at = "start", x.name # n PROVE AsRead(x)'
  OBVIOUS
<1>2. x.name \in Plugins
  BY StackFacts, FrameFields DEF TypeOK, F
<1> QED
  BY <1>1, <1>2 DEF StartsAsRead, AsRead

\* The first step of an installation: nobody starts what is not there.
LEMMA InstallBegins ==
  ASSUME StackInv, NEW t \in Threads, Alone(t), NEW n \in Plugins, MayInstall(n),
         NEW x, Pushes(t, x) \/ GoesTo(t, x), x.at = "create", x.name = n,
         UNCHANGED <<folder, listed>>
  PROVE  StillAgrees(t)
<1>1. ScansCover(t)'
  BY CoverKept, UnchangedLists DEF Alone, ThreadInv
<1>2. Leaves(t, {x})
  BY StepLeaves
<1>3. \A y : AsRead(y)' <=> AsRead(y)
  BY DEF AsRead
<1>4. \A m \in Plugins : Agrees(m)'
  BY DEF Alone, Agrees
<1>5. \A y \in FramesOf(t) : y.at = "start" => AsRead(y)' /\ y.name # n
  BY <1>3 DEF Alone, ThreadInv, StartsAsRead, AsRead, MayInstall
<1>6. listed'[n] = None
  BY DEF MayInstall
<1>7. ThreadInv(t)'
  BY <1>1, <1>2, <1>5, <1>6, ThreadStays DEF Alone
<1> QED
  BY <1>4, <1>7 DEF StillAgrees

\* An installation goes on, or removes what it has copied.
LEMMA InstallGoesOn ==
  ASSUME StackInv, NEW t \in Threads, Alone(t), ~Idle(t), Top(t).at \in Copying,
         NEW f \in Folder \cup {None}, Alters(Top(t).name, f), UNCHANGED listed,
         \/ \E c \in Copying : GoesTo(t, [Top(t) EXCEPT !.at = c])
         \/ Returns(t) \/ Throws(t)
  PROVE  StillAgrees(t)
<1> PICK n : n = Top(t).name
  OBVIOUS
<1>0. TypeOK /\ Lists /\ ThreadInv(t) /\ ScansCover(t) /\ \A m \in Plugins : Agrees(m)
  BY UnchangedLists DEF StackInv, Alone, ThreadInv
<1>1. n \in Plugins /\ Top(t) \in F /\ Top(t) \in FramesOf(t)
  BY <1>0, TopFacts, FrameFields
<1>2. listed[n] = None /\ \A y \in FramesOf(t) : y.at = "start" => y.name # n
  BY <1>0, <1>1 DEF ThreadInv, CopiesUnlisted
<1>3. \A m \in Plugins : Agrees(m)'
  BY <1>0, <1>1, <1>2, AlteredAgrees
<1>4. \A y \in FramesOf(t) : y.at = "start" => AsRead(y)'
  BY <1>0, <1>1, <1>2, AlteredStarts DEF ThreadInv
<1>5. ASSUME NEW c \in Copying, GoesTo(t, [Top(t) EXCEPT !.at = c])
      PROVE  ThreadInv(t)'
  <2> DEFINE x == [Top(t) EXCEPT !.at = c]
  <2>1. x.at = c /\ x.name = n
    BY <1>1, CopyGoesOn
  <2>2. Leaves(t, {x})
    BY <1>5, StepLeaves
  <2>3. ScansCover(t)'
    BY <1>0, <1>5, CoverKept
  <2>4. x.at # "start"
    BY <2>1 DEF Copying
  <2> HIDE DEF x
  <2> QED
    BY <1>0, <1>2, <1>4, <2>1, <2>2, <2>3, <2>4, ThreadStays
<1>6. ASSUME Returns(t) \/ Throws(t) PROVE ThreadInv(t)'
  <2>1. Leaves(t, {})
    BY <1>6, StepLeaves
  <2>2. ScansCover(t)'
    BY <1>0, <1>6, CoverKept DEF Copying
  <2> QED
    BY <1>0, <1>4, <2>1, <2>2, ThreadStays
<1> QED
  BY <1>3, <1>5, <1>6 DEF StillAgrees

\* The installation ends well, or the script of a plugin does.
LEMMA ListedAgrees ==
  ASSUME StackInv, NEW t \in Threads, Alone(t), Returns(t), UNCHANGED folder,
         NEW n \in Plugins, n = Top(t).name, folder[n] # None, folder[n].toml # None,
         listed' = [listed EXCEPT ![n] = folder[n].toml]
  PROVE  StillAgrees(t)
<1>0. /\ TypeOK /\ ThreadInv(t) /\ ScansCover(t) /\ (\A m \in Plugins : Agrees(m))
      /\ listed \in [Plugins -> Versions \cup {None}]
  BY DEF StackInv, TypeOK, StoreTypeOK, Alone, ThreadInv
<1>1. listed'[n] = folder[n].toml /\ \A m : m # n => listed'[m] = listed[m]
  BY <1>0
<1>2. Lists
  BY <1>1 DEF Lists
<1>3. \A m \in Plugins : Agrees(m)'
  BY <1>0, <1>1 DEF Agrees
<1>4. ScansCover(t)'
  BY <1>0, <1>1, <1>2, CoverKept
<1>5. Leaves(t, {})
  BY StepLeaves
<1>6. \A x \in FramesOf(t) : x.at = "start" => AsRead(x)'
  BY <1>0 DEF ThreadInv, StartsAsRead, AsRead
<1>7. ThreadInv(t)'
  BY <1>0, <1>4, <1>5, <1>6, ThreadStays
<1> QED
  BY <1>3, <1>7 DEF StillAgrees

\* The application's calls stand alone on its stack.
LEMMA CallEnds ==
  ASSUME StackInv, NEW t \in Threads, Returns(t), Top(t).at \in Bottom \cap Leaf
  PROVE  ThreadInv(t)'
<1>1. FramesOf(t) = {Top(t)}
  BY LeafOnTop DEF Returns
<1>2. Leaves(t, {})
  BY StepLeaves
<1>3. FramesOf(t)' = {}
  BY <1>1, <1>2 DEF Leaves
<1> QED
  BY <1>3, NoFramesLater

LEMMA EmptyStack ==
  ASSUME StackInv, NEW t \in Threads, Idle(t), NEW x, Pushes(t, x), x.at \in Bottom,
         x.at # "scan"
  PROVE  ThreadInv(t)'
<1>1. FramesOf(t) = {} /\ TypeOK
  BY StackFacts DEF StackInv, TypeOK, F
<1>2. FramesFrom(t, {x})
  BY <1>1, StepFrames
<1>3. \A y \in FramesOf(t)' : y = x
  BY <1>1, <1>2 DEF FramesFrom
<1>4. \A i \in 1 .. Len(stack'[t]) : stack'[t][i] = x
  BY <1>3 DEF FramesOf
<1>5. x.at \notin Copying /\ x.at # "start"
  BY DEF Bottom, Copying
<1> QED
  BY <1>3, <1>4, <1>5 DEF ThreadInv, StartsAsRead, CopiesUnlisted, ScansCover

LEMMA VersionsKept ==
  ASSUME VersionInv, [Next]_vars, ~overlapped'
  PROVE  OneInside' /\ (\A n \in Plugins : Agrees(n)') /\ \A u \in Threads : ThreadInv(u)'
<1> DEFINE Goal == OneInside' /\ (\A n \in Plugins : Agrees(n)')
                     /\ \A u \in Threads : ThreadInv(u)'
<1>0. /\ StackInv /\ TypeOK /\ StoreTypeOK
      /\ listed \in [Plugins -> Versions \cup {None}]
      /\ folder \in [Plugins -> {None} \cup Folder]
  BY DEF VersionInv, StackInv, TypeOK, StoreTypeOK
<1>a. ASSUME NEW t \in Threads, ~Idle(t), Top(t).at \in Copying \cup {"start", "remove", "restore"}
      PROVE  Top(t).name \in Plugins
  BY <1>0, <1>a, TopFacts, FrameFields
<1>1. ASSUME NEW t \in Threads,
             \/ GetPlugins(t) \/ PluginSends(t) \/ MergeScans(t)
             \/ Fetch(t) \/ FetchFails(t) \/ RescanInstalled(t)
             \/ \E n \in Plugins : UninstallPlugin(t, n) \/ Install(t, n)
      PROVE  Goal
  <2>1. \E x : /\ Pushes(t, x) /\ x.at \notin Copying \cup {"start"}
               /\ x.at = "scan" => x.todo = x.found
    <3>1. CASE GetPlugins(t) \/ PluginSends(t) \/ MergeScans(t)
      <4>1. /\ Pushes(t, ScanFrame) /\ ScanFrame.at = "scan"
            /\ ScanFrame.todo = ScanFrame.found
        BY <1>0, <3>1, PushSteps, ScanFrameType DEF ScanFrame
      <4> QED
        BY <4>1 DEF Copying
    <3>2. CASE Fetch(t)
      <4>1. PICK got \in SUBSET Offered : Pushes(t, [at |-> "write", got |-> got])
        BY <1>0, <3>2, PushSteps
      <4> QED
        BY <4>1 DEF Copying
    <3>3. CASE FetchFails(t)
      <4>1. PICK x : Pushes(t, x) /\ x.at = "merge"
        BY <1>0, <3>3, PushSteps, MergeFrames
      <4> QED
        BY <4>1 DEF Copying
    <3>4. CASE RescanInstalled(t)
      <4>1. Pushes(t, [at |-> "merge", table |-> table, error |-> error])
        BY <1>0, <3>4, PushSteps
      <4> QED
        BY <4>1 DEF Copying
    <3>5. ASSUME NEW n \in Plugins, UninstallPlugin(t, n)
          PROVE  \E x : /\ Pushes(t, x) /\ x.at \notin Copying \cup {"start"}
                        /\ x.at = "scan" => x.todo = x.found
      <4>1. Pushes(t, [at |-> "backup", name |-> n])
        BY <1>0, <3>5, PushSteps
      <4> QED
        BY <4>1 DEF Copying
    <3>6. ASSUME NEW n \in Plugins, Install(t, n)
          PROVE  \E x : /\ Pushes(t, x) /\ x.at \notin Copying \cup {"start"}
                        /\ x.at = "scan" => x.todo = x.found
      <4>1. Pushes(t, [at |-> "download", name |-> n, spec |-> table[n]])
        BY <1>0, <3>6, PushSteps
      <4> QED
        BY <4>1 DEF Copying
    <3> QED
      BY <1>1, <3>1, <3>2, <3>3, <3>4, <3>5, <3>6
  <2>2. UNCHANGED <<folder, listed>> /\ Within(t)
    BY <1>1 DEF GetPlugins, PluginSends, MergeScans, Fetch, FetchFails, RescanInstalled,
                UninstallPlugin, Install, At, Within, disk, memory
  <2>3. Alone(t) => StillAgrees(t)
    BY <1>0, <2>1, <2>2, QuietCover
  <2>4. Steps(t)
    BY <2>1 DEF Steps
  <2> QED
    BY <2>2, <2>3, <2>4, AloneStep
<1>2. ASSUME NEW t \in Threads, WriteEnds(t) \/ WriteFails(t) \/ BackupEnds(t)
      PROVE  Goal
  <2>1. \E x : GoesTo(t, x) /\ x.at \in {"merge", "remove"}
    <3>1. CASE WriteEnds(t)
      <4>1. GoesTo(t, [at |-> "merge", table |-> Specs(Top(t).got), error |-> "none"])
        BY <1>0, <3>1, GotoSteps
      <4> QED
        BY <4>1
    <3>2. CASE WriteFails(t)
      BY <1>0, <3>2, GotoSteps, MergeFrames
    <3>3. CASE BackupEnds(t)
      <4>1. GoesTo(t, [at |-> "remove", name |-> Top(t).name])
        BY <1>0, <3>3, GotoSteps
      <4> QED
        BY <4>1
    <3> QED
      BY <1>2, <3>1, <3>2, <3>3
  <2>2. PICK x : GoesTo(t, x) /\ x.at \notin Copying \cup {"start"} /\ x.at # "scan"
    BY <2>1 DEF Copying
  <2>3. UNCHANGED <<folder, listed>> /\ Within(t)
    BY <1>2 DEF WriteEnds, WriteFails, BackupEnds, At, Within, disk, memory
  <2>4. Alone(t) => StillAgrees(t)
    BY <1>0, <2>2, <2>3, QuietCover
  <2>5. Steps(t)
    BY <2>2 DEF Steps
  <2> QED
    BY <2>3, <2>4, <2>5, AloneStep
<1>3. ASSUME NEW t \in Threads,
             \/ PluginFails(t) \/ ScanEnds(t) \/ ScanNext(t) \/ BackupFails(t)
             \/ RestoreFails(t) \/ MergeEnds(t) \/ DownloadFails(t)
      PROVE  Goal
  <2>1. \/ Returns(t) /\ Top(t).at # "start"
        \/ Throws(t)
        \/ \E n : Descends(t, n)
    BY <1>0, <1>3, EndSteps DEF ScanEnds, BackupFails, MergeEnds, DownloadFails, At
  <2>2. UNCHANGED <<folder, listed>> /\ Within(t)
    BY <1>3 DEF PluginFails, ScanEnds, ScanNext, BackupFails, RestoreFails, MergeEnds,
                DownloadFails, At, Within, disk, memory
  <2>3. Alone(t) => StillAgrees(t)
    BY <1>0, <2>1, <2>2, QuietCover
  <2>4. Steps(t)
    BY <2>1 DEF Steps
  <2> QED
    BY <2>2, <2>3, <2>4, AloneStep
<1>4. ASSUME NEW t \in Threads, NEW n \in Plugins, NEW src \in Sources, InstallPlugin(t, n, src)
      PROVE  Goal
  <2> DEFINE x == Installing(n, SpecOnDisk(src), src)
  <2>1. Pushes(t, x) /\ x.at = "create" /\ x.name = n
    BY <1>0, <1>4, PushSteps DEF Installing
  <2>2. UNCHANGED <<folder, listed>> /\ Within(t) /\ MayInstall(n)
    BY <1>4 DEF InstallPlugin, Within, disk, memory
  <2> HIDE DEF x
  <2>3. Alone(t) => StillAgrees(t)
    BY <1>0, <2>1, <2>2, InstallBegins
  <2>4. Steps(t)
    BY <2>1 DEF Steps
  <2> QED
    BY <2>2, <2>3, <2>4, AloneStep
<1>5. ASSUME NEW t \in Threads, DownloadEnds(t) PROVE Goal
  <2>1. PICK src : GoesTo(t, Installing(Top(t).name, Top(t).spec, src))
    BY <1>0, <1>5, GotoSteps
  <2>2. Top(t).name \in Plugins
    BY <1>0, <1>5, TopFacts, FrameFields DEF DownloadEnds, At
  <2> DEFINE x == Installing(Top(t).name, Top(t).spec, src)
  <2>3. x.at = "create" /\ x.name = Top(t).name
    BY DEF Installing
  <2>4. UNCHANGED <<folder, listed>> /\ Within(t) /\ MayInstall(Top(t).name)
    BY <1>5 DEF DownloadEnds, At, Within, disk, memory
  <2>5. GoesTo(t, x)
    BY <2>1
  <2> HIDE DEF x
  <2>6. Alone(t) => StillAgrees(t)
    BY <1>0, <2>2, <2>3, <2>4, <2>5, InstallBegins
  <2>7. Steps(t)
    BY <2>5 DEF Steps
  <2> QED
    BY <2>4, <2>6, <2>7, AloneStep
<1>6. ASSUME NEW t \in Threads, CopyBegins(t) \/ CopyEnds(t) PROVE Goal
  <2>1. PICK c \in Copying : GoesTo(t, [Top(t) EXCEPT !.at = c])
    BY <1>0, <1>6, GotoSteps DEF Copying
  <2>2. PICK f \in Folder \cup {None} : Alters(Top(t).name, f)
    BY <1>0, <1>6, CopyBeginsFolder, CopyEndsFolder
  <2>3. ~Idle(t) /\ Top(t).at \in Copying /\ UNCHANGED listed /\ Within(t)
    BY <1>6 DEF CopyBegins, CopyEnds, At, Within, memory, Copying
  <2>4. Alone(t) => StillAgrees(t)
    BY <1>0, <2>1, <2>2, <2>3, InstallGoesOn
  <2>5. Steps(t)
    BY <2>1 DEF Steps
  <2> QED
    BY <2>3, <2>4, <2>5, AloneStep
<1>7. ASSUME NEW t \in Threads, CopyFails(t) \/ Verify(t) PROVE Goal
  <2>1. ~Idle(t) /\ Top(t).at \in Copying /\ Within(t)
    BY <1>7 DEF CopyFails, Verify, At, Within, Copying
  <2>2. Top(t).name \in Plugins
    BY <1>a, <2>1
  <2>3. Returns(t) \/ Throws(t)
    BY <1>0, <1>7, EndSteps
  <2>4. Steps(t)
    BY <2>3 DEF Steps
  <2>5. \/ RemoveTarget(t) /\ UNCHANGED listed
        \/ UNCHANGED <<folder, listed>> /\ Throws(t)
        \/ /\ Constructible(Top(t).name) /\ UNCHANGED folder /\ Returns(t)
           /\ listed' = [listed EXCEPT ![Top(t).name] = folder[Top(t).name].toml]
    BY <1>7 DEF CopyFails, Verify, At, memory, Throws, Returns
  <2>6. CASE RemoveTarget(t) /\ UNCHANGED listed
    <3>1. PICK f \in Folder \cup {None} : Alters(Top(t).name, f)
      BY <1>0, <2>2, <2>6, RemoveTargetReduces DEF Reduces
    <3>2. Alone(t) => StillAgrees(t)
      BY <1>0, <2>1, <2>3, <2>6, <3>1, InstallGoesOn
    <3> QED
      BY <2>1, <2>4, <3>2, AloneStep
  <2>7. CASE UNCHANGED <<folder, listed>> /\ Throws(t)
    <3>1. Alone(t) => StillAgrees(t)
      BY <1>0, <2>7, QuietCover
    <3> QED
      BY <2>1, <2>4, <3>1, AloneStep
  <2>8. CASE /\ Constructible(Top(t).name) /\ UNCHANGED folder /\ Returns(t)
             /\ listed' = [listed EXCEPT ![Top(t).name] = folder[Top(t).name].toml]
    <3>1. folder[Top(t).name] # None /\ folder[Top(t).name].toml # None
      BY <2>8 DEF Constructible
    <3>2. Alone(t) => StillAgrees(t)
      BY <1>0, <2>2, <2>8, <3>1, ListedAgrees
    <3> QED
      BY <2>1, <2>4, <3>2, AloneStep
  <2> QED
    BY <2>5, <2>6, <2>7, <2>8
<1>8. ASSUME NEW t \in Threads, PluginStarts(t) PROVE Goal
  <2>1. /\ ~Idle(t) /\ Top(t).at = "start" /\ Within(t) /\ UNCHANGED folder
        /\ listed' = [listed EXCEPT ![Top(t).name] = Top(t).version]
    BY <1>8 DEF PluginStarts, At, Within, disk
  <2>2. Returns(t) /\ Top(t).name \in Plugins
    BY <1>0, <1>8, <1>a, <2>1, EndSteps
  <2>3. Alone(t) => StillAgrees(t)
    <3> SUFFICES ASSUME Alone(t) PROVE StillAgrees(t)
      OBVIOUS
    <3>1. Top(t) \in FramesOf(t) /\ Top(t).version \in Versions
      BY <1>0, <2>1, TopFacts, FrameFields
    <3>2. AsRead(Top(t)) /\ Top(t).version # None
      BY <2>1, <3>1, StoreAssumption DEF Alone, ThreadInv, StartsAsRead
    <3>3. /\ folder[Top(t).name] # None /\ folder[Top(t).name].toml # None
          /\ listed' = [listed EXCEPT ![Top(t).name] = folder[Top(t).name].toml]
      BY <2>1, <3>2 DEF AsRead
    <3> QED
      BY <1>0, <2>1, <2>2, <3>3, ListedAgrees
  <2>4. Steps(t)
    BY <2>2 DEF Steps
  <2> QED
    BY <2>1, <2>3, <2>4, AloneStep
<1>9. ASSUME NEW t \in Threads, RemoveEnds(t) \/ RemoveFails(t) \/ RestoreEnds(t) PROVE Goal
  <2>1. /\ ~Idle(t) /\ Top(t).at \in {"remove", "restore"} /\ Within(t)
    BY <1>9 DEF RemoveEnds, RemoveFails, RestoreEnds, At, Within
  <2>2. Returns(t) /\ Top(t).name \in Plugins
    BY <1>0, <1>9, <1>a, <2>1, EndSteps
  <2>3. ThreadInv(t)'
    BY <1>0, <2>1, <2>2, CallEnds DEF Bottom, Leaf, Work
  <2>4. ASSUME \A n \in Plugins : Agrees(n) PROVE \A n \in Plugins : Agrees(n)'
    <3>1. CASE RemoveEnds(t)
      <4>1. /\ Alters(Top(t).name, None)
            /\ listed' = [listed EXCEPT ![Top(t).name] = None]
        BY <3>1 DEF RemoveEnds, Alters
      <4>2. /\ listed'[Top(t).name] = None
            /\ \A m \in Plugins \ {Top(t).name} : listed'[m] = listed[m]
        BY <1>0, <2>2, <4>1
      <4> QED
        BY <1>0, <2>2, <2>4, <4>1, <4>2, AlteredAgrees
    <3>2. CASE RemoveFails(t)
      <4>1. /\ UNCHANGED listed
            /\ \/ UNCHANGED folder
               \/ /\ folder[Top(t).name] # None
                  /\ \E part \in PartsOf(folder[Top(t).name]) : Alters(Top(t).name, part)
        BY <3>2 DEF RemoveFails, Alters, memory
      <4>2. CASE UNCHANGED folder
        BY <2>4, <4>1, <4>2 DEF Agrees
      <4>3. CASE folder[Top(t).name] # None
                 /\ \E part \in PartsOf(folder[Top(t).name]) : Alters(Top(t).name, part)
        <5>1. PICK part \in PartsOf(folder[Top(t).name]) : Alters(Top(t).name, part)
          BY <4>3
        <5>2. folder[Top(t).name] \in Folder
          BY <1>0, <2>2, <4>3
        <5>3. part \in Folder /\ part # None /\ part.toml \in {None, folder[Top(t).name].toml}
          BY <5>2, FolderTypes
        <5> QED
          BY <1>0, <2>2, <2>4, <4>1, <5>1, <5>3, AlteredAgrees
      <4> QED
        BY <4>1, <4>2, <4>3
    <3>3. CASE RestoreEnds(t)
      <4>1. PICK f \in Folder : Alters(Top(t).name, f) /\ f.toml = folder[Top(t).name].toml
        BY <1>0, <3>3, RestoreEndsFolder
      <4>2. f # None /\ UNCHANGED listed
        BY <3>3, FolderTypes DEF RestoreEnds, memory
      <4> QED
        BY <1>0, <2>2, <2>4, <4>1, <4>2, AlteredAgrees
    <3> QED
      BY <1>9, <3>1, <3>2, <3>3
  <2>5. Alone(t) => StillAgrees(t)
    BY <2>3, <2>4 DEF Alone, StillAgrees
  <2>6. Steps(t)
    BY <2>2 DEF Steps
  <2> QED
    BY <2>1, <2>5, <2>6, AloneStep
<1>10. ASSUME NEW t \in Threads, NEW n \in Plugins, NEW d \in Contents,
              RestorePersistentPluginFolder(t, n, d)
       PROVE  Goal
  <2> DEFINE x == [at |-> "restore", name |-> n, data |-> d]
  <2>1. Pushes(t, x) /\ x.at = "restore"
    BY <1>0, <1>10, PushSteps
  <2>2. Idle(t) /\ Within(t) /\ UNCHANGED listed
    BY <1>10 DEF RestorePersistentPluginFolder, Within, memory
  <2> HIDE DEF x
  <2>3. ThreadInv(t)'
    BY <1>0, <2>1, <2>2, EmptyStack DEF Bottom
  <2>4. PICK f \in Folder : Alters(n, f) /\ (folder[n] # None => f.toml = folder[n].toml)
    BY <1>0, <1>10, RestoreFolder
  <2>5. ASSUME \A m \in Plugins : Agrees(m) PROVE \A m \in Plugins : Agrees(m)'
    <3>1. f # None
      BY FolderTypes
    <3>2. listed[n] # None => folder[n] # None
      BY <2>5 DEF Agrees
    <3> QED
      BY <1>0, <2>2, <2>4, <2>5, <3>1, <3>2, AlteredAgrees
  <2>6. Alone(t) => StillAgrees(t)
    BY <2>3, <2>5 DEF Alone, StillAgrees
  <2>7. Steps(t)
    BY <2>1 DEF Steps
  <2> QED
    BY <2>2, <2>6, <2>7, AloneStep
<1>11. ASSUME NEW t \in Threads, InvalidatePluginScan(t) PROVE Goal
  <2>1. Idle(t) /\ Within(t) /\ UNCHANGED stack /\ listed' = [n \in Plugins |-> None]
    BY <1>11 DEF InvalidatePluginScan, Within
  <2>2. FramesOf(t)' = {}
    <3>1. FramesOf(t) = {}
      BY <1>0, <2>1, StackFacts DEF TypeOK, F
    <3> QED
      BY <2>1, <3>1 DEF FramesOf
  <2>3. ThreadInv(t)' /\ \A n \in Plugins : Agrees(n)'
    BY <2>1, <2>2, NoFramesLater DEF Agrees
  <2>4. Alone(t) => StillAgrees(t)
    BY <2>3 DEF StillAgrees
  <2>5. Steps(t)
    BY <2>1 DEF Steps
  <2> QED
    BY <2>1, <2>4, <2>5, AloneStep
<1>12. ASSUME NEW n \in Plugins, NEW d \in Contents, StoreData(n, d) PROVE Goal
  <2>1. /\ UNCHANGED <<listed, stack, overlapped>> /\ folder[n] # None
    BY <1>12 DEF StoreData, memory
  <2>2. OneInside /\ (\A m \in Plugins : Agrees(m)) /\ \A u \in Threads : ThreadInv(u)
    BY <2>1 DEF VersionInv
  <2>3. PICK f \in Folder : Alters(n, f) /\ f.toml = folder[n].toml
    BY <1>0, <1>12, StoredFolder
  <2>4. f # None
    BY FolderTypes
  <2>5. \A m \in Plugins : Agrees(m)'
    BY <1>0, <2>1, <2>2, <2>3, <2>4, AlteredAgrees
  <2>6. folder'[n] = f /\ \A m \in Plugins \ {n} : folder'[m] = folder[m]
    BY <1>0, <2>3, AlteredTypes
  <2>7. ASSUME NEW u \in Threads PROVE ThreadInv(u)'
    <3>0. ThreadInv(u)
      BY <2>2
    <3>1. FramesOf(u)' = FramesOf(u)
      BY <2>1 DEF FramesOf
    <3>2. ASSUME NEW x \in FramesOf(u), x.at = "start" PROVE AsRead(x)'
      <4>1. x.name \in Plugins
        BY <1>0, <3>2, StackFacts, FrameFields DEF TypeOK, F
      <4>2. AsRead(x)
        BY <3>0, <3>2 DEF ThreadInv, StartsAsRead
      <4> QED
        BY <2>3, <2>4, <2>6, <4>1, <4>2 DEF AsRead
    <3>3. StartsAsRead(u)'
      BY <3>1, <3>2 DEF StartsAsRead
    <3>4. CopiesUnlisted(u)'
      BY <2>1, <3>0, <3>1 DEF ThreadInv, CopiesUnlisted
    <3>5. ScansCover(u)'
      BY <2>1, <3>0 DEF ThreadInv, ScansCover, Covered
    <3> QED
      BY <3>3, <3>4, <3>5 DEF ThreadInv
  <2>8. OneInside'
    BY <2>1, <2>2 DEF OneInside, Idle
  <2> QED
    BY <2>5, <2>7, <2>8
<1>13. CASE RestartRegistry
  <2>1. /\ \A u \in Threads : Idle(u)' /\ FramesOf(u)' = {}
        /\ listed' = [n \in Plugins |-> None]
    BY <1>13, Cleared DEF RestartRegistry, Restart
  <2>2. OneInside'
    BY <2>1 DEF OneInside
  <2>3. \A n \in Plugins : Agrees(n)'
    BY <2>1 DEF Agrees
  <2>4. \A u \in Threads : ThreadInv(u)'
    BY <2>1, NoFramesLater
  <2> QED
    BY <2>2, <2>3, <2>4
<1>14. CASE UNCHANGED vars
  <2>1. UNCHANGED <<folder, listed, stack, overlapped>>
    BY <1>14 DEF vars, storeVars, disk, memory
  <2>2. OneInside /\ (\A m \in Plugins : Agrees(m)) /\ \A u \in Threads : ThreadInv(u)
    BY <2>1 DEF VersionInv
  <2>3. OneInside' /\ \A n \in Plugins : Agrees(n)'
    BY <2>1, <2>2 DEF OneInside, Idle, Agrees
  <2>4. \A u \in Threads : ThreadInv(u)'
    BY <2>1, <2>2 DEF ThreadInv, StartsAsRead, AsRead, CopiesUnlisted, ScansCover, Covered, FramesOf
  <2> QED
    BY <2>3, <2>4
<1> QED
  BY <1>1, <1>2, <1>3, <1>4, <1>5, <1>6, <1>7, <1>8, <1>9, <1>10, <1>11, <1>12, <1>13, <1>14
  DEF Next, StoreCall, StoreStep

LEMMA VersionInvHolds == Spec => []VersionInv
<1>1. Init => VersionInv
  <2> SUFFICES ASSUME Init PROVE VersionInv
    OBVIOUS
  <2>1. StackInv /\ \A t \in Threads : Idle(t) /\ FramesOf(t) = {}
    BY InitFacts
  <2>2. \A n \in Plugins : Agrees(n)
    BY DEF Init, StoreInit, Agrees
  <2>3. OneInside /\ \A t \in Threads : ThreadInv(t)
    BY <2>1, NoFrames DEF OneInside
  <2> QED
    BY <2>1, <2>2, <2>3 DEF VersionInv
<1>2. VersionInv /\ [Next]_vars => VersionInv'
  BY StackInvKept, VersionsKept DEF VersionInv
<1> QED
  BY <1>1, <1>2, PTL DEF Spec

\* As long as no two threads are inside the store at once, what _plugins says
\* of a plugin is what its folder says, whatever fails or is cut off, and also
\* while a script installs inside of a scan (agents.cpp:89-123, 226-315).
THEOREM MapAgreesWithFolders == Spec => []VersionsAgree
<1>1. VersionInv => VersionsAgree
  BY DEF VersionInv, Agrees, VersionsAgree
<1> QED
  BY <1>1, VersionInvHolds, PTL

\* A scan that ends well has listed all folders it found, also when the scripts
\* it ran have scanned or installed themselves (agents.cpp:89-117).
THEOREM ScansListWhatTheyFind == Spec => ScanListsFound
<1>1. ASSUME VersionInv, NEW t \in Threads, ScanEnds(t), ~overlapped
      PROVE  \A n \in Top(t).found : listed[n] # None
  <2>1. /\ stack[t] \in Seq(F) /\ Len(stack[t]) \in Nat /\ Len(stack[t]) # 0
        /\ Top(t) = stack[t][Len(stack[t])] /\ Top(t).at = "scan" /\ Top(t).todo = {}
    BY <1>1, StackFacts DEF ScanEnds, At, VersionInv, StackInv, TypeOK, F
  <2>2. Len(stack[t]) \in 1 .. Len(stack[t]) /\ ~(Len(stack[t]) < Len(stack[t]))
    BY <2>1
  <2>3. ScansCover(t)
    BY <1>1 DEF VersionInv, ThreadInv
  <2>4. \A n \in Top(t).found : Covered(stack[t], Len(stack[t]), n)
    BY <2>1, <2>2, <2>3 DEF ScansCover
  <2> QED
    BY <2>1, <2>2, <2>4 DEF Covered
<1>2. VersionInv
        => [\A t \in Threads : ScanEnds(t) /\ ~overlapped
              => \A n \in Top(t).found : listed[n] # None]_storeVars
  BY <1>1
<1> QED
  BY <1>2, VersionInvHolds, PTL DEF ScanListsFound

(***************************************************************************)
(* The table and the cache                                                 *)
(***************************************************************************)
Downloads(tab) == {n \in Plugins : tab[n] # None /\ tab[n].url}

\* While the cache is written there is no registry; what is going to be the
\* table of a registry without error is in the cache.
Cached(x) ==
    /\ x.at = "write" => error = "no registry"
    /\ x.at = "merge" /\ x.error = "none" => cache.names = Downloads(x.table)
FramesCached == \A t \in Threads : \A x \in FramesOf(t) : Cached(x)
CacheInv == StackInv /\ FramesCached /\ CacheOffersTable

LEMMA MergeDownloads ==
  ASSUME listed \in [Plugins -> Versions \cup {None}],
         NEW tab \in [Plugins -> PluginSpec \cup {None}]
  PROVE  Downloads(Merge(tab)) = Downloads(tab)
<1>1. ASSUME NEW n \in Plugins
      PROVE  n \in Downloads(Merge(tab)) <=> n \in Downloads(tab)
  <2>1. CASE listed[n] = None
    BY <2>1 DEF Merge, Downloads
  <2>2. CASE listed[n] # None /\ tab[n] = None
    BY <2>2 DEF Merge, Downloads, SpecOnDisk
  <2>3. CASE listed[n] # None /\ tab[n] # None
    <3> DEFINE new == [tab[n] EXCEPT !.installed = listed[n]]
    <3>1. new \in PluginSpec /\ new.url = tab[n].url
      BY <2>3 DEF PluginSpec
    <3>2. new # None
      BY <3>1, RegistryAssumption
    <3>3. Merge(tab)[n] = new
      BY <2>3 DEF Merge
    <3> HIDE DEF new
    <3> QED
      BY <2>3, <3>1, <3>2, <3>3 DEF Downloads
  <2> QED
    BY <2>1, <2>2, <2>3
<1> QED
  BY <1>1 DEF Downloads

LEMMA SpecsDownloads ==
  ASSUME NEW names \in SUBSET Offered
  PROVE  Downloads(Specs(names)) = names
<1>1. \A n \in Plugins : SpecOnline(n) # None /\ SpecOnline(n).url
  BY SpecTypes, RegistryAssumption DEF SpecOnline
<1> QED
  BY <1>1, RegistryAssumption DEF Downloads, Specs

\* Only the application fetches and merges, and it does nothing else meanwhile.
LEMMA FetchesAlone ==
  ASSUME StackInv, NEW t \in Threads
  PROVE  /\ \A x \in FramesOf(t) : x.at \in Bottom => t = Owner
         /\ ~Idle(t) /\ Top(t).at \in Bottom => Len(stack[t]) = 1 /\ FramesOf(t) = {Top(t)}
<1>0. /\ stack \in [Threads -> Seq(F)] /\ Len(stack[t]) \in Nat
      /\ Idle(t) <=> Len(stack[t]) = 0
      /\ ~Idle(t) => Top(t) = stack[t][Len(stack[t])]
      /\ \A i \in 1 .. Len(stack[t]) : stack[t][i].at \in Bottom => t = Owner /\ i = 1
  BY StackFacts DEF StackInv, TypeOK, F, Shape
<1>1. \A x \in FramesOf(t) : x.at \in Bottom => t = Owner
  BY <1>0 DEF FramesOf
<1>2. ASSUME ~Idle(t), Top(t).at \in Bottom
      PROVE  Len(stack[t]) = 1 /\ FramesOf(t) = {Top(t)}
  <2>1. Len(stack[t]) \in 1 .. Len(stack[t])
    BY <1>0, <1>2
  <2>2. Len(stack[t]) = 1
    BY <1>0, <1>2, <2>1
  <2> QED
    BY <1>0, <1>2, <2>2 DEF FramesOf
<1> QED
  BY <1>1, <1>2

\* Frames of t are replaced by new ones, or go; others neither write nor merge.
LEMMA CacheChanges ==
  ASSUME StackInv, FramesCached, NEW t \in Threads, t = Owner, NEW new,
         FramesOf(t)' \subseteq new, \A u \in Threads \ {t} : FramesOf(u)' = FramesOf(u),
         \A x \in new : Cached(x)'
  PROVE  FramesCached'
<1> SUFFICES ASSUME NEW u \in Threads, NEW x \in FramesOf(u)' PROVE Cached(x)'
  BY DEF FramesCached
<1>1. CASE u = t
  BY <1>1
<1>2. CASE u # t
  <2>1. x \in FramesOf(u)
    BY <1>2
  <2>2. x.at \notin Bottom
    BY <1>2, <2>1, FetchesAlone
  <2> QED
    BY <2>2 DEF Cached, Bottom
<1> QED
  BY <1>1, <1>2

\* Neither table nor cache changes; what is new is cached.
LEMMA CacheStays ==
  ASSUME FramesCached, CacheOffersTable, NEW t \in Threads, NEW new, FramesFrom(t, new),
         \A x \in new : Cached(x), UNCHANGED registryVars
  PROVE  FramesCached' /\ CacheOffersTable'
<1>1. UNCHANGED <<table, error, cache>>
  BY DEF registryVars
<1>2. CacheOffersTable'
  BY <1>1 DEF CacheOffersTable
<1>3. \A x : Cached(x) => Cached(x)'
  BY <1>1 DEF Cached
<1>4. \A u \in Threads : \A x \in FramesOf(u)' : x \in FramesOf(u) \/ x \in new
  BY DEF FramesFrom
<1> QED
  BY <1>2, <1>3, <1>4 DEF FramesCached

LEMMA FromCacheTells ==
  ASSUME NEW names, NEW x \in FromCache(names)
  PROVE  x.at = "merge" /\ x.error # "none"
<1>1. CASE cache.state = "none"
  <2>1. x = [at |-> "merge", table |-> Specs(names), error |-> "no cache"]
    BY <1>1 DEF FromCache
  <2> QED
    BY <2>1
<1>2. CASE cache.state # "none"
  <2>1. PICK cached : x = [at |-> "merge", table |-> Specs(names \cup cached),
                           error |-> "cached"]
    BY <1>2 DEF FromCache
  <2> QED
    BY <2>1
<1> QED
  BY <1>1, <1>2

LEMMA CacheKept ==
  ASSUME CacheInv, [Next]_vars
  PROVE  FramesCached' /\ CacheOffersTable'
<1> DEFINE Goal == FramesCached' /\ CacheOffersTable'
<1>0. /\ StackInv /\ TypeOK /\ FramesCached /\ CacheOffersTable
      /\ listed \in [Plugins -> Versions \cup {None}]
  BY DEF CacheInv, StackInv, TypeOK, StoreTypeOK
\* What neither writes nor merges is cached.
<1>a. ASSUME NEW t \in Threads, NEW x, Pushes(t, x) \/ GoesTo(t, x), Cached(x),
             UNCHANGED registryVars
      PROVE  Goal
  <2>1. FramesFrom(t, {x})
    BY <1>0, <1>a, StepFrames
  <2> QED
    BY <1>0, <1>a, <2>1, CacheStays
<1>b. ASSUME NEW t \in Threads, NEW x, Pushes(t, x) \/ GoesTo(t, x),
             x.at \notin {"write", "merge"}, UNCHANGED registryVars
      PROVE  Goal
  BY <1>a, <1>b DEF Cached
<1>c. ASSUME NEW t \in Threads, Returns(t) \/ Throws(t) \/ UNCHANGED stack,
             UNCHANGED registryVars
      PROVE  Goal
  <2>1. FramesFrom(t, {})
    BY <1>0, <1>c, StepFrames
  <2> QED
    BY <1>0, <1>c, <2>1, CacheStays
<1>1. ASSUME NEW t \in Threads, GetPlugins(t) \/ PluginSends(t) \/ MergeScans(t),
             UNCHANGED registryVars
      PROVE  Goal
  <2>1. Pushes(t, ScanFrame) /\ ScanFrame.at \notin {"write", "merge"}
    BY <1>0, <1>1, PushSteps, ScanFrameType
  <2> QED
    BY <1>1, <1>b, <2>1
<1>2. ASSUME NEW t \in Threads, NEW n \in Plugins, NEW src \in Sources,
             InstallPlugin(t, n, src), UNCHANGED registryVars
      PROVE  Goal
  <2>1. Installing(n, SpecOnDisk(src), src).at \notin {"write", "merge"}
    BY DEF Installing
  <2> QED
    BY <1>0, <1>2, <1>b, <2>1, PushSteps
<1>3. ASSUME NEW t \in Threads, NEW n \in Plugins, UninstallPlugin(t, n),
             UNCHANGED registryVars
      PROVE  Goal
  <2> DEFINE x == [at |-> "backup", name |-> n]
  <2>1. Pushes(t, x) /\ x.at \notin {"write", "merge"}
    BY <1>0, <1>3, PushSteps
  <2> HIDE DEF x
  <2> QED
    BY <1>3, <1>b, <2>1
<1>4. ASSUME NEW t \in Threads, NEW n \in Plugins, NEW d \in Contents,
             RestorePersistentPluginFolder(t, n, d), UNCHANGED registryVars
      PROVE  Goal
  <2> DEFINE x == [at |-> "restore", name |-> n, data |-> d]
  <2>1. Pushes(t, x) /\ x.at \notin {"write", "merge"}
    BY <1>0, <1>4, PushSteps
  <2> HIDE DEF x
  <2> QED
    BY <1>4, <1>b, <2>1
<1>5. ASSUME NEW t \in Threads, NEW n \in Plugins, Install(t, n) PROVE Goal
  <2> DEFINE x == [at |-> "download", name |-> n, spec |-> table[n]]
  <2>1. Pushes(t, x) /\ x.at \notin {"write", "merge"}
    BY <1>0, <1>5, PushSteps
  <2>2. UNCHANGED registryVars
    BY <1>5 DEF Install
  <2> HIDE DEF x
  <2> QED
    BY <1>b, <2>1, <2>2
<1>6. ASSUME NEW t \in Threads,
             CopyBegins(t) \/ CopyEnds(t) \/ BackupEnds(t), UNCHANGED registryVars
      PROVE  Goal
  <2>1. CASE CopyBegins(t) \/ CopyEnds(t)
    <3>1. Top(t) \in F /\ Top(t).at \in Copying
      BY <1>0, <2>1, TopFacts DEF CopyBegins, CopyEnds, At, Copying
    <3>2. PICK c \in {"copy", "verify"} : GoesTo(t, [Top(t) EXCEPT !.at = c])
      BY <1>0, <2>1, GotoSteps
    <3>3. [Top(t) EXCEPT !.at = c].at \notin {"write", "merge"}
      BY <3>1, CopyGoesOn DEF Copying
    <3> QED
      BY <1>6, <1>b, <3>2, <3>3
  <2>2. CASE BackupEnds(t)
    <3> DEFINE x == [at |-> "remove", name |-> Top(t).name]
    <3>1. GoesTo(t, x) /\ x.at \notin {"write", "merge"}
      BY <1>0, <2>2, GotoSteps
    <3> HIDE DEF x
    <3> QED
      BY <1>6, <1>b, <3>1
  <2> QED
    BY <1>6, <2>1, <2>2
<1>7. ASSUME NEW t \in Threads, DownloadEnds(t) PROVE Goal
  <2>1. PICK src : GoesTo(t, Installing(Top(t).name, Top(t).spec, src))
    BY <1>0, <1>7, GotoSteps
  <2>2. Installing(Top(t).name, Top(t).spec, src).at \notin {"write", "merge"}
    BY DEF Installing
  <2>3. UNCHANGED registryVars
    BY <1>7 DEF DownloadEnds
  <2> QED
    BY <1>b, <2>1, <2>2, <2>3
<1>8. ASSUME NEW t \in Threads,
             \/ PluginStarts(t) \/ ScanEnds(t) \/ PluginFails(t) \/ InvalidatePluginScan(t)
             \/ BackupFails(t) \/ RestoreFails(t) \/ CopyFails(t) \/ Verify(t)
             \/ RemoveEnds(t) \/ RemoveFails(t) \/ RestoreEnds(t) \/ DownloadFails(t),
             UNCHANGED registryVars
      PROVE  Goal
  <2>1. Returns(t) \/ Throws(t) \/ UNCHANGED stack
    BY <1>0, <1>8, EndSteps
  <2> QED
    BY <1>8, <1>c, <2>1
<1>9. ASSUME NEW t \in Threads, ScanNext(t), UNCHANGED registryVars PROVE Goal
  <2>1. CASE Throws(t)
    BY <1>9, <1>c, <2>1
  <2>2. ASSUME NEW n, Descends(t, n) PROVE Goal
    <3> DEFINE x == [Top(t) EXCEPT !.todo = @ \ {n}]
               y == StartFrame(n)
    <3>1. FramesFrom(t, {x, y})
      BY <1>0, <2>2, StepFrames
    <3>2. Top(t).at = "scan" /\ Top(t) \in F
      BY <1>0, <2>2, TopFacts DEF Descends, At
    <3>3. x.at = "scan" /\ y.at = "start"
      BY <3>2 DEF StartFrame, F, Frame, RegistryFrame
    <3> HIDE DEF x, y
    <3>4. \A z \in {x, y} : Cached(z)
      BY <3>3 DEF Cached
    <3> QED
      BY <1>0, <1>9, <3>1, <3>4, CacheStays
  <2> QED
    BY <1>0, <1>9, <2>1, <2>2, EndSteps
<1>10. ASSUME NEW t \in Threads, Fetch(t) PROVE Goal
  <2>1. PICK got \in SUBSET Offered : Pushes(t, [at |-> "write", got |-> got])
    BY <1>0, <1>10, PushSteps
  <2> DEFINE x == [at |-> "write", got |-> got]
  <2>2. FramesFrom(t, {x})
    BY <1>0, <2>1, StepFrames
  <2>3. FramesOf(t) = {} /\ t = Owner /\ error' = "no registry"
    BY <1>0, <1>10, StackFacts DEF Fetch, Replace, TypeOK, F
  <2>4. Cached(x)'
    BY <2>3 DEF Cached
  <2> HIDE DEF x
  <2>a. FramesOf(t)' \subseteq {x} /\ \A u \in Threads \ {t} : FramesOf(u)' = FramesOf(u)
    BY <2>2, <2>3 DEF FramesFrom
  <2>b. \A y \in {x} : Cached(y)'
    BY <2>4
  <2>5. FramesCached'
    BY <1>0, <2>3, <2>a, <2>b, CacheChanges
  <2> QED
    BY <2>3, <2>5 DEF CacheOffersTable
<1>11. ASSUME NEW t \in Threads, FetchFails(t) PROVE Goal
  <2>1. PICK x \in FromCache({}) : Pushes(t, x)
    BY <1>0, <1>11, PushSteps
  <2>2. FramesFrom(t, {x})
    BY <1>0, <2>1, StepFrames
  <2>3. FramesOf(t) = {} /\ t = Owner /\ error' = "no registry"
    BY <1>0, <1>11, StackFacts DEF FetchFails, Replace, TypeOK, F
  <2>4. Cached(x)'
    BY FromCacheTells DEF Cached
  <2>a. FramesOf(t)' \subseteq {x} /\ \A u \in Threads \ {t} : FramesOf(u)' = FramesOf(u)
    BY <2>2, <2>3 DEF FramesFrom
  <2>b. \A y \in {x} : Cached(y)'
    BY <2>4
  <2>5. FramesCached'
    BY <1>0, <2>3, <2>a, <2>b, CacheChanges
  <2> QED
    BY <2>3, <2>5 DEF CacheOffersTable
<1>12. ASSUME NEW t \in Threads, WriteFails(t) PROVE Goal
  <2>1. PICK x \in FromCache(Top(t).got) : GoesTo(t, x)
    BY <1>0, <1>12, GotoSteps
  <2>2. Cached(x)
    BY FromCacheTells DEF Cached
  <2>3. UNCHANGED registryVars
    BY <1>12 DEF WriteFails
  <2> QED
    BY <1>a, <2>1, <2>2, <2>3
<1>13. ASSUME NEW t \in Threads, WriteEnds(t) PROVE Goal
  <2> PICK got : got = Top(t).got
    OBVIOUS
  <2> DEFINE x == [at |-> "merge", table |-> Specs(got), error |-> "none"]
  <2>1. GoesTo(t, x)
    BY <1>0, <1>13, GotoSteps
  <2>2. ~Idle(t) /\ Top(t).at = "write" /\ Top(t) \in F /\ Top(t) \in FramesOf(t)
    BY <1>0, <1>13, TopFacts DEF WriteEnds, At
  <2>3. got \in SUBSET Offered /\ error = "no registry"
    BY <1>0, <2>2, FrameFields DEF FramesCached, Cached
  <2>4. t = Owner /\ FramesOf(t) = {Top(t)}
    BY <1>0, <2>2, FetchesAlone DEF Bottom
  <2>5. FramesFrom(t, {x}) /\ Leaves(t, {x})
    BY <1>0, <2>1, StepFrames, StepLeaves
  <2>6. /\ error' = error /\ cache' = [state |-> "whole", names |-> got]
    BY <1>13 DEF WriteEnds
  <2>7. x.table = Specs(got) /\ x.at = "merge"
    OBVIOUS
  <2> HIDE DEF x
  <2>8. cache'.names = Downloads(x.table)
    BY <2>3, <2>6, <2>7, SpecsDownloads
  <2>9. Cached(x)'
    BY <2>7, <2>8 DEF Cached
  <2>10. FramesOf(t)' \subseteq {x}
    BY <2>2, <2>4, <2>5 DEF Leaves, Leaf
  <2>11. FramesCached'
    BY <1>0, <2>4, <2>5, <2>9, <2>10, CacheChanges DEF FramesFrom
  <2> QED
    BY <2>3, <2>6, <2>11 DEF CacheOffersTable
<1>14. ASSUME NEW t \in Threads, RescanInstalled(t) PROVE Goal
  <2> DEFINE x == [at |-> "merge", table |-> table, error |-> error]
  <2>1. Pushes(t, x)
    BY <1>0, <1>14, PushSteps
  <2>2. Cached(x)
    BY <1>0 DEF Cached, CacheOffersTable, Downloads
  <2>3. UNCHANGED registryVars
    BY <1>14 DEF RescanInstalled
  <2> HIDE DEF x
  <2> QED
    BY <1>a, <2>1, <2>2, <2>3
<1>15. ASSUME NEW t \in Threads, MergeEnds(t) PROVE Goal
  <2>1. ~Idle(t) /\ Top(t).at = "merge" /\ Top(t) \in F /\ Top(t) \in FramesOf(t)
    BY <1>0, <1>15, TopFacts DEF MergeEnds, At
  <2>2. t = Owner /\ Len(stack[t]) = 1
    BY <1>0, <2>1, FetchesAlone DEF Bottom
  <2>3. stack \in [Threads -> Seq(F)] /\ Returns(t)
    BY <1>0, <1>15, EndSteps DEF TypeOK, F
  <2>4. Len(stack'[t]) = 0
    <3>1. Len(stack'[t]) = Len(stack[t]) - 1
      BY <2>3, ReturnFacts DEF Returns
    <3> QED
      BY <2>2, <3>1
  <2>5. FramesOf(t)' = {}
    BY <2>4 DEF FramesOf
  <2>6. FramesFrom(t, {})
    BY <1>0, <2>3, StepFrames
  <2>7. FramesCached'
    BY <1>0, <2>2, <2>5, <2>6, CacheChanges DEF FramesFrom
  <2>8. /\ Top(t).error = "none" => cache.names = Downloads(Top(t).table)
        /\ Top(t).table \in [Plugins -> PluginSpec \cup {None}]
    BY <1>0, <2>1, FrameFields DEF FramesCached, Cached
  <2>9. UNCHANGED cache /\ table' = Merge(Top(t).table) /\ error' = Top(t).error
    BY <1>15 DEF MergeEnds
  <2>10. Downloads(table') = Downloads(Top(t).table)
    BY <1>0, <2>8, <2>9, MergeDownloads
  <2>11. CacheOffersTable'
    BY <2>8, <2>9, <2>10 DEF CacheOffersTable, Downloads
  <2> QED
    BY <2>7, <2>11
<1>16. ASSUME NEW n \in Plugins, NEW d \in Contents, StoreData(n, d), UNCHANGED registryVars
       PROVE  Goal
  BY <1>16, <1>c, StoreAssumption DEF StoreData
<1>17. CASE RestartRegistry
  <2>1. (\A t \in Threads : FramesOf(t)' = {}) /\ error' = "no registry"
    BY <1>17, Cleared DEF RestartRegistry, Restart, Replace
  <2> QED
    BY <2>1 DEF FramesCached, CacheOffersTable
<1>18. CASE UNCHANGED vars
  BY <1>18, <1>c, StoreAssumption DEF vars, storeVars
<1>19. ASSUME NEW t \in Threads, MergeScans(t) \/ DownloadFails(t) PROVE UNCHANGED registryVars
  BY <1>19 DEF MergeScans, DownloadFails
<1> QED
  BY <1>1, <1>2, <1>3, <1>4, <1>5, <1>6, <1>7, <1>8, <1>9, <1>10, <1>11, <1>12, <1>13, <1>14,
     <1>15, <1>16, <1>17, <1>18, <1>19 DEF Next, StoreCall, StoreStep

\* While the registry reports no error, the cache holds exactly the downloads
\* of the table, whatever fetch, write, scan or merge fails
\* (plugin_registry.cpp:96-171).
THEOREM CacheIsTable == Spec => []CacheOffersTable
<1>1. Init => CacheInv
  <2> SUFFICES ASSUME Init PROVE CacheInv
    OBVIOUS
  <2>1. StackInv /\ FramesCached
    BY InitFacts DEF FramesCached
  <2>2. CacheOffersTable
    BY DEF Init, RegistryInit, Replace, CacheOffersTable
  <2> QED
    BY <2>1, <2>2 DEF CacheInv
<1>2. CacheInv /\ [Next]_vars => CacheInv'
  BY StackInvKept, CacheKept DEF CacheInv
<1>3. CacheInv => CacheOffersTable
  BY DEF CacheInv
<1> QED
  BY <1>1, <1>2, <1>3, PTL DEF Spec
==============================================================================
