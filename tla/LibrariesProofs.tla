--------------------------- MODULE LibrariesProofs ---------------------------
(***************************************************************************)
(* Proofs about ViewStack and SocketListeners, for any views and depths,   *)
(* and any listeners, events and number of messages.                       *)
(***************************************************************************)
EXTENDS MCLibraries, SequenceTheorems, TLAPS

libraryVars == <<part, vars, stackVars, socketVars>>

----------------------------------------------------------------------------
(* The view stack.                                                         *)

StackInv ==
  /\ StackIsBounded
  /\ maxDepth \in Int

LEMMA FirstOnes ==
  ASSUME NEW S, NEW s \in Seq(S), NEW n \in 0 .. Len(s)
  PROVE  SubSeq(s, 1, n) \in Seq(S) /\ Len(SubSeq(s, 1, n)) = n
<1>1. \A i \in 1 .. n : s[i] \in S
  BY ElementOfSeq
<1>2. n \in Int /\ (IF 1 <= n THEN n - 1 + 1 ELSE 0) = n
  OBVIOUS
<1>. QED
  BY <1>1, <1>2, SubSeqProperties

LEMMA InitStackInv == LibrariesInit => StackInv
<1> SUFFICES ASSUME LibrariesInit PROVE StackInv
  OBVIOUS
<1>1. maxDepth \in Int
  BY ViewsAssumption DEF LibrariesInit, Stack!Init
<1>2. PICK v \in Views : stack = <<v>>
  BY DEF LibrariesInit, Stack!Init
<1>3. stack \in Seq(Views) /\ Len(stack) = 1
  BY <1>2
<1>. QED
  BY <1>1, <1>3 DEF StackInv, StackIsBounded, Stack!StackIsBounded, Stack!Depth

LEMMA StackStep ==
  ASSUME StackInv, Stack!Next
  PROVE  StackInv'
<1>1. /\ stack \in Seq(Views) /\ Len(stack) \in Nat \ {0} /\ maxDepth \in Int
      /\ Len(stack) <= maxDepth \/ Len(stack) = 1
  BY DEF StackInv, StackIsBounded, Stack!StackIsBounded, Stack!Depth
<1>2. ASSUME NEW v \in Views, Stack!Push(v) PROVE StackInv'
  <2>1. stack' \in Seq(Views) /\ Len(stack') = Len(stack) + 1
    BY <1>1, <1>2, AppendProperties DEF Stack!Push
  <2>. QED
    BY <1>1, <1>2, <2>1
    DEF Stack!Push, StackInv, StackIsBounded, Stack!StackIsBounded, Stack!Depth
\* The other operations leave a part of the stack, and perhaps a view on it.
<1>3. ASSUME NEW n \in 1 .. Len(stack), stack' \in Seq(Views), Len(stack') = n,
             maxDepth' = maxDepth
      PROVE  StackInv'
  <2>0. ASSUME NEW k \in Nat, NEW m \in Int, NEW j \in 1 .. k, k <= m \/ k = 1
        PROVE  j >= 1 /\ (j <= m \/ j = 1)
    BY <2>0
  <2>1. n >= 1 /\ (n <= maxDepth \/ n = 1)
    BY <1>1, <2>0
  <2>2. Len(stack') >= 1 /\ (Len(stack') <= maxDepth' \/ Len(stack') = 1)
    BY <1>3, <2>1
  <2>3. maxDepth' \in Int
    BY <1>1, <1>3
  <2>. QED
    BY <1>3, <2>2, <2>3 DEF StackInv, StackIsBounded, Stack!StackIsBounded, Stack!Depth
<1>4. ASSUME NEW v \in Views, Stack!Replace(v) PROVE StackInv'
  <2>1. /\ Stack!Shorter(Len(stack) - 1) \in Seq(Views)
        /\ Len(Stack!Shorter(Len(stack) - 1)) = Len(stack) - 1
    <3>1. Len(stack) - 1 \in 0 .. Len(stack)
      BY <1>1
    <3>. QED
      BY <1>1, <3>1, FirstOnes DEF Stack!Shorter
  <2>2. stack' \in Seq(Views) /\ Len(stack') = Len(stack)
    BY <1>1, <1>4, <2>1, AppendProperties DEF Stack!Replace, Stack!Depth
  <2>. QED
    BY <1>1, <1>3, <1>4, <2>2 DEF Stack!Replace
<1>5. CASE Stack!Pop
  <2>1. Len(stack) - 1 \in 1 .. Len(stack) /\ stack' = SubSeq(stack, 1, Len(stack) - 1)
    BY <1>1, <1>5 DEF Stack!Pop, Stack!Shorter, Stack!Depth
  <2>. QED
    BY <1>1, <1>3, <1>5, <2>1, FirstOnes DEF Stack!Pop
<1>6. ASSUME NEW d \in Depths, Stack!PopTo(d) PROVE StackInv'
  <2> DEFINE n == IF d < 1 THEN 1 ELSE d
  <2>1. n \in 1 .. Len(stack) /\ stack' = SubSeq(stack, 1, n)
    BY <1>1, <1>6, ViewsAssumption DEF Stack!PopTo, Stack!Shorter, Stack!Depth
  <2>2. maxDepth' = maxDepth
    BY <1>6 DEF Stack!PopTo
  <2> HIDE DEF n
  <2>. QED
    BY <1>1, <1>3, <2>1, <2>2, FirstOnes
<1>7. CASE Stack!Ends
  BY <1>7 DEF Stack!Ends, StackInv, StackIsBounded, Stack!StackIsBounded, Stack!Depth
<1>. QED
  BY <1>2, <1>4, <1>5, <1>6, <1>7 DEF Stack!Next

\* Whatever depths the views pop to, and however few the options allow, there is a view to
\* render and no more than allowed.
THEOREM StackIsAlwaysBounded == LibrariesSpec => []StackIsBounded
<1>1. StackInv /\ [LibrariesNext]_libraryVars => StackInv'
  <2>1. ASSUME StackInv, UNCHANGED stackVars PROVE StackInv'
    BY <2>1 DEF stackVars, StackInv, StackIsBounded, Stack!StackIsBounded, Stack!Depth
  <2>. QED
    BY <2>1, StackStep DEF LibrariesNext, libraryVars
<1>2. StackInv => StackIsBounded
  BY DEF StackInv
<1>. QED
  BY <1>1, <1>2, InitStackInv, PTL DEF LibrariesSpec, libraryVars

----------------------------------------------------------------------------
(* The listeners.                                                          *)

Loops == [over : {"none", "openers"} \cup EventNames, place : Nat, runs : BOOLEAN]

ListenersTyped ==
  /\ state \in {"connecting", "open", "closed"}
  /\ openers \in Seq(Callbacks) /\ opened \in Seq(Callbacks)
  /\ on \in [EventNames -> Seq(Callbacks)]
  /\ loop \in Loops
  /\ messages \in Nat
  /\ heard \in [Callbacks -> Seq(Nat)] /\ due \in [Callbacks -> Seq(Nat)]

Within(array) == /\ loop.place \in 1 .. Len(array) + 1
                 /\ loop.runs => loop.place <= Len(array)

\* No listener is twice in an array, and a loop is within its array or just behind it.
LoopInPlace ==
  /\ \A e \in EventNames : \A i, j \in 1 .. Len(on[e]) : on[e][i] = on[e][j] => i = j
  /\ loop.over = "none" => loop = Socket!NoLoop
  /\ loop.over = "openers" => Within(openers)
  /\ loop.over \in EventNames => Within(on[loop.over])

\* The listeners that the loop has still to call.
Ahead(l) ==
  /\ loop.over \in EventNames
  /\ \E i \in 1 .. Len(on[loop.over]) :
       /\ on[loop.over][i] = l
       /\ i > loop.place \/ (i = loop.place /\ ~loop.runs)

\* They miss the message that is handed out, and nobody misses another.
NothingMissed ==
  \A l \in Callbacks : due[l] = IF Ahead(l) THEN Append(heard[l], messages) ELSE heard[l]

\* The open listeners were called from the first to the one the loop is at.
OpenersInOrder ==
  /\ state # "closed" => /\ Len(opened) <= Len(openers)
                         /\ \A i \in 1 .. Len(opened) : opened[i] = openers[i]
  /\ state = "connecting" => opened = <<>> /\ loop.over = "none"
  /\ loop.over # "none" => state = "open"
  /\ loop.over = "openers" =>
       Len(opened) = IF loop.runs THEN loop.place ELSE loop.place - 1

SocketInv == ListenersTyped /\ LoopInPlace /\ NothingMissed /\ OpenersInOrder

LEMMA InitSocketInv == Socket!Init => SocketInv
BY EmptySeq, EventsAssumption
DEF Socket!Init, Socket!NoLoop, SocketInv, ListenersTyped, Loops, LoopInPlace,
    NothingMissed, Ahead, OpenersInOrder

\* A loop that is over no array is none.
LEMMA LoopKinds ==
  ASSUME SocketInv
  PROVE  /\ Socket!Idle <=> loop.over = "none"
         /\ loop.over = "none" => loop.place = 0 /\ loop.runs = FALSE
         /\ loop.over \in EventNames => loop.over # "openers" /\ loop.over # "none"
BY EventsAssumption
DEF SocketInv, ListenersTyped, LoopInPlace, Loops, Socket!Idle, Socket!NoLoop

LEMMA SocketInvGives == SocketInv => ListenersAreCalled
<1> SUFFICES ASSUME SocketInv PROVE ListenersAreCalled
  OBVIOUS
<1>1. Socket!Idle => heard = due
  <2> SUFFICES ASSUME loop.over = "none" PROVE heard = due
    BY LoopKinds
  <2>1. \A l \in Callbacks : heard[l] = due[l]
    BY EventsAssumption DEF SocketInv, NothingMissed, Ahead
  <2>. QED
    BY <2>1 DEF SocketInv, ListenersTyped
<1>2. Socket!IsPrefix(opened, openers) \/ state = "closed"
  <2> SUFFICES ASSUME state # "closed" PROVE Socket!IsPrefix(opened, openers)
    OBVIOUS
  <2>1. /\ Len(opened) \in 0 .. Len(openers)
        /\ \A i \in 1 .. Len(opened) : opened[i] = openers[i]
        /\ opened \in Seq(Callbacks) /\ openers \in Seq(Callbacks)
    BY DEF SocketInv, OpenersInOrder, ListenersTyped
  <2> DEFINE n == Len(opened)
  <2>2. /\ SubSeq(opened, 1, n) \in Seq(Callbacks) /\ Len(SubSeq(opened, 1, n)) = n
        /\ SubSeq(openers, 1, n) \in Seq(Callbacks) /\ Len(SubSeq(openers, 1, n)) = n
    BY <2>1, FirstOnes
  <2>3. \A i \in 1 .. n : SubSeq(opened, 1, n)[i] = SubSeq(openers, 1, n)[i]
    BY <2>1
  <2>4. SubSeq(opened, 1, n) = SubSeq(openers, 1, n)
    BY <2>2, <2>3, SeqEqual
  <2>. QED
    BY <2>1, <2>4 DEF Socket!IsPrefix
<1>3. loop.over = "openers" /\ loop.place > Len(openers) => opened = openers
  <2> SUFFICES ASSUME loop.over = "openers", loop.place > Len(openers)
               PROVE  opened = openers
    OBVIOUS
  <2>1. /\ Len(opened) = Len(openers) /\ \A i \in 1 .. Len(opened) : opened[i] = openers[i]
        /\ opened \in Seq(Callbacks) /\ openers \in Seq(Callbacks)
    BY DEF SocketInv, OpenersInOrder, ListenersTyped, LoopInPlace, Within, Loops
  <2>. QED
    BY <2>1, SeqEqual
<1>. QED
  BY <1>1, <1>2, <1>3
  DEF ListenersAreCalled, Socket!ListenersAreCalled, Socket!OpenersCalled,
      SocketInv, OpenersInOrder

\* What a listener that nobody knows is not in.
LEMMA NotRegistered ==
  ASSUME SocketInv, NEW l \in Callbacks, l \notin Socket!Registered, NEW e \in EventNames
  PROVE  \A i \in 1 .. Len(on[e]) : on[e][i] # l
<1>1. on[e] \in Seq(Callbacks)
  BY DEF SocketInv, ListenersTyped
<1>2. \A i \in 1 .. Len(on[e]) : on[e][i] \in Socket!Range(on[e])
  BY <1>1, LenProperties DEF Socket!Range
<1>. QED
  BY <1>2 DEF Socket!Registered

LEMMA OnOpenInv ==
  ASSUME SocketInv, NEW l \in Callbacks, Socket!OnOpen(l)
  PROVE  SocketInv'
<1>1. /\ openers \in Seq(Callbacks) /\ openers' = Append(openers, l)
      /\ UNCHANGED <<state, on, loop, messages, opened, heard, due>>
  BY DEF SocketInv, ListenersTyped, Socket!OnOpen
<1>2. /\ openers' \in Seq(Callbacks) /\ Len(openers') = Len(openers) + 1
      /\ \A i \in 1 .. Len(openers) : openers'[i] = openers[i]
      /\ Len(openers) \in Nat
  BY <1>1, AppendProperties, LenProperties
<1>3. ListenersTyped'
  BY <1>1, <1>2 DEF SocketInv, ListenersTyped
<1>4. LoopInPlace'
  <2>1. Within(openers) => Within(openers)'
    BY <1>1, <1>2 DEF Within, SocketInv, ListenersTyped, Loops
  <2>. QED
    BY <1>1, <2>1 DEF SocketInv, LoopInPlace, Within, Socket!NoLoop
<1>5. NothingMissed'
  BY <1>1 DEF SocketInv, NothingMissed, Ahead
<1>6. OpenersInOrder'
  <2>1. Len(opened) \in Nat
    BY DEF SocketInv, ListenersTyped
  <2>. QED
    BY <1>1, <1>2, <2>1 DEF SocketInv, OpenersInOrder
<1>. QED
  BY <1>3, <1>4, <1>5, <1>6 DEF SocketInv

LEMMA OnInv ==
  ASSUME SocketInv, NEW e \in EventNames, NEW l \in Callbacks, Socket!On(e, l)
  PROVE  SocketInv'
<1>1. /\ on' = [on EXCEPT ![e] = Append(on[e], l)]
      /\ due' = IF loop.over = e THEN [due EXCEPT ![l] = Append(due[l], messages)] ELSE due
      /\ UNCHANGED <<state, openers, loop, messages, opened, heard>>
  BY DEF Socket!On
<1>2. /\ on \in [EventNames -> Seq(Callbacks)] /\ loop \in Loops /\ messages \in Nat
      /\ due \in [Callbacks -> Seq(Nat)]
  BY DEF SocketInv, ListenersTyped
<1>3. /\ on'[e] \in Seq(Callbacks) /\ Len(on'[e]) = Len(on[e]) + 1
      /\ \A i \in 1 .. Len(on[e]) : on'[e][i] = on[e][i]
      /\ on'[e][Len(on[e]) + 1] = l
      /\ Len(on[e]) \in Nat
      /\ \A f \in EventNames : f # e => on'[f] = on[f]
      /\ on' \in [EventNames -> Seq(Callbacks)]
  <2>1. on[e] \in Seq(Callbacks) /\ on'[e] = Append(on[e], l)
    BY <1>1, <1>2
  <2>2. /\ on'[e] \in Seq(Callbacks) /\ Len(on'[e]) = Len(on[e]) + 1
        /\ \A i \in 1 .. Len(on[e]) : on'[e][i] = on[e][i]
        /\ on'[e][Len(on[e]) + 1] = l
        /\ Len(on[e]) \in Nat
    BY <2>1, AppendProperties, LenProperties
  <2>. QED
    BY <1>1, <1>2, <2>2
<1>4. /\ \A i \in 1 .. Len(on[e]) : on[e][i] # l
      /\ loop.over = e => loop.runs
  BY NotRegistered, LoopKinds DEF Socket!On, Socket!MayRegister
<1>5. ListenersTyped'
  <2>1. due' \in [Callbacks -> Seq(Nat)]
    BY <1>1, <1>2
  <2>. QED
    BY <1>1, <1>3, <2>1 DEF SocketInv, ListenersTyped
<1>6. LoopInPlace'
  <2>1. \A f \in EventNames : \A i, j \in 1 .. Len(on'[f]) : on'[f][i] = on'[f][j] => i = j
    <3>1. \A i, j \in 1 .. Len(on'[e]) : on'[e][i] = on'[e][j] => i = j
      BY <1>3, <1>4 DEF SocketInv, LoopInPlace
    <3>. QED
      BY <1>3, <3>1 DEF SocketInv, LoopInPlace
  <2>2. loop.over \in EventNames => Within(on[loop.over])'
    BY <1>1, <1>2, <1>3 DEF SocketInv, LoopInPlace, Within, Loops
  <2>. QED
    BY <1>1, <2>1, <2>2 DEF SocketInv, LoopInPlace, Within, Socket!NoLoop
<1>7. NothingMissed'
  <2>1. CASE loop.over = e
    <3>1. Within(on[e]) /\ loop.runs
      BY <1>4, <2>1 DEF SocketInv, LoopInPlace
    <3>2. ~Ahead(l) /\ Ahead(l)'
      <4>1. Len(on[e]) + 1 \in 1 .. Len(on'[e]) /\ Len(on[e]) + 1 > loop.place
        BY <1>2, <1>3, <3>1 DEF Within, Loops
      <4>. QED
        BY <1>1, <1>3, <1>4, <2>1, <4>1 DEF Ahead
    <3>3. \A m \in Callbacks \ {l} : Ahead(m)' <=> Ahead(m)
      BY <1>1, <1>3, <2>1 DEF Ahead
    <3>. QED
      BY <1>1, <1>2, <2>1, <3>2, <3>3 DEF SocketInv, NothingMissed
  <2>2. CASE loop.over # e
    <3>1. \A m \in Callbacks : Ahead(m)' <=> Ahead(m)
      BY <1>1, <1>3, <2>2 DEF Ahead
    <3>. QED
      BY <1>1, <2>2, <3>1 DEF SocketInv, NothingMissed
  <2>. QED
    BY <2>1, <2>2
<1>8. OpenersInOrder'
  BY <1>1 DEF SocketInv, OpenersInOrder
<1>. QED
  BY <1>5, <1>6, <1>7, <1>8 DEF SocketInv

\* The loop goes on behind the listener that has come back.
LEMMA ReturnsInv ==
  ASSUME SocketInv, Socket!Returns
  PROVE  SocketInv'
<1>1. /\ loop' = [loop EXCEPT !.place = loop.place + 1, !.runs = FALSE]
      /\ UNCHANGED <<state, openers, on, messages, opened, heard, due>>
      /\ loop \in Loops /\ loop.runs /\ loop.over # "none"
  BY LoopKinds DEF Socket!Returns, SocketInv, ListenersTyped
<1>2. loop' \in Loops /\ loop'.over = loop.over /\ loop'.place = loop.place + 1 /\ ~loop'.runs
  <2>1. loop.place + 1 \in Nat
    BY <1>1 DEF Loops
  <2>. QED
    BY <1>1, <2>1 DEF Loops
<1>3. ListenersTyped'
  BY <1>1, <1>2 DEF SocketInv, ListenersTyped
<1>4. LoopInPlace'
  <2>1. /\ openers \in Seq(Callbacks) /\ \A e \in EventNames : on[e] \in Seq(Callbacks)
    BY DEF SocketInv, ListenersTyped
  <2>2. ASSUME NEW array \in Seq(Callbacks), Within(array)
        PROVE  loop.place + 1 \in 1 .. Len(array) + 1
    BY <1>1, <2>2 DEF Within, Loops
  <2>3. loop.over = "openers" => Within(openers)'
    BY <1>1, <1>2, <2>1, <2>2 DEF SocketInv, LoopInPlace, Within
  <2>4. loop.over \in EventNames => Within(on[loop.over])'
    BY <1>1, <1>2, <2>1, <2>2 DEF SocketInv, LoopInPlace, Within
  <2>. QED
    BY <1>1, <1>2, <2>3, <2>4 DEF SocketInv, LoopInPlace, Within
<1>5. NothingMissed'
  <2>1. \A l \in Callbacks : Ahead(l)' <=> Ahead(l)
    BY <1>1, <1>2 DEF Ahead, Loops
  <2>. QED
    BY <1>1, <2>1 DEF SocketInv, NothingMissed
<1>6. OpenersInOrder'
  BY <1>1, <1>2 DEF SocketInv, OpenersInOrder, Loops
<1>. QED
  BY <1>3, <1>4, <1>5, <1>6 DEF SocketInv

\* A loop ends at the end of its array, or an open listener throws out of it.
LEMMA LoopEndsInv ==
  ASSUME SocketInv, Socket!EndLoop \/ Socket!OpenerThrows
  PROVE  SocketInv'
<1>1. /\ loop' = Socket!NoLoop
      /\ UNCHANGED <<state, openers, on, messages, opened, heard, due>>
      /\ loop \in Loops
  BY DEF Socket!EndLoop, Socket!OpenerThrows, SocketInv, ListenersTyped
<1>2. loop' \in Loops /\ loop'.over = "none"
  BY <1>1 DEF Loops, Socket!NoLoop
<1>3. ListenersTyped'
  BY <1>1, <1>2 DEF SocketInv, ListenersTyped
<1>4. LoopInPlace'
  BY <1>1, <1>2, EventsAssumption DEF SocketInv, LoopInPlace, Socket!NoLoop
<1>5. NothingMissed'
  <2>1. \A l \in Callbacks : ~Ahead(l)
    <3>1. CASE loop.over = "openers"
      BY <3>1, LoopKinds DEF Ahead
    <3>2. CASE loop.over \in EventNames
      <4>1. loop.place > Len(on[loop.over]) /\ ~loop.runs
        BY <3>2, LoopKinds DEF Socket!EndLoop, Socket!OpenerThrows, Socket!Array
      <4>2. Len(on[loop.over]) \in Nat /\ loop.place \in Nat
        BY <1>1, <3>2 DEF SocketInv, ListenersTyped, Loops
      <4>. QED
        BY <4>1, <4>2 DEF Ahead
    <3>3. CASE loop.over = "none"
      BY <3>3, EventsAssumption DEF Ahead
    <3>. QED
      BY <1>1, <3>1, <3>2, <3>3 DEF Loops
  <2>2. \A l \in Callbacks : ~Ahead(l)'
    BY <1>2, EventsAssumption DEF Ahead
  <2>. QED
    BY <1>1, <2>1, <2>2 DEF SocketInv, NothingMissed
<1>6. OpenersInOrder'
  <2>1. state = "open" \/ loop.over = "none"
    BY DEF SocketInv, OpenersInOrder
  <2>2. ~Socket!Idle
    BY DEF Socket!EndLoop, Socket!OpenerThrows
  <2>. QED
    BY <1>1, <1>2, <2>1, <2>2, LoopKinds DEF SocketInv, OpenersInOrder
<1>. QED
  BY <1>3, <1>4, <1>5, <1>6 DEF SocketInv

LEMMA OpenInv ==
  ASSUME SocketInv, Socket!Open
  PROVE  SocketInv'
<1>1. /\ loop.over = "none" /\ state = "connecting" /\ opened = <<>>
      /\ state' = "open" /\ loop' = Socket!OpenLoop
      /\ UNCHANGED <<openers, on, messages, opened, heard, due>>
      /\ openers \in Seq(Callbacks)
  BY LoopKinds DEF Socket!Open, SocketInv, ListenersTyped, OpenersInOrder
<1>2. /\ loop' \in Loops /\ loop'.over = "openers" /\ loop'.place = 1 /\ ~loop'.runs
      /\ "openers" \notin EventNames /\ Len(opened) = 0
  BY <1>1, EventsAssumption DEF Loops, Socket!OpenLoop
<1>3. ListenersTyped'
  BY <1>1, <1>2 DEF SocketInv, ListenersTyped
<1>4. LoopInPlace'
  BY <1>1, <1>2 DEF SocketInv, LoopInPlace, Within
<1>5. NothingMissed'
  <2>1. \A l \in Callbacks : ~Ahead(l) /\ ~Ahead(l)'
    BY <1>1, <1>2, EventsAssumption DEF Ahead
  <2>. QED
    BY <1>1, <2>1 DEF SocketInv, NothingMissed
<1>6. OpenersInOrder'
  BY <1>1, <1>2 DEF SocketInv, OpenersInOrder
<1>. QED
  BY <1>3, <1>4, <1>5, <1>6 DEF SocketInv

LEMMA CloseInv ==
  ASSUME SocketInv, Socket!Close
  PROVE  SocketInv'
<1>1. /\ loop.over = "none" /\ state' = "closed"
      /\ openers' = <<>> /\ on' = [e \in EventNames |-> <<>>]
      /\ UNCHANGED <<loop, messages, opened, heard, due>>
  BY LoopKinds DEF Socket!Close
<1>2. ListenersTyped'
  BY <1>1, EmptySeq DEF SocketInv, ListenersTyped
<1>3. LoopInPlace'
  BY <1>1, EventsAssumption DEF SocketInv, LoopInPlace, Socket!NoLoop
<1>4. NothingMissed'
  <2>1. \A l \in Callbacks : ~Ahead(l) /\ ~Ahead(l)'
    BY <1>1, EventsAssumption DEF Ahead
  <2>. QED
    BY <1>1, <2>1 DEF SocketInv, NothingMissed
<1>5. OpenersInOrder'
  BY <1>1 DEF SocketInv, OpenersInOrder
<1>. QED
  BY <1>2, <1>3, <1>4, <1>5 DEF SocketInv

\* A message is due to all that are in the array of its event.
LEMMA MessageInv ==
  ASSUME SocketInv, NEW e \in EventNames, Socket!Message(e)
  PROVE  SocketInv'
<1>1. /\ loop.over = "none" /\ state = "open" /\ messages' = messages + 1
      /\ loop' = Socket!MessageLoop(e)
      /\ due' = [l \in Callbacks |->
                   IF l \in Socket!Range(on[e]) THEN Append(due[l], messages') ELSE due[l]]
      /\ UNCHANGED <<state, openers, on, opened, heard>>
      /\ on[e] \in Seq(Callbacks) /\ messages \in Nat /\ due \in [Callbacks -> Seq(Nat)]
  BY LoopKinds DEF Socket!Message, SocketInv, ListenersTyped
<1>2. /\ loop' \in Loops /\ loop'.over = e /\ loop'.place = 1 /\ ~loop'.runs
      /\ e # "openers" /\ e # "none"
  BY <1>1, EventsAssumption DEF Loops, Socket!MessageLoop
<1>3. ListenersTyped'
  <2>1. due' \in [Callbacks -> Seq(Nat)] /\ messages' \in Nat
    BY <1>1
  <2>. QED
    BY <1>1, <1>2, <2>1 DEF SocketInv, ListenersTyped
<1>4. LoopInPlace'
  <2>1. Within(on[e])'
    BY <1>1, <1>2 DEF Within
  <2>. QED
    BY <1>1, <1>2, <2>1 DEF SocketInv, LoopInPlace
<1>5. NothingMissed'
  <2>1. \A l \in Callbacks : ~Ahead(l)
    BY <1>1, EventsAssumption DEF Ahead
  <2>2. \A l \in Callbacks : Ahead(l)' <=> l \in Socket!Range(on[e])
    <3>1. DOMAIN on[e] = 1 .. Len(on[e])
      BY <1>1, LenProperties
    <3>2. \A l : l \in Socket!Range(on[e]) <=> \E i \in 1 .. Len(on[e]) : on[e][i] = l
      BY <3>1 DEF Socket!Range
    <3>3. Len(on[e]) \in Nat /\ \A i \in 1 .. Len(on[e]) : i > 1 \/ i = 1
      BY <1>1
    <3>4. \A l \in Callbacks : Ahead(l)' <=> \E i \in 1 .. Len(on[e]) : on[e][i] = l
      BY <1>1, <1>2, <3>3 DEF Ahead
    <3>. QED
      BY <3>2, <3>4
  <2>. QED
    BY <1>1, <2>1, <2>2 DEF SocketInv, NothingMissed
<1>6. OpenersInOrder'
  BY <1>1, <1>2 DEF SocketInv, OpenersInOrder
<1>. QED
  BY <1>3, <1>4, <1>5, <1>6 DEF SocketInv

\* A message that is no event is due to nobody.
LEMMA NoEventInv ==
  ASSUME SocketInv, Socket!NoEvent
  PROVE  SocketInv'
<1>1. /\ loop.over = "none" /\ state = "open" /\ messages' = messages + 1
      /\ UNCHANGED <<state, openers, on, loop, opened, heard, due>> /\ messages \in Nat
  BY LoopKinds DEF Socket!NoEvent, SocketInv, ListenersTyped
<1>2. ListenersTyped'
  BY <1>1 DEF SocketInv, ListenersTyped
<1>3. LoopInPlace'
  BY <1>1, EventsAssumption DEF SocketInv, LoopInPlace, Socket!NoLoop
<1>4. NothingMissed'
  <2>1. \A l \in Callbacks : ~Ahead(l) /\ ~Ahead(l)'
    BY <1>1, EventsAssumption DEF Ahead
  <2>. QED
    BY <1>1, <2>1 DEF SocketInv, NothingMissed
<1>5. OpenersInOrder'
  BY <1>1 DEF SocketInv, OpenersInOrder
<1>. QED
  BY <1>2, <1>3, <1>4, <1>5 DEF SocketInv

\* The listener that is called has heard what it was due.
LEMMA CallNextInv ==
  ASSUME SocketInv, Socket!CallNext
  PROVE  SocketInv'
<1>1. /\ loop' = [loop EXCEPT !.runs = TRUE]
      /\ UNCHANGED <<state, openers, on, messages, due>>
      /\ ~loop.runs /\ loop.over # "none" /\ loop.place <= Len(Socket!Array)
      /\ loop \in Loops
  BY LoopKinds DEF Socket!CallNext, SocketInv, ListenersTyped
<1>2. loop' \in Loops /\ loop'.over = loop.over /\ loop'.place = loop.place /\ loop'.runs
  BY <1>1 DEF Loops
<1>3. CASE loop.over = "openers"
  <2>1. /\ opened' = Append(opened, openers[loop.place]) /\ heard' = heard
        /\ loop.place <= Len(openers)
    BY <1>1, <1>3 DEF Socket!CallNext, Socket!Array, Socket!Caller
  <2>2. /\ Within(openers) /\ openers \in Seq(Callbacks) /\ opened \in Seq(Callbacks)
        /\ Len(opened) = loop.place - 1 /\ state = "open"
        /\ Len(opened) <= Len(openers)
        /\ \A i \in 1 .. Len(opened) : opened[i] = openers[i]
    BY <1>1, <1>3 DEF SocketInv, ListenersTyped, LoopInPlace, OpenersInOrder
  <2>3. loop.place \in 1 .. Len(openers) /\ openers[loop.place] \in Callbacks
    BY <2>1, <2>2, ElementOfSeq DEF Within
  <2>4. /\ opened' \in Seq(Callbacks) /\ Len(opened') = loop.place
        /\ \A i \in 1 .. Len(opened) : opened'[i] = opened[i]
        /\ opened'[Len(opened) + 1] = openers[loop.place]
    BY <2>1, <2>2, <2>3, AppendProperties
  <2>5. ListenersTyped'
    BY <1>1, <1>2, <2>1, <2>4 DEF SocketInv, ListenersTyped
  <2>6. LoopInPlace'
    BY <1>1, <1>2, <1>3, <2>3, EventsAssumption DEF SocketInv, LoopInPlace, Within
  <2>7. NothingMissed'
    <3>1. \A l \in Callbacks : ~Ahead(l) /\ ~Ahead(l)'
      BY <1>2, <1>3, EventsAssumption DEF Ahead
    <3>. QED
      BY <1>1, <2>1, <3>1 DEF SocketInv, NothingMissed
  <2>8. OpenersInOrder'
    <3>1. \A i \in 1 .. Len(opened') : opened'[i] = openers[i]
      BY <2>2, <2>3, <2>4
    <3>. QED
      BY <1>1, <1>2, <1>3, <2>2, <2>3, <2>4, <3>1 DEF OpenersInOrder
  <2>. QED
    BY <2>5, <2>6, <2>7, <2>8 DEF SocketInv
<1>4. CASE loop.over \in EventNames
  <2> DEFINE array == on[loop.over]
             l == array[loop.place]
  <2>1. /\ heard' = [heard EXCEPT ![l] = Append(heard[l], messages)] /\ opened' = opened
        /\ loop.place <= Len(array)
    BY <1>1, <1>4, LoopKinds DEF Socket!CallNext, Socket!Array, Socket!Caller
  <2>2. /\ Within(array) /\ array \in Seq(Callbacks)
        /\ \A i, j \in 1 .. Len(array) : array[i] = array[j] => i = j
    BY <1>1, <1>4 DEF SocketInv, ListenersTyped, LoopInPlace
  <2>3. loop.place \in 1 .. Len(array) /\ l \in Callbacks
    BY <2>1, <2>2, ElementOfSeq DEF Within
  <2>4. heard \in [Callbacks -> Seq(Nat)] /\ messages \in Nat
    BY DEF SocketInv, ListenersTyped
  <2>5. ListenersTyped'
    <3>1. heard' \in [Callbacks -> Seq(Nat)]
      BY <2>1, <2>3, <2>4
    <3>. QED
      BY <1>1, <1>2, <2>1, <3>1 DEF SocketInv, ListenersTyped
  <2>6. LoopInPlace'
    <3>1. Within(on[loop.over])'
      BY <1>1, <1>2, <2>2, <2>3 DEF Within
    <3>2. loop.over # "openers" /\ loop.over # "none"
      BY <1>4, LoopKinds
    <3>. QED
      BY <1>1, <1>2, <3>1, <3>2 DEF SocketInv, LoopInPlace
  <2>7. NothingMissed'
    <3>1. Ahead(l)
      BY <1>1, <1>4, <2>3 DEF Ahead
    <3>2. ~Ahead(l)'
      <4>1. \A i \in 1 .. Len(array) : array[i] = l => i = loop.place
        BY <2>2, <2>3
      <4>2. loop.place \in Nat
        BY <1>1 DEF Loops
      <4>. QED
        BY <1>1, <1>2, <4>1, <4>2 DEF Ahead
    <3>3. ASSUME NEW m \in Callbacks, m # l PROVE Ahead(m)' <=> Ahead(m)
      BY <1>1, <1>2, <3>3 DEF Ahead
    <3>4. due'[l] = heard'[l]
      BY <1>1, <2>1, <2>3, <2>4, <3>1 DEF SocketInv, NothingMissed
    <3>5. \A m \in Callbacks \ {l} :
            due'[m] = IF Ahead(m)' THEN Append(heard'[m], messages') ELSE heard'[m]
      BY <1>1, <2>1, <2>4, <3>3 DEF SocketInv, NothingMissed
    <3>. QED
      BY <1>1, <3>2, <3>4, <3>5 DEF NothingMissed
  <2>8. OpenersInOrder'
    BY <1>1, <1>2, <1>4, <2>1, LoopKinds DEF SocketInv, OpenersInOrder
  <2>. QED
    BY <2>5, <2>6, <2>7, <2>8 DEF SocketInv
<1>. QED
  BY <1>1, <1>3, <1>4 DEF Loops

LEMMA SocketStep ==
  ASSUME SocketInv, Socket!Next
  PROVE  SocketInv'
BY OnOpenInv, OnInv, ReturnsInv, LoopEndsInv, OpenInv, CallNextInv, CloseInv, MessageInv,
   NoEventInv
DEF Socket!Next

\* Every listener hears every message of its event once and in order, whichever listeners
\* throw, and whatever they and the application register meanwhile; and the open listeners
\* are called in the order of their registration.
THEOREM ListenersAreAlwaysCalled == LibrariesSpec => []ListenersAreCalled
<1>1. SocketInv /\ [LibrariesNext]_libraryVars => SocketInv'
  <2>1. ASSUME SocketInv, UNCHANGED socketVars PROVE SocketInv'
    BY <2>1 DEF socketVars, SocketInv, ListenersTyped, LoopInPlace, Within, NothingMissed,
                Ahead, OpenersInOrder, Socket!NoLoop
  <2>. QED
    BY <2>1, SocketStep DEF LibrariesNext, libraryVars
<1>2. LibrariesInit => SocketInv
  BY InitSocketInv DEF LibrariesInit
<1>. QED
  BY <1>1, <1>2, SocketInvGives, PTL DEF LibrariesSpec, libraryVars

=============================================================================
