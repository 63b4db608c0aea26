----------------------------- MODULE ViewStack -----------------------------
(***************************************************************************)
(* ConcreteTuiViewStack: a loop renders the view on top of the stack and   *)
(* handles the action that rendering it gives, until the action is exit or *)
(* rendering fails.                                                        *)
(***************************************************************************)
EXTENDS Integers, Sequences

CONSTANTS
  Views,
  MaxDepths,   \* the values of the option maxDepth
  Depths       \* the depths views pass to popTo

VARIABLES
  maxDepth,
  stack,
  running

vars == <<maxDepth, stack, running>>

Depth == Len(stack)
Shorter(n) == SubSeq(stack, 1, n)

\* A push on a full stack waits for a key and changes nothing.
Push(v) ==
  /\ running /\ Depth < maxDepth
  /\ stack' = Append(stack, v)
  /\ UNCHANGED <<maxDepth, running>>

Pop ==
  /\ running /\ Depth > 1
  /\ stack' = Shorter(Depth - 1)
  /\ UNCHANGED <<maxDepth, running>>

Replace(v) ==
  /\ running
  /\ stack' = Append(Shorter(Depth - 1), v)
  /\ UNCHANGED <<maxDepth, running>>

\* Mutant: nothing keeps the last view.
PopToAny(d) ==
  /\ running /\ Depth > d
  /\ stack' = Shorter(IF d < 0 THEN 0 ELSE d)
  /\ UNCHANGED <<maxDepth, running>>

PopTo(d) ==
  /\ running /\ Depth > d
  /\ stack' = Shorter(IF d < 1 THEN 1 ELSE d)
  /\ UNCHANGED <<maxDepth, running>>

\* The action exit, or a render that fails.
Ends ==
  /\ running
  /\ running' = FALSE
  /\ UNCHANGED <<maxDepth, stack>>

Init ==
  /\ maxDepth \in MaxDepths
  /\ \E v \in Views : stack = <<v>>
  /\ running = TRUE

Next ==
  \/ \E v \in Views : Push(v) \/ Replace(v)
  \/ Pop \/ Ends
  \/ \E d \in Depths : PopTo(d)

Spec == Init /\ [][Next]_vars

----------------------------------------------------------------------------
(* Properties.                                                             *)

\* There is always a view to render, and never more than the options allow, whatever
\* depths views ask for.
StackIsBounded ==
  /\ stack \in Seq(Views)
  /\ Depth >= 1
  /\ Depth <= maxDepth \/ Depth = 1
=============================================================================
