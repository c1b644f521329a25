---------------------------- MODULE FifoChannel ----------------------------
(***************************************************************************)
(* What a ProducerConsumerQueue promises to its users: a value that was    *)
(* put comes out once, after every value that was put before it.  Blocking,*)
(* tokens and capacity are the business of the detailed module PCQueue.    *)
(***************************************************************************)
EXTENDS Naturals, Sequences

CONSTANT Values        \* the values that can be handed over

VARIABLES items,       \* the values inside, oldest first
          taken        \* the values that came out, in the order they did

ElementsOf(s) == {s[i] : i \in 1 .. Len(s)}

Init == /\ items = <<>>
        /\ taken = <<>>

\* A value goes in at the back, at most once in its life.
Insert(v) == /\ v \notin ElementsOf(items) \cup ElementsOf(taken)
             /\ items' = Append(items, v)
             /\ UNCHANGED taken

\* The oldest value comes out.
Remove == /\ items # <<>>
          /\ taken' = Append(taken, Head(items))
          /\ items' = Tail(items)

Next == Remove \/ \E v \in Values : Insert(v)

Spec == Init /\ [][Next]_<<items, taken>>
=============================================================================
