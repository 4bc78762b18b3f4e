----------------------------- MODULE TaskQueue -----------------------------
(***************************************************************************)
(* The queue of ready tasks of the executor (taskflow/core/tsq.hpp): one   *)
(* thread pushes at the bottom, any thread steals from the top.  A steal   *)
(* takes three steps: it reads _top, it reads _bottom and the item, and it *)
(* advances _top with a compare-and-exchange, which fails when another     *)
(* steal came first.  Arrays that a push has replaced stay allocated, so   *)
(* that a thief which read the pointer before sees what it would have seen *)
(* then: its reads of the pointer and of the slot are one step.            *)
(*                                                                         *)
(* Memory is sequentially consistent here, as the fences in the code are   *)
(* to ensure.                                                              *)
(***************************************************************************)
EXTENDS Naturals, FiniteSets

CONSTANTS
  Thieves,     \* threads that steal
  Capacity,    \* of the first array, 1024 in the code
  Nil          \* no item

ASSUME QueueAssumption == Capacity \in Nat \ {0}

VARIABLES
  top, bottom,   \* _top, _bottom: the items at indices top .. bottom - 1
  array,         \* _array: a function on 0 .. capacity - 1
  seen,          \* per thief: the index it has read
  item           \* per thief: the item it has read

queueVars == <<top, bottom, array, seen, item>>

QueueInit ==
  /\ top = 0 /\ bottom = 0
  /\ array = [i \in 0 .. Capacity - 1 |-> Nil]
  /\ seen = [w \in Thieves |-> 0]
  /\ item = [w \in Thieves |-> Nil]

Size(a) == Cardinality(DOMAIN a)

At(a, i) == a[i % Size(a)]

(* The array has no room for one more. *)
IsFull == Size(array) - 1 < bottom - top

(* The items in an array of twice the size. *)
Resized ==
  [i \in 0 .. 2 * Size(array) - 1 |->
     LET live == { k \in top .. bottom - 1 : k % (2 * Size(array)) = i }
     IN IF live = {} THEN Nil ELSE At(array, CHOOSE k \in live : TRUE)]

(* push: the item goes to its slot, in a larger array if need be (the      *)
(* owner may know an older _top, and grow early), *)
PushItem(x) ==
  /\ array' = LET a == IF IsFull THEN Resized ELSE array
              IN [a EXCEPT ![bottom % Size(a)] = x]
  /\ UNCHANGED <<top, bottom, seen, item>>

(* and becomes visible. *)
PushBottom ==
  /\ bottom' = bottom + 1
  /\ UNCHANGED <<top, array, seen, item>>

(* The index was a local variable of the function that ends. *)
Forget(w) == seen' = [seen EXCEPT ![w] = 0]

(* steal *)
ReadTop(w) ==
  /\ seen' = [seen EXCEPT ![w] = top]
  /\ UNCHANGED <<top, bottom, array, item>>

ReadItem(w) ==
  /\ item' = [item EXCEPT ![w] =
                IF seen[w] < bottom THEN At(array, seen[w]) ELSE Nil]
  /\ UNCHANGED <<top, bottom, array, seen>>

(* Mutant: the thief keeps its item although another one was faster. *)
TakeUnchecked(w) ==
  /\ top' = IF seen[w] = top THEN top + 1 ELSE top
  /\ Forget(w)
  /\ UNCHANGED <<bottom, array, item>>

Take(w) ==
  /\ IF seen[w] = top
     THEN top' = top + 1 /\ UNCHANGED item
     ELSE item' = [item EXCEPT ![w] = Nil] /\ UNCHANGED top
  /\ Forget(w)
  /\ UNCHANGED <<bottom, array>>

(* empty: _bottom is read before _top. *)
ReadBottom(w) ==
  /\ seen' = [seen EXCEPT ![w] = bottom]
  /\ UNCHANGED <<top, bottom, array, item>>

FoundEmpty(w) == seen[w] <= top

=============================================================================
