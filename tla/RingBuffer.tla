----------------------------- MODULE RingBuffer -----------------------------
(***************************************************************************)
(* The circular array of values that libcthreads_queue.c and               *)
(* libcthreads_thread_pool.c both keep: values_array with pop_index,       *)
(* push_index and number_of_values.  Indices are advanced and wrapped with *)
(* comparisons, as in the code, so that no modulo is needed.               *)
(***************************************************************************)
EXTENDS Integers

CONSTANTS Capacity,     \* allocated_number_of_values
          Values,       \* the values a caller may push
          Key,          \* Key[v]: what value_compare_function compares
          NoValue       \* the NULL pointer

ASSUME RingAssumption ==
    /\ Capacity \in Nat
    /\ NoValue \notin Values
    /\ Key \in [Values -> Int]

Slots == 0 .. Capacity - 1

\* The index of an empty queue of capacity zero is 0 too.
Indices == Slots \cup {0}

Arrays == [Slots -> Values \cup {NoValue}]

\* Mutant of Advance: the index is compared with > instead of >=.
AdvanceTooFar(index) == IF index + 1 > Capacity THEN 0 ELSE index + 1

\* index++; if( index >= allocated_number_of_values ) index = 0;
Advance(index) == IF index + 1 >= Capacity THEN 0 ELSE index + 1

\* Mutant of Retreat: the shift does not go round the start of the array.
RetreatStopsAtZero(index) == IF index - 1 < 0 THEN 0 ELSE index - 1

\* index--; with the wrap to the last slot of the shift loop
Retreat(index) == IF index - 1 < 0 THEN Capacity - 1 ELSE index - 1

\* The slot k places after a slot, and how far one slot is after another.
SlotAfter(slot, k) ==
    IF slot + k >= Capacity THEN slot + k - Capacity ELSE slot + k

Distance(from, to) == IF to >= from THEN to - from ELSE to - from + Capacity

\* The values in the order in which they will be popped.
Contents(array, popIndex, number) ==
    [k \in 1 .. number |-> array[SlotAfter(popIndex, k - 1)]]

-----------------------------------------------------------------------------
(* The search of push_sorted: it walks the queue from pop_index and stops   *)
(* at a greater value, or at an equal one when only unique values are       *)
(* allowed.  Offsets count from pop_index; number is the end.             *)

SameKey(v, w) == Key[v] = Key[w]

LessKey(v, w) == Key[v] < Key[w]

\* Mutant of Stops: an equal value is always a reason to stop.
StopsAtEqual(array, slot, v, unique) == ~ LessKey(array[slot], v)

Stops(array, slot, v, unique) ==
    \/ LessKey(v, array[slot])
    \/ unique /\ SameKey(v, array[slot])

ScanEndsAt(offset, array, popIndex, number, v, unique) ==
    /\ \A k \in 0 .. offset - 1 :
          ~ Stops(array, SlotAfter(popIndex, k), v, unique)
    /\ offset < number =>
          Stops(array, SlotAfter(popIndex, offset), v, unique)

\* The shift of push_sorted: the values from the target slot up to
\* push_index move up by one slot and v takes the slot set free.
InsertAt(array, target, pushIndex, v) ==
    [slot \in Slots |->
        IF slot = target
        THEN v
        ELSE IF Distance(target, slot) <= Distance(target, pushIndex)
             THEN array[Retreat(slot)]
             ELSE array[slot]]
=============================================================================
