---------------------------- MODULE CableNumbers ----------------------------
(***************************************************************************)
(* What the numbering half of the label service promises, without saying   *)
(* how: every cable family has one counter, a block of numbers is taken    *)
(* off the counter once, a taken number ends on at most one print job, and *)
(* a number that never reaches a job is a gap (README, guarantee 1: "Gaps, *)
(* never collisions").  Allocator.tla is shown to implement this.          *)
(***************************************************************************)
EXTENDS Integers

CONSTANT Assets          \* the cable families that own a counter

VARIABLES
  counter,   \* counter[a]: the next number of a; 0 while it holds no number
  held,      \* held[a]: numbers taken off the counter and on no job yet
  issued     \* issued[a]: numbers that some print job carries

numberVars == <<counter, held, issued>>

TypeOK ==
  /\ counter \in [Assets -> Nat]
  /\ held    \in [Assets -> SUBSET Nat]
  /\ issued  \in [Assets -> SUBSET Nat]

Init ==
  /\ counter \in [Assets -> Nat]
  /\ held   = [a \in Assets |-> {}]
  /\ issued = [a \in Assets |-> {}]

\* Only the counter of a moves, to a higher value.
Advance(a) ==
  /\ counter'[a] \in Nat
  /\ counter'[a] > counter[a]
  /\ counter' = [counter EXCEPT ![a] = counter'[a]]

\* A counter that holds no usable number is given its first one by a person.
Repair(a) ==
  /\ counter[a] = 0
  /\ Advance(a)
  /\ UNCHANGED <<held, issued>>

\* A block leaves the counter; the taker may already have lost it.
Take(a) ==
  /\ counter[a] > 0
  /\ Advance(a)
  /\ held' \in {held, [held EXCEPT ![a] = held[a] \cup (counter[a] .. (counter'[a] - 1))]}
  /\ UNCHANGED issued

\* Every number in hand goes on a print job.
Issue(a) ==
  /\ held[a] # {}
  /\ issued' = [issued EXCEPT ![a] = issued[a] \cup held[a]]
  /\ held'   = [held EXCEPT ![a] = {}]
  /\ UNCHANGED counter

\* The numbers in hand are given up for good: a gap.
GiveUp(a) ==
  /\ held[a] # {}
  /\ held' = [held EXCEPT ![a] = {}]
  /\ UNCHANGED <<counter, issued>>

Next == \E a \in Assets : Repair(a) \/ Take(a) \/ Issue(a) \/ GiveUp(a)

Spec == Init /\ [][Next]_numberVars

=============================================================================
