-------------------------------- MODULE Inputs --------------------------------
(* The calculations of the system keep no state. They are checked as a       *)
(* process that is given one input after another: a property relates several *)
(* results of the same input, or the same calculation on inputs that differ. *)
EXTENDS Integers, Sequences

CONSTANT Inputs   \* kind -> the inputs of that kind

VARIABLE input

Is(kind) == input.kind = kind

Idle(kind) == [kind |-> "idle", next |-> kind]

Ask(kind) ==
  /\ input = Idle(kind)
  /\ \E v \in Inputs[kind] : input' = [kind |-> kind, value |-> v]

Rest(kind) == Is(kind) /\ input' = Idle(kind)

Init == \E kind \in DOMAIN Inputs : input = Idle(kind)

Next == \E kind \in DOMAIN Inputs : Ask(kind) \/ Rest(kind)

Spec == Init /\ [][Next]_input

-----------------------------------------------------------------------------
\* Bars that data_quality.py finds no fault with: prices above zero, within
\* low and high.
Drawn(bars) ==
  /\ bars \in Seq([open : Int, high : Int, low : Nat \ {0}, close : Int, volume : Nat])
  /\ \A i \in DOMAIN bars : /\ bars[i].low <= bars[i].open /\ bars[i].open <= bars[i].high
                            /\ bars[i].low <= bars[i].close /\ bars[i].close <= bars[i].high
===============================================================================
