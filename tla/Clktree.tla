------------------------------ MODULE Clktree ------------------------------
(***************************************************************************)
(* The clock tree (hw/arm/stm32_clktree.c).  A clock is numbered by its    *)
(* creation: clktree_create_clk takes inputs that exist already.  The      *)
(* recursion that propagates a change is explicit: calls is what is left   *)
(* of the loops over the outputs, innermost first.                         *)
(***************************************************************************)
EXTENDS Integers, Sequences

CONSTANTS N,        \* number of clocks
          input,    \* the clocks each clock can select, in order
          output    \* the clocks that each can be selected by, in order

Clks == 1..N

ASSUME ClktreeAssumption ==
    /\ N \in Nat
    /\ input \in [Clks -> Seq(Clks)] /\ output \in [Clks -> Seq(Clks)]
    /\ \A c \in Clks : \A i \in DOMAIN input[c] : input[c][i] < c
    /\ \A c, k \in Clks : (\E i \in DOMAIN input[c] : input[c][i] = k)
                            <=> (\E j \in DOMAIN output[k] : output[k][j] = c)

VARIABLES clk,      \* struct Clk of each clock
          calls     \* calls of clktree_set_input_freq still to be made

treeVars == <<clk, calls>>

NO_INPUT == -1

freq(r) == IF r.enabled THEN (r.input_freq * r.multiplier) \div r.divisor ELSE 0

(* The clock selected by c, or 0.                                          *)
get_input_clk(c) ==
    IF clk[c].selected_input = NO_INPUT THEN 0
    ELSE input[c][clk[c].selected_input + 1]

children(c, f) ==
    [i \in 1..Len(output[c]) |-> [to |-> output[c][i], from |-> c, freq |-> f]]

(* Mutant of recalc: the frequency is passed on before it is stored.       *)
recalc_old_freq(c, r, rest) ==
    /\ clk' = [clk EXCEPT ![c] = [r EXCEPT !.output_freq = freq(r)]]
    /\ calls' = (IF freq(r) = r.output_freq THEN <<>>
                 ELSE children(c, r.output_freq)) \o rest

(* clktree_recalc_output_freq on clock c, whose other fields have become   *)
(* those of r.  An output that does not change is not passed on.           *)
recalc(c, r, rest) ==
    /\ clk' = [clk EXCEPT ![c] = [r EXCEPT !.output_freq = freq(r)]]
    /\ calls' = (IF freq(r) = r.output_freq THEN <<>>
                 ELSE children(c, freq(r))) \o rest

(* Mutant of set_input_freq: the loop does not get past an output that has *)
(* selected another clock.                                                 *)
set_input_freq_stuck ==
    /\ calls # <<>>
    /\ LET k == Head(calls) IN
       /\ get_input_clk(k.to) = k.from
       /\ recalc(k.to, [clk[k.to] EXCEPT !.input_freq = k.freq], Tail(calls))

(* One turn of the loop over the outputs: only a clock that has selected   *)
(* the one that changed is told.                                           *)
set_input_freq ==
    /\ calls # <<>>
    /\ LET k == Head(calls) IN
       \/ /\ get_input_clk(k.to) = k.from
          /\ recalc(k.to, [clk[k.to] EXCEPT !.input_freq = k.freq], Tail(calls))
       \/ /\ get_input_clk(k.to) # k.from
          /\ calls' = Tail(calls) /\ UNCHANGED clk

set_scale(c, mul, div) ==
    /\ calls = <<>>
    /\ recalc(c, [clk[c] EXCEPT !.multiplier = mul, !.divisor = div], <<>>)

set_enabled(c, b) ==
    /\ calls = <<>>
    /\ recalc(c, [clk[c] EXCEPT !.enabled = b], <<>>)

set_selected_input(c, i) ==
    /\ calls = <<>>
    /\ i + 1 \in DOMAIN input[c]
    /\ recalc(c, [clk[c] EXCEPT !.selected_input = i,
                                !.input_freq = clk[input[c][i + 1]].output_freq],
              <<>>)

TreeStep(c) ==
    \/ set_input_freq
    \/ \E m \in Nat, d \in Nat \ {0} : set_scale(c, m, d)
    \/ \E b \in BOOLEAN : set_enabled(c, b)
    \/ \E i \in Nat : set_selected_input(c, i)

TreeNext == \E c \in Clks : TreeStep(c)
-----------------------------------------------------------------------------
Clk == [enabled : BOOLEAN, input_freq : Nat, output_freq : Nat, multiplier : Nat,
        divisor : Nat \ {0}, selected_input : Nat \cup {NO_INPUT}]

(* The clocks are of their type and select an input that they have.        *)
TreeTypeOK ==
    /\ clk \in [Clks -> Clk]
    /\ \A c \in Clks : clk[c].selected_input < Len(input[c])
    /\ calls \in Seq([to : Clks, from : Clks, freq : Nat])

(* The output of every clock is its input, scaled, or 0 if it is disabled; *)
(* its input is the output of the clock it selected.                       *)
consistent(c) ==
    /\ clk[c].output_freq = freq(clk[c])
    /\ clk[c].selected_input # NO_INPUT =>
         clk[c].input_freq = clk[get_input_clk(c)].output_freq

(* When a change has been passed on, every clock is consistent, although   *)
(* the propagation stops at a clock whose output stays the same.           *)
TreeConsistent == calls = <<>> => \A c \in Clks : consistent(c)
=============================================================================
