--------------------------- MODULE ClktreeProofs ---------------------------
(***************************************************************************)
(* Every operation on a clock tree, of any shape, keeps it consistent up   *)
(* to the calls that are still to be made.                                 *)
(***************************************************************************)
EXTENDS Clktree, TLAPS

pending(c) == \E i \in 1..Len(calls) :
                calls[i].to = c /\ calls[i].from = get_input_clk(c)

(* Between calls the output of a clock is right; its input is right too,   *)
(* or the call that corrects it is pending.  No pending call carries an    *)
(* old frequency: the calls are ordered by where they come from, latest    *)
(* clocks first, so the one that runs changes no clock the others are from.*)
TreeInv ==
    /\ TreeTypeOK
    /\ \A c \in Clks : clk[c].output_freq = freq(clk[c])
    /\ \A c \in Clks : clk[c].selected_input # NO_INPUT =>
         clk[c].input_freq = clk[get_input_clk(c)].output_freq \/ pending(c)
    /\ \A i \in 1..Len(calls) : /\ calls[i].from < calls[i].to
                                /\ calls[i].freq = clk[calls[i].from].output_freq
    /\ \A i, j \in 1..Len(calls) : i < j => calls[j].from <= calls[i].from

(* A frequency is a natural number.                                        *)
LEMMA FreqNat ==
    ASSUME NEW r \in Clk
    PROVE  freq(r) \in Nat
<1>1. r.input_freq * r.multiplier \in Nat
  BY DEF Clk
<1>2. ASSUME NEW x \in Nat, NEW d \in Nat \ {0}
      PROVE  x \div d \in Nat
  BY <1>2, SMT
<1> QED
  BY <1>1, <1>2 DEF freq, Clk

(* A clock selects a clock that was created before it.                     *)
LEMMA InputBefore ==
    ASSUME TreeTypeOK, NEW c \in Clks, clk[c].selected_input # NO_INPUT
    PROVE  get_input_clk(c) \in Clks /\ get_input_clk(c) < c
<1>2. /\ input[c] \in Seq(Clks) /\ DOMAIN input[c] = 1..Len(input[c])
      /\ Len(input[c]) \in Nat
  BY ClktreeAssumption
<1>3. clk[c].selected_input \in Nat
  BY DEF TreeTypeOK, Clk
<1>1. clk[c].selected_input + 1 \in 1..Len(input[c])
  BY <1>2, <1>3 DEF TreeTypeOK
<1> DEFINE n == clk[c].selected_input + 1
<1>4. get_input_clk(c) = input[c][n]
  BY DEF get_input_clk
<1>5. n \in DOMAIN input[c]
  BY <1>1, <1>2
<1> HIDE DEF n
<1>6. input[c][n] \in Clks
  BY <1>2, <1>5
<1>7. input[c][n] < c
  BY <1>5, ClktreeAssumption, Zenon
<1> QED
  BY <1>4, <1>6, <1>7

(* The calls of a loop over the outputs go to later clocks.                *)
LEMMA ChildrenTyped ==
    ASSUME NEW c \in Clks, NEW f \in Nat
    PROVE  /\ children(c, f) \in Seq([to : Clks, from : Clks, freq : Nat])
           /\ Len(children(c, f)) = Len(output[c])
           /\ \A i \in 1..Len(output[c]) :
                /\ children(c, f)[i].to = output[c][i] /\ c < output[c][i]
                /\ children(c, f)[i].from = c /\ children(c, f)[i].freq = f
<1>1. output[c] \in Seq(Clks) /\ DOMAIN output[c] = 1..Len(output[c])
  BY ClktreeAssumption
<1>2. \A i \in 1..Len(output[c]) : output[c][i] \in Clks /\ c < output[c][i]
  <2> TAKE i \in 1..Len(output[c])
  <2>1. output[c][i] \in Clks /\ i \in DOMAIN output[c]
    BY <1>1
  <2>2. PICK k \in Clks : k = output[c][i]
    BY <2>1
  <2>3. \E j \in DOMAIN output[c] : output[c][j] = k
    BY <2>1, <2>2
  <2>4. PICK j \in DOMAIN input[k] : input[k][j] = c
    BY <2>3, ClktreeAssumption, Zenon
  <2>5. c < k
    BY <2>4, ClktreeAssumption
  <2> QED
    BY <2>1, <2>2, <2>5
<1>3. Len(output[c]) \in Nat
  BY <1>1
<1> QED
  BY <1>2, <1>3 DEF children

Call == [to : Clks, from : Clks, freq : Nat]

(* Calls put in front of calls from earlier clocks keep the order.         *)
LEMMA CallsOrdered ==
    ASSUME NEW kids \in Seq(Call), NEW rest \in Seq(Call), NEW c \in Clks,
           NEW all, all = kids \o rest,
           \A i \in 1..Len(kids) : kids[i].from = c,
           \A i \in 1..Len(rest) : rest[i].from < c,
           \A i, j \in 1..Len(rest) : i < j => rest[j].from <= rest[i].from
    PROVE  \A i, j \in 1..Len(all) : i < j => all[j].from <= all[i].from
<1> DEFINE K == Len(kids)
           R == Len(rest)
<1>1. /\ K \in Nat /\ R \in Nat /\ Len(all) = K + R
      /\ \A i \in 1..K : all[i] = kids[i]
      /\ \A i \in (K + 1)..(K + R) : all[i] = rest[i - K]
  OBVIOUS
<1>2. c \in Int /\ \A i \in 1..R : rest[i].from \in Int
  <2>1. \A i \in 1..R : rest[i] \in Call
    OBVIOUS
  <2>2. \A k \in Call : k.from \in Clks
    BY Zenon DEF Call
  <2>3. \A k \in Clks : k \in Int
    BY SMT DEF Clks
  <2> QED
    BY <2>1, <2>2, <2>3, Zenon
<1> HIDE DEF K, R
<1> SUFFICES ASSUME NEW i \in 1..Len(all), NEW j \in 1..Len(all), i < j
             PROVE  all[j].from <= all[i].from
  BY Zenon
<1>3. CASE j <= K
  <2>1. i \in 1..K /\ j \in 1..K
    BY <1>1, <1>3
  <2>2. all[i].from = c /\ all[j].from = c
    BY <2>1, <1>1 DEF K
  <2> QED
    BY <2>2, <1>2
<1>4. CASE i <= K /\ j > K
  <2>1. i \in 1..K /\ j \in (K + 1)..(K + R) /\ j - K \in 1..R
    BY <1>1, <1>4
  <2>2. all[i].from = c /\ all[j] = rest[j - K]
    BY <2>1, <1>1 DEF K
  <2>3. rest[j - K].from < c /\ rest[j - K].from \in Int
    BY <2>1, <1>2 DEF R
  <2> QED
    BY <2>2, <2>3, <1>2
<1>5. CASE i > K
  <2>1. /\ i \in (K + 1)..(K + R) /\ j \in (K + 1)..(K + R)
        /\ i - K \in 1..R /\ j - K \in 1..R /\ i - K < j - K
    BY <1>1, <1>5
  <2>2. all[i] = rest[i - K] /\ all[j] = rest[j - K]
    BY <2>1, <1>1
  <2>3. rest[j - K].from <= rest[i - K].from
    BY <2>1, Zenon DEF R
  <2> QED
    BY <2>2, <2>3
<1>6. j <= K \/ (i <= K /\ j > K) \/ i > K
  <2>1. i \in Int /\ j \in Int /\ K \in Int
    BY <1>1
  <2> QED
    BY <2>1
<1> QED
  BY <1>3, <1>4, <1>5, <1>6, Zenon

(* The heart of the argument: recomputing clock c, whose input is right,   *)
(* keeps the invariant if the calls left are from clocks before c and make *)
(* up for all the other clocks.                                            *)
LEMMA RecalcInv ==
    ASSUME TreeInv, NEW c \in Clks, NEW r \in Clk, NEW rest \in Seq(Call),
           r.output_freq = clk[c].output_freq,
           r.selected_input < Len(input[c]),
           r.selected_input # NO_INPUT =>
             /\ input[c][r.selected_input + 1] \in Clks \ {c}
             /\ r.input_freq = clk[input[c][r.selected_input + 1]].output_freq,
           \A i \in 1..Len(rest) :
             /\ rest[i].from < rest[i].to /\ rest[i].from < c
             /\ rest[i].freq = clk[rest[i].from].output_freq,
           \A i, j \in 1..Len(rest) : i < j => rest[j].from <= rest[i].from,
           \A d \in Clks \ {c} : clk[d].selected_input # NO_INPUT =>
             \/ clk[d].input_freq = clk[get_input_clk(d)].output_freq
             \/ \E i \in 1..Len(rest) :
                  rest[i].to = d /\ rest[i].from = get_input_clk(d),
           recalc(c, r, rest)
    PROVE  TreeInv'
<1>0. Len(rest) \in Nat /\ \A n \in 1..Len(rest) :
        /\ rest[n] \in Call /\ rest[n].from \in Clks /\ rest[n].to \in Clks
  <2>1. Len(rest) \in Nat /\ \A n \in 1..Len(rest) : rest[n] \in Call
    OBVIOUS
  <2> QED
    BY <2>1 DEF Call
<1> DEFINE f == freq(r)
           new == [r EXCEPT !.output_freq = f]
           kids == IF f = r.output_freq THEN <<>> ELSE children(c, f)
<1>1. f \in Nat
  BY FreqNat
<1>2. new \in Clk /\ freq(new) = f /\ new.output_freq = f
      /\ new.selected_input = r.selected_input /\ new.input_freq = r.input_freq
  BY <1>1, Zenon DEF Clk, freq
<1>3. clk' = [clk EXCEPT ![c] = new] /\ calls' = kids \o rest
  BY DEF recalc
<1> f = r.output_freq => kids = <<>>
  OBVIOUS
<1> f # r.output_freq => kids = children(c, f)
  OBVIOUS
<1> HIDE DEF f, new, kids
<1>4. /\ clk'[c] = new
      /\ \A d \in Clks \ {c} : clk'[d] = clk[d]
  BY <1>3 DEF TreeInv, TreeTypeOK
<1>5. /\ kids \in Seq(Call) /\ Len(kids) \in Nat
      /\ \A i \in 1..Len(kids) : /\ kids[i] \in Call /\ kids[i].from = c
                                 /\ kids[i].freq = f /\ c < kids[i].to
  <2>1. CASE f = r.output_freq
    BY <2>1
  <2>2. CASE f # r.output_freq
    <3>1. kids = children(c, f)
      BY <2>2
    <3>2. children(c, f) \in Seq(Call) /\ Len(children(c, f)) = Len(output[c])
      BY <1>1, ChildrenTyped, Zenon DEF Call
    <3>3. \A i \in 1..Len(output[c]) : children(c, f)[i] \in Call
      BY <3>2
    <3>4. \A i \in 1..Len(output[c]) :
            LET k == children(c, f)[i] IN k.from = c /\ k.freq = f /\ c < k.to
      BY <1>1, ChildrenTyped
    <3>5. Len(children(c, f)) \in Nat
      BY <3>2
    <3> QED
      BY <3>1, <3>2, <3>3, <3>4, <3>5
  <2> QED
    BY <2>1, <2>2
<1>6. /\ calls' \in Seq(Call) /\ Len(calls') = Len(kids) + Len(rest)
      /\ Len(rest) \in Nat
      /\ \A i \in 1..Len(kids) : calls'[i] = kids[i]
      /\ \A i \in 1..Len(rest) : calls'[i + Len(kids)] = rest[i]
      /\ \A i \in 1..Len(calls') : i > Len(kids) =>
           i - Len(kids) \in 1..Len(rest) /\ calls'[i] = rest[i - Len(kids)]
  BY <1>3, <1>5
<1>7. TreeTypeOK'
  BY <1>2, <1>3, <1>4, <1>6 DEF TreeInv, TreeTypeOK, Call
<1>8. \A d \in Clks : clk'[d].output_freq = freq(clk'[d])
  BY <1>2, <1>4 DEF TreeInv
<1>9. \A i \in 1..Len(calls') :
        /\ calls'[i].from < calls'[i].to
        /\ calls'[i].freq = clk'[calls'[i].from].output_freq
  <2> TAKE i \in 1..Len(calls')
  <2>1. CASE i <= Len(kids)
    <3>1. calls'[i] = kids[i] /\ kids[i].from = c /\ kids[i].freq = f /\ c < kids[i].to
      BY <2>1, <1>5, <1>6
    <3> QED
      BY <3>1, <1>2, <1>4
  <2>2. CASE i > Len(kids)
    <3>1. PICK j \in 1..Len(rest) : calls'[i] = rest[j]
      BY <2>2, <1>6
    <3>2. rest[j].from \in Clks \ {c}
      BY <1>0 DEF Clks
    <3> QED
      BY <3>1, <3>2, <1>4
  <2> QED
    BY <2>1, <2>2, <1>5, <1>6
<1>10. \A i, j \in 1..Len(calls') : i < j => calls'[j].from <= calls'[i].from
  <2>1. \A i \in 1..Len(kids) : kids[i].from = c
    BY <1>5
  <2>2. calls' = kids \o rest /\ kids \in Seq(Call) /\ rest \in Seq(Call)
    BY <1>3, <1>5
  <2>3. \A i \in 1..Len(rest) : rest[i].from < c
    OBVIOUS
  <2> QED
    BY <2>1, <2>2, <2>3, CallsOrdered, Zenon
<1>11. \A d \in Clks : (clk[d].selected_input # NO_INPUT =>
         clk[d].input_freq = clk[get_input_clk(d)].output_freq \/ pending(d))'
  <2> SUFFICES ASSUME NEW d \in Clks, clk'[d].selected_input # NO_INPUT
               PROVE  \/ clk'[d].input_freq = clk'[get_input_clk(d)'].output_freq
                      \/ pending(d)'
    BY DEF NO_INPUT
  <2>1. CASE d = c
    <3>1. clk'[d] = new /\ r.selected_input # NO_INPUT
      BY <2>1, <1>2, <1>4
    <3>2. get_input_clk(d)' = input[c][r.selected_input + 1]
      BY <2>1, <3>1, <1>2 DEF get_input_clk
    <3> QED
      BY <3>1, <3>2, <1>2, <1>4
  <2>2. CASE d # c
    <3> DEFINE p == get_input_clk(d)
    <3>1. /\ clk'[d] = clk[d] /\ get_input_clk(d)' = p
          /\ p \in Clks
      BY <2>2, <1>4, InputBefore DEF get_input_clk, TreeInv
    <3>2. CASE \E i \in 1..Len(rest) : rest[i].to = d /\ rest[i].from = p
      <4>1. PICK i \in 1..Len(rest) : rest[i].to = d /\ rest[i].from = p
        BY <3>2
      <4>2. i + Len(kids) \in 1..Len(calls') /\ calls'[i + Len(kids)] = rest[i]
        BY <1>5, <1>6
      <4> QED
        BY <4>1, <4>2, <3>1 DEF pending
    <3>3. CASE clk[d].input_freq = clk[p].output_freq /\ (p # c \/ f = r.output_freq)
      BY <3>1, <3>3, <1>2, <1>4
    <3>4. CASE p = c /\ f # r.output_freq
      <4>1. \E j \in DOMAIN output[c] : output[c][j] = d
        <5>1. \E i \in DOMAIN input[d] : input[d][i] = c
          <6>1. clk[d].selected_input + 1 \in DOMAIN input[d]
            <7>1. input[d] \in Seq(Clks) /\ DOMAIN input[d] = 1..Len(input[d])
                  /\ Len(input[d]) \in Nat
              BY ClktreeAssumption
            <7>2. clk[d].selected_input \in Nat
              BY <3>1 DEF TreeInv, TreeTypeOK, Clk
            <7> QED
              BY <7>1, <7>2 DEF TreeInv, TreeTypeOK
          <6> QED
            BY <6>1, <3>1, <3>4 DEF get_input_clk
        <5> QED
          BY <5>1, ClktreeAssumption, Zenon
      <4>2. PICK j \in 1..Len(output[c]) : output[c][j] = d
        BY <4>1, ClktreeAssumption
      <4>3. kids = children(c, f)
        BY <3>4
      <4>4. j \in 1..Len(kids) /\ kids[j].to = d /\ kids[j].from = c
        <5>1. /\ Len(children(c, f)) = Len(output[c])
              /\ \A i \in 1..Len(output[c]) : /\ children(c, f)[i].to = output[c][i]
                                              /\ children(c, f)[i].from = c
          BY <1>1, ChildrenTyped
        <5> QED
          BY <5>1, <4>2, <4>3
      <4>5. j \in 1..Len(calls') /\ calls'[j] = kids[j]
        BY <4>4, <1>5, <1>6
      <4> QED
        BY <4>4, <4>5, <3>1, <3>4 DEF pending
    <3> QED
      BY <2>2, <3>1, <3>2, <3>3, <3>4
  <2> QED
    BY <2>1, <2>2
<1> QED
  <2>1. \A d \in Clks : (clk[d].output_freq = freq(clk[d]))'
    BY <1>8 DEF freq
  <2> QED
    BY <2>1, <1>7, <1>9, <1>10, <1>11 DEF TreeInv

(* With no call pending the whole tree is consistent.                      *)
LEMMA InvConsistent == TreeInv => TreeConsistent
<1> SUFFICES ASSUME TreeInv, calls = <<>>, NEW c \in Clks
             PROVE  consistent(c)
  BY DEF TreeConsistent
<1>1. ~pending(c)
  BY DEF pending
<1> QED
  BY <1>1 DEF TreeInv, consistent

(* An operation of the register interface starts with no call pending.     *)
LEMMA OperationInv ==
    ASSUME TreeInv, calls = <<>>, NEW c \in Clks, NEW r \in Clk,
           r.output_freq = clk[c].output_freq,
           r.selected_input < Len(input[c]),
           r.selected_input # NO_INPUT =>
             /\ input[c][r.selected_input + 1] \in Clks \ {c}
             /\ r.input_freq = clk[input[c][r.selected_input + 1]].output_freq,
           recalc(c, r, <<>>)
    PROVE  TreeInv'
<1> DEFINE rest == <<>>
<1>1. rest \in Seq(Call) /\ 1..Len(rest) = {}
  OBVIOUS
<1>2. \A d \in Clks : clk[d].selected_input # NO_INPUT =>
        clk[d].input_freq = clk[get_input_clk(d)].output_freq
  BY InvConsistent DEF TreeConsistent, consistent
<1>3. recalc(c, r, rest)
  OBVIOUS
<1> HIDE DEF rest
<1>4. /\ \A i \in 1..Len(rest) : /\ rest[i].from < rest[i].to /\ rest[i].from < c
                                 /\ rest[i].freq = clk[rest[i].from].output_freq
      /\ \A i, j \in 1..Len(rest) : i < j => rest[j].from <= rest[i].from
  BY <1>1
<1> QED
  BY <1>1, <1>2, <1>3, <1>4, RecalcInv

(* Scaling, enabling and selecting keep the invariant.                     *)
LEMMA ScaleInv ==
    ASSUME TreeInv, NEW c \in Clks, NEW m \in Nat, NEW d \in Nat \ {0},
           set_scale(c, m, d)
    PROVE  TreeInv'
<1> DEFINE r == [clk[c] EXCEPT !.multiplier = m, !.divisor = d]
<1>1. /\ r \in Clk /\ r.output_freq = clk[c].output_freq
      /\ r.selected_input = clk[c].selected_input
      /\ r.input_freq = clk[c].input_freq
  BY Zenon DEF TreeInv, TreeTypeOK, Clk
<1>2. calls = <<>> /\ recalc(c, r, <<>>)
  BY DEF set_scale
<1>3. r.selected_input # NO_INPUT =>
        /\ input[c][r.selected_input + 1] \in Clks \ {c}
        /\ r.input_freq = clk[input[c][r.selected_input + 1]].output_freq
  BY <1>1, <1>2, InputBefore, InvConsistent
     DEF TreeInv, TreeConsistent, consistent, get_input_clk, Clks
<1>4. r.selected_input < Len(input[c])
  BY <1>1 DEF TreeInv, TreeTypeOK
<1> HIDE DEF r
<1> QED
  BY <1>1, <1>2, <1>3, <1>4, OperationInv

(* clktree_set_enabled keeps the invariant.                                *)
LEMMA EnableInv ==
    ASSUME TreeInv, NEW c \in Clks, NEW b \in BOOLEAN, set_enabled(c, b)
    PROVE  TreeInv'
<1> DEFINE r == [clk[c] EXCEPT !.enabled = b]
<1>1. /\ r \in Clk /\ r.output_freq = clk[c].output_freq
      /\ r.selected_input = clk[c].selected_input
      /\ r.input_freq = clk[c].input_freq
  BY Zenon DEF TreeInv, TreeTypeOK, Clk
<1>2. calls = <<>> /\ recalc(c, r, <<>>)
  BY DEF set_enabled
<1>3. r.selected_input # NO_INPUT =>
        /\ input[c][r.selected_input + 1] \in Clks \ {c}
        /\ r.input_freq = clk[input[c][r.selected_input + 1]].output_freq
  BY <1>1, <1>2, InputBefore, InvConsistent
     DEF TreeInv, TreeConsistent, consistent, get_input_clk, Clks
<1>4. r.selected_input < Len(input[c])
  BY <1>1 DEF TreeInv, TreeTypeOK
<1> HIDE DEF r
<1> QED
  BY <1>1, <1>2, <1>3, <1>4, OperationInv

(* clktree_set_selected_input keeps the invariant.                         *)
LEMMA SelectInv ==
    ASSUME TreeInv, NEW c \in Clks, NEW i \in Nat, set_selected_input(c, i)
    PROVE  TreeInv'
<1> DEFINE p == input[c][i + 1]
           r == [clk[c] EXCEPT !.selected_input = i,
                               !.input_freq = clk[p].output_freq]
<1>1. input[c] \in Seq(Clks) /\ i + 1 \in DOMAIN input[c]
  BY ClktreeAssumption DEF set_selected_input
<1>2. p \in Clks \ {c} /\ i < Len(input[c])
  <2>1. p \in Clks /\ p < c
    BY <1>1, ClktreeAssumption
  <2>2. c \in Int /\ p \in Int
    BY <2>1 DEF Clks
  <2>3. i + 1 \in 1..Len(input[c]) /\ Len(input[c]) \in Nat
    BY <1>1
  <2>4. i < Len(input[c])
    BY <2>3
  <2> QED
    BY <2>1, <2>2, <2>4
<1>3. clk[p].output_freq \in Nat
  BY <1>2, Zenon DEF TreeInv, TreeTypeOK, Clk
<1>4. /\ r \in Clk /\ r.output_freq = clk[c].output_freq
      /\ r.selected_input = i /\ r.input_freq = clk[p].output_freq
  BY <1>3, Zenon DEF TreeInv, TreeTypeOK, Clk
<1>5. calls = <<>> /\ recalc(c, r, <<>>)
  BY DEF set_selected_input
<1> HIDE DEF r
<1> QED
  BY <1>2, <1>4, <1>5, OperationInv

(* The call that runs comes from a clock before the one it is made to; the *)
(* others come from that clock or from earlier ones.                       *)
LEMMA PropagateInv ==
    ASSUME TreeInv, set_input_freq
    PROVE  TreeInv'
<1> DEFINE k == Head(calls)
           c == k.to
           rest == Tail(calls)
<1>1. /\ calls \in Seq(Call) /\ calls # <<>> /\ Len(calls) \in Nat \ {0}
      /\ k = calls[1] /\ k \in Call
      /\ rest \in Seq(Call) /\ Len(rest) = Len(calls) - 1
      /\ \A i \in 1..Len(rest) : rest[i] = calls[i + 1] /\ i + 1 \in 1..Len(calls)
  <2>1. calls \in Seq(Call) /\ calls # <<>>
    BY DEF set_input_freq, TreeInv, TreeTypeOK, Call
  <2>2. Len(calls) \in Nat \ {0}
    BY <2>1
  <2>3. k = calls[1] /\ k \in Call
    BY <2>1, <2>2
  <2>4. rest \in Seq(Call) /\ Len(rest) = Len(calls) - 1
    BY <2>1, <2>2
  <2>5. \A i \in 1..Len(rest) : rest[i] = calls[i + 1] /\ i + 1 \in 1..Len(calls)
    BY <2>1, <2>2, <2>4
  <2> QED
    BY <2>1, <2>2, <2>3, <2>4, <2>5
<1>2. c \in Clks /\ k.from \in Clks /\ k.freq \in Nat /\ k.from < c
      /\ k.freq = clk[k.from].output_freq
  BY <1>1 DEF Call, TreeInv
<1>3. \A i \in 1..Len(rest) :
        /\ rest[i].from < rest[i].to /\ rest[i].from <= k.from
        /\ rest[i].from \in Clks /\ rest[i].from < c
        /\ rest[i].freq = clk[rest[i].from].output_freq
  <2> TAKE i \in 1..Len(rest)
  <2>1. /\ rest[i] = calls[i + 1] /\ i + 1 \in 1..Len(calls) /\ 1 < i + 1
        /\ 1 \in 1..Len(calls)
    BY <1>1
  <2>2. calls[i + 1] \in Call
    BY <1>1, <2>1
  <2>3. calls[i + 1].from <= calls[1].from /\ calls[i + 1].from \in Clks
    BY <2>1, <2>2 DEF TreeInv, Call
  <2>4. /\ calls[i + 1].from < calls[i + 1].to
        /\ calls[i + 1].freq = clk[calls[i + 1].from].output_freq
    BY <2>1 DEF TreeInv
  <2> QED
    BY <2>1, <2>3, <2>4, <1>1, <1>2 DEF Clks
<1>4. \A i, j \in 1..Len(rest) : i < j => rest[j].from <= rest[i].from
  BY <1>1 DEF TreeInv
<1>5. \A d \in Clks : clk[d].selected_input # NO_INPUT =>
        \/ d = c /\ get_input_clk(c) = k.from
        \/ clk[d].input_freq = clk[get_input_clk(d)].output_freq
        \/ \E i \in 1..Len(rest) : rest[i].to = d /\ rest[i].from = get_input_clk(d)
  <2> SUFFICES ASSUME NEW d \in Clks, clk[d].selected_input # NO_INPUT, pending(d),
                      ~(d = c /\ get_input_clk(c) = k.from)
               PROVE  \E i \in 1..Len(rest) :
                        rest[i].to = d /\ rest[i].from = get_input_clk(d)
    BY DEF TreeInv
  <2>1. PICK i \in 1..Len(calls) : calls[i].to = d /\ calls[i].from = get_input_clk(d)
    BY DEF pending
  <2>2. i # 1
    BY <2>1, <1>1
  <2>3. i - 1 \in 1..Len(rest) /\ rest[i - 1] = calls[i]
    BY <2>2, <1>1
  <2> QED
    BY <2>1, <2>3
<1>6. CASE get_input_clk(c) = k.from
  <2> DEFINE r == [clk[c] EXCEPT !.input_freq = k.freq]
  <2>1. /\ r \in Clk /\ r.output_freq = clk[c].output_freq
        /\ r.selected_input = clk[c].selected_input /\ r.input_freq = k.freq
    <3>1. clk[c] \in Clk /\ k.freq \in Nat
      BY <1>2 DEF TreeInv, TreeTypeOK
    <3> QED
      BY <3>1, Zenon DEF Clk
  <2>2. recalc(c, r, rest)
    BY <1>6 DEF set_input_freq
  <2>3. clk[c].selected_input # NO_INPUT =>
          /\ input[c][r.selected_input + 1] \in Clks \ {c}
          /\ r.input_freq = clk[input[c][r.selected_input + 1]].output_freq
    <3>1. clk[c].selected_input # NO_INPUT =>
            input[c][clk[c].selected_input + 1] = k.from
      BY <1>6 DEF get_input_clk
    <3>2. k.from \in Clks \ {c}
      BY <1>2 DEF Clks
    <3> HIDE DEF r, c, k
    <3> QED
      BY <1>2, <2>1, <3>1, <3>2
  <2>4. r.selected_input < Len(input[c])
    BY <1>2, <2>1 DEF TreeInv, TreeTypeOK
  <2> HIDE DEF r, rest, c, k
  <2> QED
    BY <1>1, <1>2, <1>3, <1>4, <1>5, <2>1, <2>2, <2>3, <2>4, RecalcInv, Zenon
<1>7. CASE get_input_clk(c) # k.from
  <2>1. calls' = rest /\ clk' = clk
    BY <1>7 DEF set_input_freq
  <2>2. TreeTypeOK'
    BY <2>1, <1>1 DEF TreeInv, TreeTypeOK, Call
  <2>3. \A d \in Clks : (clk[d].output_freq = freq(clk[d]))'
    BY <2>1 DEF TreeInv, freq
  <2>4. \A d \in Clks : (clk[d].selected_input # NO_INPUT =>
          clk[d].input_freq = clk[get_input_clk(d)].output_freq \/ pending(d))'
    <3> HIDE DEF rest, c, k
    <3> QED
      BY <2>1, <1>5, <1>7 DEF get_input_clk, pending, NO_INPUT
  <2>5. (\A i \in 1..Len(calls) : /\ calls[i].from < calls[i].to
                              /\ calls[i].freq = clk[calls[i].from].output_freq)'
    <3> HIDE DEF rest, c, k
    <3> QED
      BY <2>1, <1>3
  <2>6. (\A i, j \in 1..Len(calls) : i < j => calls[j].from <= calls[i].from)'
    <3> HIDE DEF rest, c, k
    <3> QED
      BY <2>1, <1>4
  <2> QED
    BY <2>2, <2>3, <2>4, <2>5, <2>6 DEF TreeInv
<1> QED
  BY <1>6, <1>7

(* Every step on the tree keeps the invariant.                             *)
LEMMA TreeInvStep == TreeInv /\ [TreeNext]_treeVars => TreeInv'
<1> SUFFICES ASSUME TreeInv, [TreeNext]_treeVars
             PROVE  TreeInv'
  OBVIOUS
<1>1. CASE UNCHANGED treeVars
  BY <1>1 DEF treeVars, TreeInv, TreeTypeOK, freq, get_input_clk, pending
<1>2. CASE TreeNext
  <2>1. PICK c \in Clks : TreeStep(c)
    BY <1>2 DEF TreeNext
  <2> QED
    BY <2>1, PropagateInv, ScaleInv, EnableInv, SelectInv DEF TreeStep
<1> QED
  BY <1>1, <1>2
=============================================================================
