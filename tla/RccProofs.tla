----------------------------- MODULE RccProofs -----------------------------
(***************************************************************************)
(* The clock controller only works on its tree by the tree's operations,   *)
(* so the tree stays consistent; the users of the clocks are never left    *)
(* with an old frequency; the clocks are those that the registers call     *)
(* for; and none is too slow for the divider of the USART.                 *)
(***************************************************************************)
EXTENDS Rcc, ClktreeProofs

(* The multiplier, the divisor and the selected input of clock c when CFGR *)
(* is v.                                                                   *)
mulOf(v, c) == IF c = PLLCLK THEN pllmul(v.PLLMUL) ELSE 1

divOf(v, c) == CASE c \in {HSI_DIV2, HSE_DIV2} -> 2
                 [] c = HCLK -> hpre(v.HPRE)
                 [] c = PCLK1 -> ppre(v.PPRE1)
                 [] c = PCLK2 -> ppre(v.PPRE2)
                 [] OTHER -> 1

inputOf(v, c) == CASE c \in {HSI, LSI, HSE, LSE} -> NO_INPUT
                   [] c = PLLXTPRE -> v.PLLXTPRE
                   [] c = PLLCLK -> v.PLLSRC
                   [] c = SYSCLK -> v.SW
                   [] OTHER -> 0

(* The clocks that CFGR scales, those that select one of several inputs,   *)
(* and those that no register stops.                                       *)
Scaled == {PLLCLK, HCLK, PCLK1, PCLK2}
Selecting == {PLLXTPRE, PLLCLK, SYSCLK}
AlwaysOn == {HSI_DIV2, HSE_DIV2, PLLXTPRE, SYSCLK, HCLK, PCLK1, PCLK2}

(* The calls that a register write makes when CFGR is, or becomes, v.      *)
CallsOf(v) == {Enable(c, b) : c \in Clks \ AlwaysOn, b \in BOOLEAN}
              \cup {Scale(c, mulOf(v, c), divOf(v, c)) : c \in Scaled}
              \cup {Select(c, inputOf(v, c)) : c \in Selecting}
              \cup {Error}

UserTypes ==
    /\ APB1ENR \subseteq APB1Writes /\ APB2ENR \subseteq APB2Writes
    /\ system_clock_scale \in Nat /\ bits_per_sec \in Nat /\ brr \in Nat
    /\ halted \in {"no", "hw_error", "trap"}

RccInv == /\ TreeInv /\ todo \in Seq(CallsOf(cfgr)) /\ cfgr \in CFGR
          /\ UserTypes /\ UsersFollowClocks

(* The clocks that stm32_rcc_init_clk creates are clocks of the tree.      *)
LEMMA ClocksAreClks ==
    /\ Clks = 1..25
    /\ HSI \in Clks /\ LSI \in Clks /\ HSE \in Clks /\ LSE \in Clks
    /\ PLLXTPRE \in Clks /\ PLLCLK \in Clks /\ SYSCLK \in Clks /\ HCLK \in Clks
    /\ PCLK1 \in Clks /\ PCLK2 \in Clks /\ UART2 \in Clks
<1>1. N = 25
  BY RccTree DEF Clocks
<1> QED
  BY <1>1 DEF Clks, HSI, LSI, HSE, LSE, PLLXTPRE, PLLCLK, SYSCLK,
     HCLK, PCLK1, PCLK2, UART2

(* Concatenation of calls.                                                 *)
LEMMA Sequences ==
    ASSUME NEW S, NEW a \in S, NEW b \in S, NEW s \in Seq(S), NEW t \in Seq(S)
    PROVE  <<a>> \in Seq(S) /\ <<a, b>> \in Seq(S) /\ s \o t \in Seq(S)
  OBVIOUS

(* Written values are register values.                                     *)
LEMMA WritesTyped ==
    /\ \A v \in CFGRWrites : v \in CFGR
    /\ \A v \in CRWrites : v \in [1..3 -> BOOLEAN]
    /\ BRRWrites \subseteq Nat
  BY RccAssumption, Zenon

(* What CFGR calls for is of the type that the operations take.            *)
LEMMA ArgsTyped ==
    ASSUME NEW v \in CFGR
    PROVE  /\ Scaled \subseteq Clks /\ Selecting \subseteq Clks
           /\ \A c \in Clks : mulOf(v, c) \in Nat /\ divOf(v, c) \in Nat \ {0}
           /\ \A c \in Selecting : inputOf(v, c) \in Nat
<1>1. \A c \in Clks : mulOf(v, c) \in Nat
  BY DEF mulOf, CFGR, pllmul
<1>2. \A c \in Clks : divOf(v, c) \in Nat \ {0}
  BY DEF divOf, CFGR, ppre, hpre
<1>3. \A c \in Selecting : inputOf(v, c) \in Nat
  BY DEF inputOf, CFGR, Selecting, PLLXTPRE, PLLCLK, SYSCLK, HSI, LSI, HSE, LSE
<1>4. Scaled \subseteq Clks /\ Selecting \subseteq Clks
  BY ClocksAreClks DEF Scaled, Selecting
<1> QED
  BY <1>1, <1>2, <1>3, <1>4, Zenon

(* Which calls a register write makes.                                     *)
LEMMA CallsTyped ==
    ASSUME NEW v
    PROVE  /\ \A c \in Clks \ AlwaysOn, b \in BOOLEAN : Enable(c, b) \in CallsOf(v)
           /\ \A c \in Scaled : Scale(c, mulOf(v, c), divOf(v, c)) \in CallsOf(v)
           /\ \A c \in Selecting : Select(c, inputOf(v, c)) \in CallsOf(v)
           /\ Error \in CallsOf(v)
<1>1. \A c \in Clks \ AlwaysOn, b \in BOOLEAN : Enable(c, b) \in CallsOf(v)
  BY DEF CallsOf
<1>2. \A c \in Scaled : Scale(c, mulOf(v, c), divOf(v, c)) \in CallsOf(v)
  BY DEF CallsOf
<1>3. \A c \in Selecting : Select(c, inputOf(v, c)) \in CallsOf(v)
  BY DEF CallsOf
<1>4. Error \in CallsOf(v)
  BY DEF CallsOf
<1> QED
  BY <1>1, <1>2, <1>3, <1>4, Zenon

(* Registers stop these clocks only.                                       *)
LEMMA Stoppable ==
    /\ Clks \ AlwaysOn = 1..4 \cup {8} \cup 13..25
    /\ HSI \in Clks \ AlwaysOn /\ HSE \in Clks \ AlwaysOn /\ PLLCLK \in Clks \ AlwaysOn
    /\ LSI \in Clks \ AlwaysOn /\ LSE \in Clks \ AlwaysOn
  BY ClocksAreClks DEF AlwaysOn, HSI, LSI, HSE, LSE, HSI_DIV2, HSE_DIV2, PLLXTPRE,
     PLLCLK, SYSCLK, HCLK, PCLK1, PCLK2

(* The calls of stm32_rcc_periph_enable enable or disable clocks,          *)
LEMMA EnablesTyped ==
    ASSUME NEW periphs \in Seq(Clks \ AlwaysOn), NEW value, NEW v
    PROVE  enables(periphs, value) \in Seq(CallsOf(v))
<1>1. \A i \in 1..Len(periphs) : periphs[i] \in Clks \ AlwaysOn
  OBVIOUS
<1>2. \A i \in 1..Len(periphs) :
        Enable(periphs[i], periphs[i] \in value) \in CallsOf(v)
  <2> TAKE i \in 1..Len(periphs)
  <2>1. CASE periphs[i] \in value
    <3>1. Enable(periphs[i], TRUE) \in CallsOf(v)
      BY <1>1, CallsTyped, Zenon
    <3> QED
      BY <3>1, <2>1, Zenon DEF Enable
  <2>2. CASE periphs[i] \notin value
    <3>1. Enable(periphs[i], FALSE) \in CallsOf(v)
      BY <1>1, CallsTyped, Zenon
    <3>2. (periphs[i] \in value) = FALSE
      BY <2>2
    <3> QED
      BY <3>1, <3>2, Zenon
  <2> QED
    BY <2>1, <2>2
<1>3. Len(periphs) \in Nat
  OBVIOUS
<1> QED
  BY <1>2, <1>3 DEF enables

(* so do those of a write of APB1ENR or APB2ENR,                           *)
LEMMA APBTyped ==
    ASSUME NEW value, NEW v
    PROVE  APB1_calls(value) \in Seq(CallsOf(v)) /\ APB2_calls(value) \in Seq(CallsOf(v))
<1>1. <<21, 17, 16, 15, 14, 13, 20, 19, 18>> \in Seq(Clks \ AlwaysOn)
  BY Stoppable
<1>2. <<25, 24, 23, 22>> \in Seq(Clks \ AlwaysOn)
  BY Stoppable
<1> QED
  BY <1>1, <1>2, EnablesTyped, Zenon DEF APB1_calls, APB2_calls

(* and of a write of CR;                                                   *)
LEMMA CRTyped ==
    ASSUME NEW p \in BOOLEAN, NEW e \in BOOLEAN, NEW i \in BOOLEAN, NEW v
    PROVE  CR_calls(p, e, i) \in Seq(CallsOf(v))
<1>1. /\ Enable(PLLCLK, p) \in CallsOf(v) /\ Enable(HSE, e) \in CallsOf(v)
      /\ Enable(HSI, i) \in CallsOf(v)
  BY CallsTyped, Stoppable, Zenon
<1> QED
  BY <1>1 DEF CR_calls

(* those of a write of CFGR scale and select.                              *)
LEMMA CFGRCalls ==
    ASSUME NEW v \in CFGR
    PROVE  /\ Scale(PLLCLK, mulOf(v, PLLCLK), divOf(v, PLLCLK))
                = Scale(PLLCLK, pllmul(v.PLLMUL), 1)
           /\ Scale(PCLK2, mulOf(v, PCLK2), divOf(v, PCLK2))
                = Scale(PCLK2, 1, ppre(v.PPRE2))
           /\ Scale(PCLK1, mulOf(v, PCLK1), divOf(v, PCLK1))
                = Scale(PCLK1, 1, ppre(v.PPRE1))
           /\ Scale(HCLK, mulOf(v, HCLK), divOf(v, HCLK)) = Scale(HCLK, 1, hpre(v.HPRE))
           /\ Select(PLLXTPRE, inputOf(v, PLLXTPRE)) = Select(PLLXTPRE, v.PLLXTPRE)
           /\ Select(PLLCLK, inputOf(v, PLLCLK)) = Select(PLLCLK, v.PLLSRC)
           /\ Select(SYSCLK, inputOf(v, SYSCLK)) = Select(SYSCLK, v.SW)
<1>1. /\ mulOf(v, PLLCLK) = pllmul(v.PLLMUL) /\ divOf(v, PLLCLK) = 1
      /\ mulOf(v, PCLK2) = 1 /\ divOf(v, PCLK2) = ppre(v.PPRE2)
      /\ mulOf(v, PCLK1) = 1 /\ divOf(v, PCLK1) = ppre(v.PPRE1)
      /\ mulOf(v, HCLK) = 1 /\ divOf(v, HCLK) = hpre(v.HPRE)
  BY DEF mulOf, divOf, HSI_DIV2, HSE_DIV2, PLLCLK, HCLK, PCLK1, PCLK2
<1>2. /\ inputOf(v, PLLXTPRE) = v.PLLXTPRE /\ inputOf(v, PLLCLK) = v.PLLSRC
      /\ inputOf(v, SYSCLK) = v.SW
  BY DEF inputOf, HSI, LSI, HSE, LSE, PLLXTPRE, PLLCLK, SYSCLK
<1> QED
  BY <1>1, <1>2, Zenon

(* They are the calls that its value calls for.                            *)
LEMMA CFGRTyped ==
    ASSUME NEW v \in CFGR
    PROVE  CFGR_calls(v) \in Seq(CallsOf(v))
<1>1. /\ Scale(PLLCLK, pllmul(v.PLLMUL), 1) \in CallsOf(v)
      /\ Scale(PCLK2, 1, ppre(v.PPRE2)) \in CallsOf(v)
      /\ Scale(PCLK1, 1, ppre(v.PPRE1)) \in CallsOf(v)
      /\ Scale(HCLK, 1, hpre(v.HPRE)) \in CallsOf(v)
  <2>1. PLLCLK \in Scaled /\ PCLK2 \in Scaled /\ PCLK1 \in Scaled /\ HCLK \in Scaled
    BY DEF Scaled
  <2> QED
    BY <2>1, CFGRCalls, CallsTyped, Zenon
<1>2. /\ Select(PLLXTPRE, v.PLLXTPRE) \in CallsOf(v)
      /\ Select(PLLCLK, v.PLLSRC) \in CallsOf(v)
      /\ (IF v.SW = 3 THEN Error ELSE Select(SYSCLK, v.SW)) \in CallsOf(v)
  <2>1. PLLXTPRE \in Selecting /\ PLLCLK \in Selecting /\ SYSCLK \in Selecting
    BY DEF Selecting
  <2> QED
    BY <2>1, CFGRCalls, CallsTyped, Zenon
<1> QED
  BY <1>1, <1>2 DEF CFGR_calls

(* The calls of a reset are those of the values it gives the registers.    *)
LEMMA ResetTyped == reset_calls \in Seq(CallsOf(CFGR_reset)) /\ CFGR_reset \in CFGR
<1> DEFINE S == CallsOf(CFGR_reset)
<1>1. CFGR_reset \in CFGR
  BY DEF CFGR_reset, CFGR
<1>2. /\ CR_calls(FALSE, FALSE, TRUE) \in Seq(S) /\ CFGR_calls(CFGR_reset) \in Seq(S)
      /\ APB2_calls({}) \in Seq(S) /\ APB1_calls({}) \in Seq(S)
  BY <1>1, CRTyped, CFGRTyped, APBTyped, Zenon
<1>3. <<Enable(LSE, FALSE), Enable(LSI, FALSE)>> \in Seq(S)
  <2>1. PICK a \in S, b \in S : a = Enable(LSE, FALSE) /\ b = Enable(LSI, FALSE)
    BY CallsTyped, Stoppable, Zenon
  <2> HIDE DEF S
  <2>2. <<a, b>> \in Seq(S)
    OBVIOUS
  <2> QED
    BY <2>1, <2>2, Zenon
<1>e. Error \in S
  BY CallsTyped, Zenon
<1> HIDE DEF S
<1>4. CR_calls(FALSE, FALSE, TRUE) \o CFGR_calls(CFGR_reset) \in Seq(S)
  BY <1>2, <1>e, Sequences, Zenon
<1>5. CR_calls(FALSE, FALSE, TRUE) \o CFGR_calls(CFGR_reset) \o APB2_calls({}) \in Seq(S)
  BY <1>2, <1>4, <1>e, Sequences, Zenon
<1>6. CR_calls(FALSE, FALSE, TRUE) \o CFGR_calls(CFGR_reset) \o APB2_calls({})
      \o APB1_calls({}) \in Seq(S)
  BY <1>2, <1>5, <1>e, Sequences, Zenon
<1>7. reset_calls \in Seq(S)
  BY <1>3, <1>6, <1>e, Sequences, Zenon DEF reset_calls
<1> QED
  BY <1>1, <1>7 DEF S

(* The next call is one of these.                                          *)
LEMMA CallCases ==
    ASSUME todo \in Seq(CallsOf(cfgr)), clktree_call
    PROVE  /\ todo # <<>> /\ todo' = Tail(todo) /\ todo' \in Seq(CallsOf(cfgr))
           /\ cfgr' = cfgr
           /\ \/ \E c \in Clks \ AlwaysOn, b \in BOOLEAN :
                   Head(todo) = Enable(c, b) /\ set_enabled(c, b)
              \/ \E c \in Scaled :
                   /\ Head(todo) = Scale(c, mulOf(cfgr, c), divOf(cfgr, c))
                   /\ set_scale(c, mulOf(cfgr, c), divOf(cfgr, c))
              \/ \E c \in Selecting :
                   /\ Head(todo) = Select(c, inputOf(cfgr, c))
                   /\ set_selected_input(c, inputOf(cfgr, c))
              \/ Head(todo) = Error /\ halted' = "hw_error" /\ UNCHANGED treeVars
<1> DEFINE t == Head(todo)
           S == CallsOf(cfgr)
<1>1. todo # <<>> /\ todo' = Tail(todo) /\ cfgr' = cfgr
  BY DEF clktree_call, regVars
<1>2. \/ t.op = "enable" /\ set_enabled(t.on, t.args[1])
      \/ t.op = "scale" /\ set_scale(t.on, t.args[1], t.args[2])
      \/ t.op = "select" /\ set_selected_input(t.on, t.args[1])
      \/ t.op = "hw_error" /\ halted' = "hw_error" /\ UNCHANGED treeVars
  BY DEF clktree_call
<1>3. todo \in Seq(S)
  OBVIOUS
<1> HIDE DEF S
<1>4. t \in S /\ todo' \in Seq(S)
  BY <1>1, <1>3
<1> HIDE DEF t
<1>5. ASSUME NEW c, NEW b, t = Enable(c, b)
      PROVE  set_enabled(c, b)
  <2>1. t.op = "enable" /\ t.on = c /\ t.args[1] = b
    BY <1>5 DEF Enable
  <2> QED
    BY <1>2, <2>1
<1>6. ASSUME NEW c, NEW m, NEW d, t = Scale(c, m, d)
      PROVE  set_scale(c, m, d)
  <2>1. t.op = "scale" /\ t.on = c /\ t.args[1] = m /\ t.args[2] = d
    BY <1>6 DEF Scale
  <2> QED
    BY <1>2, <2>1
<1>7. ASSUME NEW c, NEW i, t = Select(c, i)
      PROVE  set_selected_input(c, i)
  <2>1. t.op = "select" /\ t.on = c /\ t.args[1] = i
    BY <1>7 DEF Select
  <2> QED
    BY <1>2, <2>1
<1>8. ASSUME t = Error
      PROVE  halted' = "hw_error" /\ UNCHANGED treeVars
  <2>1. t.op = "hw_error"
    BY <1>8 DEF Error
  <2> QED
    BY <1>2, <2>1
<1>9. \/ \E c \in Clks \ AlwaysOn, b \in BOOLEAN : t = Enable(c, b)
      \/ \E c \in Scaled : t = Scale(c, mulOf(cfgr, c), divOf(cfgr, c))
      \/ \E c \in Selecting : t = Select(c, inputOf(cfgr, c))
      \/ t = Error
  BY <1>4 DEF S, CallsOf
<1> QED
  BY <1>1, <1>4, <1>5, <1>6, <1>7, <1>8, <1>9, Zenon DEF t, S

(* A step of the controller is a step on the tree, or leaves it alone.     *)
LEMMA RccTreeStep ==
    ASSUME todo \in Seq(CallsOf(cfgr)), cfgr \in CFGR, [Next]_vars
    PROVE  [TreeNext]_treeVars /\ todo' \in Seq(CallsOf(cfgr')) /\ cfgr' \in CFGR
<1>1. CASE UNCHANGED vars
  BY <1>1 DEF vars, treeVars, regVars
<1>2. ASSUME NEW v \in CRWrites, CR_write(v[1], v[2], v[3])
      PROVE  UNCHANGED treeVars /\ todo' \in Seq(CallsOf(cfgr)) /\ cfgr' = cfgr
  <2>1. v[1] \in BOOLEAN /\ v[2] \in BOOLEAN /\ v[3] \in BOOLEAN
    BY WritesTyped
  <2> QED
    BY <1>2, <2>1, CRTyped DEF CR_write, write, regVars, treeVars
<1>3. ASSUME NEW v \in CFGRWrites, CFGR_write(v)
      PROVE  UNCHANGED treeVars /\ todo' \in Seq(CallsOf(cfgr')) /\ cfgr' \in CFGR
  <2>1. v \in CFGR
    BY WritesTyped
  <2> QED
    BY <1>3, <2>1, CFGRTyped DEF CFGR_write, write, treeVars
<1>4. ASSUME NEW value, \/ APB1ENR_write(value) \/ APB2ENR_write(value)
                       \/ APB1RSTR_write(value) \/ APB2RSTR_write(value)
      PROVE  UNCHANGED treeVars /\ todo' \in Seq(CallsOf(cfgr)) /\ cfgr' = cfgr
  BY <1>4, APBTyped DEF APB1ENR_write, APB2ENR_write, APB1RSTR_write,
     APB2RSTR_write, write, regVars, treeVars
<1>5. ASSUME NEW b \in BOOLEAN, BDCR_write(b) \/ CSR_write(b)
      PROVE  UNCHANGED treeVars /\ todo' \in Seq(CallsOf(cfgr)) /\ cfgr' = cfgr
  <2>1. Enable(LSE, b) \in CallsOf(cfgr) /\ Enable(LSI, b) \in CallsOf(cfgr)
    BY CallsTyped, Stoppable, Zenon
  <2>2. /\ <<Enable(LSE, b)>> \in Seq(CallsOf(cfgr))
        /\ <<Enable(LSI, b)>> \in Seq(CallsOf(cfgr))
    BY <2>1, Sequences, Zenon
  <2> QED
    BY <1>5, <2>2, Zenon DEF BDCR_write, CSR_write, write, regVars, treeVars
<1>6. ASSUME NEW v \in BRRWrites, BRR_write(v)
      PROVE  UNCHANGED treeVars /\ todo' \in Seq(CallsOf(cfgr)) /\ cfgr' = cfgr
  BY <1>6 DEF BRR_write, treeVars, regVars
<1>7. ASSUME reset
      PROVE  UNCHANGED treeVars /\ todo' \in Seq(CallsOf(cfgr')) /\ cfgr' \in CFGR
  BY <1>7, ResetTyped DEF reset, treeVars
<1>8. ASSUME clktree_call
      PROVE  /\ TreeNext \/ UNCHANGED treeVars
             /\ todo' \in Seq(CallsOf(cfgr)) /\ cfgr' = cfgr
  <2>1. ASSUME NEW c \in Clks, NEW b \in BOOLEAN, set_enabled(c, b)
        PROVE  TreeNext
    BY <2>1, Zenon DEF TreeNext, TreeStep
  <2>2. ASSUME NEW c \in Scaled, set_scale(c, mulOf(cfgr, c), divOf(cfgr, c))
        PROVE  TreeNext
    <3>1. c \in Clks /\ mulOf(cfgr, c) \in Nat /\ divOf(cfgr, c) \in Nat \ {0}
      BY ArgsTyped, Zenon
    <3> QED
      BY <2>2, <3>1, Zenon DEF TreeNext, TreeStep
  <2>3. ASSUME NEW c \in Selecting, set_selected_input(c, inputOf(cfgr, c))
        PROVE  TreeNext
    <3>1. c \in Clks /\ inputOf(cfgr, c) \in Nat
      BY ArgsTyped, Zenon
    <3> QED
      BY <2>3, <3>1, Zenon DEF TreeNext, TreeStep
  <2> QED
    BY <1>8, <2>1, <2>2, <2>3, CallCases, Zenon
<1>9. ASSUME propagate
      PROVE  TreeNext /\ todo' \in Seq(CallsOf(cfgr)) /\ cfgr' = cfgr
  BY <1>9, ClocksAreClks DEF propagate, TreeNext, TreeStep, regVars
<1> QED
  BY <1>1, <1>2, <1>3, <1>4, <1>5, <1>6, <1>7, <1>8, <1>9, Zenon DEF Next, Software

(* The fixed frequencies are numbers.                                      *)
LEMMA Numbers == HSI_FREQ \in Nat /\ LSI_FREQ \in Nat /\ TICKS_PER_SEC \in Nat
  BY DEF HSI_FREQ, LSI_FREQ, TICKS_PER_SEC

(* Integer division of numbers.                                            *)
LEMMA Quotient ==
    /\ \A x \in Nat, y \in Nat \ {0} : x \div y \in Nat
    /\ \A y \in Nat \ {0} : 0 \div y = 0
<1>1. ASSUME NEW x \in Nat, NEW y \in Nat \ {0}
      PROVE  x \div y \in Nat
  BY <1>1, SMT
<1>2. ASSUME NEW y \in Nat \ {0}
      PROVE  0 \div y = 0
  BY <1>2, SMT
<1> QED
  BY <1>1, <1>2

(* The baud rate is recomputed from the divider and the clock.             *)
LEMMA BaudUpdated ==
    ASSUME NEW f \in Nat, NEW b \in Nat, baud_update(f, b),
           halted \in {"no", "hw_error", "trap"}
    PROVE  /\ bits_per_sec' = IF b = 0 THEN 0 ELSE f \div b
           /\ bits_per_sec' \in Nat /\ halted' \in {"no", "hw_error", "trap"}
<1>1. bits_per_sec' = IF b = 0 THEN 0 ELSE f \div b
  BY Quotient DEF baud_update
<1>2. bits_per_sec' \in Nat
  BY <1>1, Quotient
<1>3. halted' \in {"no", "hw_error", "trap"}
  BY DEF baud_update
<1> QED
  BY <1>1, <1>2, <1>3

(* A step that recomputes clocks tells their users.                        *)
LEMMA UsersTold ==
    ASSUME RccInv, TreeInv', notify_users, brr' = brr
    PROVE  /\ UsersFollowClocks' /\ system_clock_scale' \in Nat
           /\ bits_per_sec' \in Nat /\ halted' \in {"no", "hw_error", "trap"}
<1> DEFINE changed == {c \in {HCLK, UART2} : clk'[c].output_freq # clk[c].output_freq}
<1>1. /\ clk[HCLK].output_freq \in Nat /\ clk'[HCLK].output_freq \in Nat
      /\ clk[UART2].output_freq \in Nat /\ clk'[UART2].output_freq \in Nat
  BY ClocksAreClks, Zenon DEF RccInv, TreeInv, TreeTypeOK, Clk
<1>2. /\ HCLK \in changed <=> clk'[HCLK].output_freq # clk[HCLK].output_freq
      /\ UART2 \in changed <=> clk'[UART2].output_freq # clk[UART2].output_freq
  OBVIOUS
<1>3. hclk_upd_irq_handler(changed) /\ clk_irq_handler(changed)
  BY DEF notify_users
<1> HIDE DEF changed
<1>4. /\ clk'[HCLK].output_freq > 0 =>
           system_clock_scale' = TICKS_PER_SEC \div clk'[HCLK].output_freq
      /\ system_clock_scale' \in Nat
  <2>1. CASE HCLK \in changed /\ clk'[HCLK].output_freq > 0
    <3>1. system_clock_scale' = TICKS_PER_SEC \div clk'[HCLK].output_freq
      BY <2>1, <1>3 DEF hclk_upd_irq_handler
    <3>2. clk'[HCLK].output_freq \in Nat \ {0}
      BY <2>1, <1>1
    <3> QED
      BY <3>1, <3>2, Numbers, Quotient
  <2>2. CASE ~(HCLK \in changed /\ clk'[HCLK].output_freq > 0)
    <3>1. system_clock_scale' = system_clock_scale
      BY <2>2, <1>3 DEF hclk_upd_irq_handler
    <3> QED
      BY <2>2, <3>1, <1>2 DEF RccInv, UserTypes, UsersFollowClocks
  <2> QED
    BY <2>1, <2>2
<1>5. /\ bits_per_sec' = IF brr = 0 THEN 0 ELSE clk'[UART2].output_freq \div brr
      /\ bits_per_sec' \in Nat /\ halted' \in {"no", "hw_error", "trap"}
  <2>1. CASE UART2 \in changed
    BY <2>1, <1>1, <1>3, BaudUpdated DEF clk_irq_handler, RccInv, UserTypes
  <2>2. CASE UART2 \notin changed
    BY <2>2, <1>2, <1>3 DEF clk_irq_handler, RccInv, UserTypes, UsersFollowClocks
  <2> QED
    BY <2>1, <2>2
<1> QED
  BY <1>4, <1>5, Zenon DEF UsersFollowClocks

(* The invariant holds when the tree has been created.                     *)
LEMMA RccInvInit == Init => RccInv
<1> SUFFICES ASSUME Init
             PROVE  RccInv
  OBVIOUS
<1>1. \A c \in Clks : created(c) \in Clk
  BY Numbers, RccAssumption DEF created, Clk, NO_INPUT
<1> USE DEF HSI, LSI, HSE, LSE, HSI_DIV2, HSE_DIV2, PLLXTPRE, PLLCLK, SYSCLK,
            HCLK, PCLK1, PCLK2
<1>2. ASSUME NEW c \in Clks
      PROVE  /\ created(c).output_freq = 0 /\ freq(created(c)) = 0
             /\ created(c).selected_input # NO_INPUT =>
                  created(c).input_freq = 0 /\ created(c).selected_input = 0
                  /\ c \notin {HSI, LSI, HSE, LSE}
  <2> DEFINE r == created(c)
  <2>1. r.output_freq = 0 /\ r.multiplier \in Nat /\ r.divisor \in Nat \ {0}
    BY DEF created
  <2>2. /\ r.enabled = (c \in {HSI_DIV2, HSE_DIV2, PLLXTPRE} \cup SYSCLK..PCLK2)
        /\ c \notin {HSI, LSI, HSE, LSE} => r.input_freq = 0
    BY DEF created
  <2>3. r.enabled => c \notin {HSI, LSI, HSE, LSE}
    <3>1. c \in {HSI_DIV2, HSE_DIV2, PLLXTPRE} \cup SYSCLK..PCLK2
            => c \notin {HSI, LSI, HSE, LSE}
      BY ClocksAreClks
    <3> QED
      BY <3>1, <2>2, Zenon
  <2>4. r.selected_input # NO_INPUT => r.selected_input = 0 /\ c \notin {HSI, LSI, HSE, LSE}
    BY DEF created
  <2> HIDE DEF r
  <2>5. freq(r) = 0
    <3>1. CASE r.enabled
      <4>1. r.input_freq * r.multiplier = 0
        BY <2>1, <2>2, <2>3, <3>1
      <4> QED
        BY <3>1, <4>1, <2>1, Quotient DEF freq
    <3>2. CASE ~r.enabled
      BY <3>2 DEF freq
    <3> QED
      BY <3>1, <3>2
  <2> QED
    BY <2>1, <2>2, <2>4, <2>5 DEF r
<1>3. clk = [c \in Clks |-> created(c)] /\ calls = <<>>
  BY DEF Init
<1>4. TreeTypeOK
  <2>1. \A c \in Clks : c \notin {HSI, LSI, HSE, LSE} => Len(input[c]) > 0
    <3>1. \A c \in Clks : input[c] = init_input[c]
      BY RccTree
    <3>2. \A c \in Clks : c \notin {HSI, LSI, HSE, LSE} => Len(init_input[c]) > 0
      BY ClocksAreClks DEF init_input, Clocks
    <3> QED
      BY <3>1, <3>2
  <2>2. \A c \in Clks : Len(input[c]) \in Nat
    BY ClktreeAssumption
  <2>3. \A c \in Clks : clk[c].selected_input < Len(input[c])
    BY <2>1, <2>2, <1>2, <1>3 DEF NO_INPUT
  <2>4. calls \in Seq([to : Clks, from : Clks, freq : Nat])
    BY <1>3
  <2> QED
    BY <1>1, <1>3, <2>3, <2>4 DEF TreeTypeOK
<1>5. \A c \in Clks : clk[c].output_freq = freq(clk[c])
  BY <1>2, <1>3
<1>6. \A c \in Clks : clk[c].selected_input # NO_INPUT =>
        clk[c].input_freq = clk[get_input_clk(c)].output_freq
  BY <1>2, <1>3, <1>4, InputBefore
<1>7. TreeInv
  <2>1. 1..Len(calls) = {}
    BY <1>3
  <2> QED
    BY <2>1, <1>4, <1>5, <1>6 DEF TreeInv
<1>8. todo \in Seq(CallsOf(cfgr)) /\ cfgr \in CFGR
  BY ResetTyped DEF Init
<1>9. UserTypes
  BY DEF Init, UserTypes
<1>10. clk[HCLK].output_freq = 0 /\ brr = 0 /\ bits_per_sec = 0
  BY <1>2, <1>3, ClocksAreClks DEF Init
<1>11. UsersFollowClocks
  BY <1>10 DEF UsersFollowClocks
<1> QED
  BY <1>7, <1>8, <1>9, <1>11, Zenon DEF RccInv

(* Every write, call and propagation step keeps it.                        *)
LEMMA RccInvStep == RccInv /\ [Next]_vars => RccInv'
<1> SUFFICES ASSUME RccInv, [Next]_vars
             PROVE  RccInv'
  OBVIOUS
<1>1. TreeInv' /\ todo' \in Seq(CallsOf(cfgr')) /\ cfgr' \in CFGR
  BY RccTreeStep, TreeInvStep DEF RccInv
<1> SUFFICES UserTypes' /\ UsersFollowClocks'
  BY <1>1 DEF RccInv
<1> USE DEF RccInv
<1>2. CASE UNCHANGED vars
  BY <1>2 DEF vars, treeVars, regVars, UserTypes, UsersFollowClocks
<1>3. ASSUME NEW ops, write(ops)
      PROVE  UNCHANGED <<clk, system_clock_scale, bits_per_sec, halted, brr>>
  BY <1>3 DEF write, treeVars, userVars
<1>4. ASSUME UNCHANGED <<clk, system_clock_scale, bits_per_sec, halted, brr>>,
             APB1ENR' \subseteq APB1Writes, APB2ENR' \subseteq APB2Writes
      PROVE  UserTypes' /\ UsersFollowClocks'
  BY <1>4 DEF UserTypes, UsersFollowClocks
<1>5. ASSUME NEW v, CR_write(v[1], v[2], v[3]) \/ CFGR_write(v)
      PROVE  UserTypes' /\ UsersFollowClocks'
  BY <1>3, <1>4, <1>5 DEF CR_write, CFGR_write, regVars, UserTypes
<1>6. ASSUME NEW p \in APB1Writes, \/ APB1ENR_write(APB1ENR \cup {p})
                                  \/ APB1ENR_write(APB1ENR \ {p})
                                  \/ APB1RSTR_write({p})
      PROVE  UserTypes' /\ UsersFollowClocks'
  BY <1>3, <1>4, <1>6 DEF APB1ENR_write, APB1RSTR_write, regVars, UserTypes
<1>7. ASSUME NEW p \in APB2Writes, \/ APB2ENR_write(APB2ENR \cup {p})
                                  \/ APB2ENR_write(APB2ENR \ {p})
                                  \/ APB2RSTR_write({p})
      PROVE  UserTypes' /\ UsersFollowClocks'
  BY <1>3, <1>4, <1>7 DEF APB2ENR_write, APB2RSTR_write, regVars, UserTypes
<1>8. ASSUME NEW b \in BOOLEAN, BDCR_write(b) \/ CSR_write(b)
      PROVE  UserTypes' /\ UsersFollowClocks'
  BY <1>3, <1>4, <1>8 DEF BDCR_write, CSR_write, regVars, UserTypes
<1>9. ASSUME NEW v \in BRRWrites, BRR_write(v)
      PROVE  UserTypes' /\ UsersFollowClocks'
  <2>1. v \in Nat /\ clk[UART2].output_freq \in Nat
    BY WritesTyped, ClocksAreClks, Zenon DEF TreeInv, TreeTypeOK, Clk
  <2>2. /\ clk' = clk /\ system_clock_scale' = system_clock_scale
        /\ APB1ENR' = APB1ENR /\ APB2ENR' = APB2ENR /\ brr' = v
        /\ baud_update(clk[UART2].output_freq, v)
    BY <1>9 DEF BRR_write, treeVars, regVars
  <2>3. /\ bits_per_sec' = IF v = 0 THEN 0 ELSE clk[UART2].output_freq \div v
        /\ bits_per_sec' \in Nat /\ halted' \in {"no", "hw_error", "trap"}
    BY <2>1, <2>2, BaudUpdated DEF UserTypes
  <2> QED
    BY <2>1, <2>2, <2>3, Zenon DEF UserTypes, UsersFollowClocks
<1>10. CASE reset
  BY <1>10 DEF reset, treeVars, UserTypes, UsersFollowClocks
<1>11. ASSUME notify_users, UNCHANGED <<regVars, brr>>
       PROVE  UserTypes' /\ UsersFollowClocks'
  BY <1>1, <1>11, UsersTold DEF regVars, UserTypes
<1>12. CASE clktree_call
  <2>1. CASE notify_users
    BY <1>11, <1>12, <2>1 DEF clktree_call
  <2>2. CASE ~notify_users
    BY <1>12, <2>2 DEF clktree_call, treeVars, regVars, UserTypes, UsersFollowClocks
  <2> QED
    BY <2>1, <2>2
<1>13. CASE propagate
  BY <1>11, <1>13 DEF propagate
<1> QED
  BY <1>2, <1>5, <1>6, <1>7, <1>8, <1>9, <1>10, <1>12, <1>13, Zenon DEF Next, Software

(* Under any sequence of register writes the clock tree is consistent      *)
(* whenever a write has been handled (stm32_clktree.c:100-151).            *)
THEOREM RccTreeConsistent == Spec => []TreeConsistent
<1>1. RccInv => TreeConsistent
  BY InvConsistent DEF RccInv
<1> QED
  BY <1>1, RccInvInit, RccInvStep, PTL DEF Spec

(* The SysTick scale and the baud rate are those of their clocks in every  *)
(* state, also while a change is being passed on.                          *)
THEOREM RccUsersFollowClocks == Spec => []UsersFollowClocks
<1>1. RccInv => UsersFollowClocks
  BY DEF RccInv
<1> QED
  BY <1>1, RccInvInit, RccInvStep, PTL DEF Spec

(* The variables of the clock controller and its tree keep their types.    *)
THEOREM RccTypeCorrect == Spec => []TypeOK
<1>1. RccInv => TypeOK
  BY DEF RccInv, TreeInv, UserTypes, TypeOK
<1> QED
  BY <1>1, RccInvInit, RccInvStep, PTL DEF Spec
-----------------------------------------------------------------------------
(* The clocks follow the registers                                         *)

contains(s, t) == \E i \in 1..Len(s) : s[i] = t

(* A clock is as CFGR calls for, or the call that makes it so is left.     *)
ScaleFollows(c) ==
    \/ clk[c].multiplier = mulOf(cfgr, c) /\ clk[c].divisor = divOf(cfgr, c)
    \/ contains(todo, Scale(c, mulOf(cfgr, c), divOf(cfgr, c)))

InputFollows(c) ==
    \/ clk[c].selected_input = inputOf(cfgr, c)
    \/ contains(todo, Select(c, inputOf(cfgr, c)))
    \/ c = SYSCLK /\ contains(todo, Error)

(* An oscillator keeps its frequency; what no register stops runs.         *)
ClockKept(c) ==
    /\ clk[c].selected_input = NO_INPUT => clk[c].input_freq = created(c).input_freq
    /\ c \in AlwaysOn => clk[c].enabled

RegInv ==
    /\ halted = "no" => \A c \in Clks : ScaleFollows(c) /\ InputFollows(c)
    /\ \A c \in Clks : ClockKept(c)

(* A call is the next one or among the others.                             *)
LEMMA ContainsTail ==
    ASSUME NEW S, NEW s \in Seq(S), s # <<>>, NEW t, contains(s, t)
    PROVE  t = Head(s) \/ contains(Tail(s), t)
<1>1. PICK i \in 1..Len(s) : s[i] = t
  BY DEF contains
<1>2. CASE i = 1
  BY <1>1, <1>2
<1>3. CASE i # 1
  <2>1. i - 1 \in 1..Len(Tail(s)) /\ Tail(s)[i - 1] = s[i]
    BY <1>3
  <2> QED
    BY <1>1, <2>1 DEF contains
<1> QED
  BY <1>2, <1>3

(* A concatenation contains the calls of both parts.                       *)
LEMMA ContainsCat ==
    ASSUME NEW S, NEW s \in Seq(S), NEW u \in Seq(S), NEW t,
           contains(s, t) \/ contains(u, t)
    PROVE  contains(s \o u, t)
<1>1. CASE contains(s, t)
  <2>1. PICK i \in 1..Len(s) : s[i] = t
    BY <1>1 DEF contains
  <2>2. i \in 1..Len(s \o u) /\ (s \o u)[i] = t
    BY <2>1
  <2> QED
    BY <2>2 DEF contains
<1>2. CASE contains(u, t)
  <2>1. PICK i \in 1..Len(u) : u[i] = t
    BY <1>2 DEF contains
  <2>2. Len(s) + i \in 1..Len(s \o u) /\ (s \o u)[Len(s) + i] = t
    BY <2>1
  <2> QED
    BY <2>2 DEF contains
<1> QED
  BY <1>1, <1>2

(* A write of CFGR makes the calls that its value calls for.               *)
LEMMA CFGRContains ==
    ASSUME NEW v \in CFGR
    PROVE  /\ \A c \in Scaled :
                contains(CFGR_calls(v), Scale(c, mulOf(v, c), divOf(v, c)))
           /\ \A c \in Selecting :
                \/ contains(CFGR_calls(v), Select(c, inputOf(v, c)))
                \/ c = SYSCLK /\ contains(CFGR_calls(v), Error)
<1> DEFINE s == CFGR_calls(v)
<1>1. /\ Len(s) = 7 /\ s[1] = Scale(PLLCLK, pllmul(v.PLLMUL), 1)
      /\ s[2] = Select(PLLXTPRE, v.PLLXTPRE) /\ s[3] = Select(PLLCLK, v.PLLSRC)
      /\ s[4] = Scale(PCLK2, 1, ppre(v.PPRE2)) /\ s[5] = Scale(PCLK1, 1, ppre(v.PPRE1))
      /\ s[6] = Scale(HCLK, 1, hpre(v.HPRE))
      /\ s[7] = IF v.SW = 3 THEN Error ELSE Select(SYSCLK, v.SW)
  BY DEF CFGR_calls
<1> HIDE DEF s
<1>2. \A i \in 1..7 : contains(s, s[i])
  BY <1>1 DEF contains
<1>3. /\ 1 \in 1..7 /\ 2 \in 1..7 /\ 3 \in 1..7 /\ 4 \in 1..7 /\ 5 \in 1..7
      /\ 6 \in 1..7 /\ 7 \in 1..7
  OBVIOUS
<1>4. /\ contains(s, Scale(PLLCLK, mulOf(v, PLLCLK), divOf(v, PLLCLK)))
      /\ contains(s, Scale(PCLK2, mulOf(v, PCLK2), divOf(v, PCLK2)))
      /\ contains(s, Scale(PCLK1, mulOf(v, PCLK1), divOf(v, PCLK1)))
      /\ contains(s, Scale(HCLK, mulOf(v, HCLK), divOf(v, HCLK)))
  BY <1>1, <1>2, <1>3, CFGRCalls, Zenon
<1>5. /\ contains(s, Select(PLLXTPRE, inputOf(v, PLLXTPRE)))
      /\ contains(s, Select(PLLCLK, inputOf(v, PLLCLK)))
      /\ contains(s, Select(SYSCLK, inputOf(v, SYSCLK))) \/ contains(s, Error)
  BY <1>1, <1>2, <1>3, CFGRCalls, Zenon
<1>6. \A c \in Scaled : contains(s, Scale(c, mulOf(v, c), divOf(v, c)))
  BY <1>4, Zenon DEF Scaled
<1>7. \A c \in Selecting : \/ contains(s, Select(c, inputOf(v, c)))
                           \/ c = SYSCLK /\ contains(s, Error)
  BY <1>5, Zenon DEF Selecting
<1> QED
  BY <1>6, <1>7, Zenon DEF s

(* So does a reset.                                                        *)
LEMMA ResetContains ==
    ASSUME NEW t, contains(CFGR_calls(CFGR_reset), t)
    PROVE  contains(reset_calls, t)
<1> DEFINE S == CallsOf(CFGR_reset)
           c1 == CR_calls(FALSE, FALSE, TRUE)
           c2 == CFGR_calls(CFGR_reset)
           c3 == APB2_calls({})
           c4 == APB1_calls({})
           c5 == <<Enable(LSE, FALSE), Enable(LSI, FALSE)>>
<1>1. c1 \in Seq(S) /\ c2 \in Seq(S) /\ c3 \in Seq(S) /\ c4 \in Seq(S)
  BY ResetTyped, CRTyped, CFGRTyped, APBTyped, Zenon
<1>2. c5 \in Seq(S)
  <2>1. Enable(LSE, FALSE) \in S /\ Enable(LSI, FALSE) \in S
    BY CallsTyped, Stoppable, Zenon
  <2> QED
    BY <2>1, Sequences, ResetTyped, Zenon
<1>3. Error \in S /\ reset_calls = c1 \o c2 \o c3 \o c4 \o c5
  BY CallsTyped DEF reset_calls
<1>4. contains(c2, t)
  OBVIOUS
<1> HIDE DEF S, c1, c2, c3, c4, c5
<1>5. c1 \o c2 \in Seq(S) /\ contains(c1 \o c2, t)
  BY <1>1, <1>3, <1>4, ContainsCat, Sequences, Zenon
<1>6. c1 \o c2 \o c3 \in Seq(S) /\ contains(c1 \o c2 \o c3, t)
  BY <1>1, <1>3, <1>5, ContainsCat, Sequences, Zenon
<1>7. c1 \o c2 \o c3 \o c4 \in Seq(S) /\ contains(c1 \o c2 \o c3 \o c4, t)
  BY <1>1, <1>3, <1>6, ContainsCat, Sequences, Zenon
<1> QED
  BY <1>2, <1>3, <1>7, ContainsCat, Zenon

(* CFGR scales and selects no other clocks.                                *)
LEMMA OthersKept ==
    ASSUME NEW v, NEW w, NEW c \in Clks
    PROVE  /\ c \notin Scaled => mulOf(v, c) = mulOf(w, c) /\ divOf(v, c) = divOf(w, c)
           /\ c \notin Selecting => inputOf(v, c) = inputOf(w, c)
<1>1. c \notin Scaled => mulOf(v, c) = mulOf(w, c) /\ divOf(v, c) = divOf(w, c)
  BY DEF Scaled, mulOf, divOf
<1>2. c \notin Selecting => inputOf(v, c) = inputOf(w, c)
  BY DEF Selecting, inputOf
<1> QED
  BY <1>1, <1>2
(* What each operation of the tree leaves alone: recalculating a clock,    *)
LEMMA RecalcFields ==
    ASSUME TreeTypeOK, NEW c \in Clks, NEW r \in Clk, NEW rest, recalc(c, r, rest)
    PROVE  /\ \A k \in Clks \ {c} : clk'[k] = clk[k]
           /\ clk'[c].enabled = r.enabled /\ clk'[c].multiplier = r.multiplier
           /\ clk'[c].divisor = r.divisor /\ clk'[c].input_freq = r.input_freq
           /\ clk'[c].selected_input = r.selected_input
<1>1. clk' = [clk EXCEPT ![c] = [r EXCEPT !.output_freq = freq(r)]]
  BY DEF recalc
<1>2. /\ clk'[c] = [r EXCEPT !.output_freq = freq(r)]
      /\ \A k \in Clks \ {c} : clk'[k] = clk[k]
  BY <1>1 DEF TreeTypeOK
<1> QED
  BY <1>2 DEF Clk

SameInput(k) == /\ clk'[k].input_freq = clk[k].input_freq
                /\ clk'[k].selected_input = clk[k].selected_input

SameScale(k) == /\ clk'[k].multiplier = clk[k].multiplier
                /\ clk'[k].divisor = clk[k].divisor

(* enabling one,                                                           *)
LEMMA EnableFields ==
    ASSUME TreeTypeOK, NEW c \in Clks, NEW b \in BOOLEAN, set_enabled(c, b)
    PROVE  \A k \in Clks : /\ SameInput(k) /\ SameScale(k)
                           /\ k # c => clk'[k].enabled = clk[k].enabled
<1> DEFINE r == [clk[c] EXCEPT !.enabled = b]
<1>1. /\ r \in Clk /\ r.input_freq = clk[c].input_freq
      /\ r.selected_input = clk[c].selected_input
      /\ r.multiplier = clk[c].multiplier /\ r.divisor = clk[c].divisor
  BY Zenon DEF TreeTypeOK, Clk
<1>2. recalc(c, r, <<>>)
  BY DEF set_enabled
<1> HIDE DEF r
<1> QED
  BY <1>1, <1>2, RecalcFields DEF SameInput, SameScale

(* scaling one,                                                            *)
LEMMA ScaleFields ==
    ASSUME TreeTypeOK, NEW c \in Clks, NEW m \in Nat, NEW d \in Nat \ {0},
           set_scale(c, m, d)
    PROVE  /\ \A k \in Clks : /\ SameInput(k) /\ clk'[k].enabled = clk[k].enabled
                              /\ k # c => SameScale(k)
           /\ clk'[c].multiplier = m /\ clk'[c].divisor = d
<1> DEFINE r == [clk[c] EXCEPT !.multiplier = m, !.divisor = d]
<1>1. /\ r \in Clk /\ r.input_freq = clk[c].input_freq
      /\ r.selected_input = clk[c].selected_input /\ r.enabled = clk[c].enabled
      /\ r.multiplier = m /\ r.divisor = d
  BY Zenon DEF TreeTypeOK, Clk
<1>2. recalc(c, r, <<>>)
  BY DEF set_scale
<1> HIDE DEF r
<1> QED
  BY <1>1, <1>2, RecalcFields DEF SameInput, SameScale

(* selecting an input,                                                     *)
LEMMA SelectFields ==
    ASSUME TreeTypeOK, NEW c \in Clks, NEW i \in Nat, set_selected_input(c, i)
    PROVE  /\ \A k \in Clks : /\ SameScale(k) /\ clk'[k].enabled = clk[k].enabled
                              /\ k # c => SameInput(k)
           /\ clk'[c].selected_input = i /\ i + 1 \in 1..Len(input[c])
           /\ clk'[c].input_freq = clk[input[c][i + 1]].output_freq
<1> DEFINE p == input[c][i + 1]
           r == [clk[c] EXCEPT !.selected_input = i, !.input_freq = clk[p].output_freq]
<1>1. i + 1 \in 1..Len(input[c]) /\ p \in Clks
  BY ClktreeAssumption DEF set_selected_input
<1>2. clk[p].output_freq \in Nat
  BY <1>1 DEF TreeTypeOK, Clk
<1>3. recalc(c, r, <<>>)
  BY DEF set_selected_input
<1> HIDE DEF p
<1>4. /\ r \in Clk /\ r.input_freq = clk[p].output_freq
      /\ r.selected_input = i /\ r.enabled = clk[c].enabled
      /\ r.multiplier = clk[c].multiplier /\ r.divisor = clk[c].divisor
  BY <1>2, Zenon DEF TreeTypeOK, Clk
<1> HIDE DEF r
<1>5. /\ \A k \in Clks : /\ SameScale(k) /\ clk'[k].enabled = clk[k].enabled
                         /\ k # c => SameInput(k)
      /\ clk'[c].selected_input = i /\ clk'[c].input_freq = clk[p].output_freq
  BY <1>3, <1>4, RecalcFields DEF SameInput, SameScale
<1> QED
  BY <1>1, <1>5 DEF p

(* and telling a clock the frequency of the one it selected.               *)
LEMMA PropagateFields ==
    ASSUME TreeInv, set_input_freq
    PROVE  \A k \in Clks :
             /\ SameScale(k) /\ clk'[k].enabled = clk[k].enabled
             /\ clk'[k].selected_input = clk[k].selected_input
             /\ \/ clk'[k].input_freq = clk[k].input_freq
                \/ /\ clk[k].selected_input # NO_INPUT
                   /\ clk'[k].input_freq = clk[get_input_clk(k)].output_freq
<1> DEFINE k0 == Head(calls)
           c == k0.to
           r == [clk[c] EXCEPT !.input_freq = k0.freq]
<1>1. calls # <<>> /\ calls \in Seq(Call)
  BY DEF set_input_freq, TreeInv, TreeTypeOK, Call
<1>2. k0 \in Call /\ 1 \in 1..Len(calls) /\ k0 = calls[1]
  BY <1>1
<1>3. k0.freq = clk[k0.from].output_freq
  BY <1>2 DEF TreeInv
<1>4. \/ get_input_clk(c) = k0.from /\ recalc(c, r, Tail(calls))
      \/ UNCHANGED clk
  BY DEF set_input_freq
<1>5. c \in Clks /\ k0.from \in Clks /\ k0.freq \in Nat
  BY <1>2 DEF Call
<1> HIDE DEF k0, c
<1>6. CASE UNCHANGED clk
  BY <1>6 DEF SameScale
<1>7. CASE get_input_clk(c) = k0.from /\ recalc(c, r, Tail(calls))
  <2>1. /\ r \in Clk /\ r.input_freq = k0.freq
        /\ r.selected_input = clk[c].selected_input /\ r.enabled = clk[c].enabled
        /\ r.multiplier = clk[c].multiplier /\ r.divisor = clk[c].divisor
    BY <1>5, Zenon DEF TreeInv, TreeTypeOK, Clk
  <2> HIDE DEF r
  <2>2. clk[c].selected_input # NO_INPUT
    <3>1. 0 \notin Clks
      BY DEF Clks
    <3> QED
      BY <1>5, <1>7, <3>1 DEF get_input_clk
  <2>3. TreeTypeOK
    BY DEF TreeInv
  <2>4. /\ \A k \in Clks \ {c} : clk'[k] = clk[k]
        /\ clk'[c].enabled = clk[c].enabled /\ SameScale(c)
        /\ clk'[c].selected_input = clk[c].selected_input
        /\ clk'[c].input_freq = clk[get_input_clk(c)].output_freq
    BY <1>3, <1>5, <1>7, <2>1, <2>3, RecalcFields DEF SameScale
  <2> QED
    BY <2>2, <2>4, Zenon DEF SameScale
<1> QED
  BY <1>4, <1>6, <1>7

(* The invariant holds when the tree has been created: the reset to come  *)
(* scales and selects.                                                     *)
LEMMA RegInvInit == Init => RegInv
<1> SUFFICES ASSUME Init
             PROVE  RegInv
  OBVIOUS
<1>1. /\ clk = [c \in Clks |-> created(c)] /\ todo = reset_calls /\ cfgr = CFGR_reset
  BY DEF Init
<1>2. ASSUME NEW c \in Clks
      PROVE  /\ c \notin Scaled => /\ created(c).multiplier = mulOf(cfgr, c)
                                   /\ created(c).divisor = divOf(cfgr, c)
             /\ c \notin Selecting => created(c).selected_input = inputOf(cfgr, c)
             /\ c \in AlwaysOn => created(c).enabled
  <2>1. c \notin Scaled => created(c).multiplier = mulOf(cfgr, c)
    BY DEF created, Scaled, mulOf
  <2>2. c \notin Scaled => created(c).divisor = divOf(cfgr, c)
    BY DEF created, Scaled, divOf
  <2>3. c \notin Selecting => created(c).selected_input = inputOf(cfgr, c)
    BY DEF created, Selecting, inputOf
  <2>4. c \in AlwaysOn => c \in {HSI_DIV2, HSE_DIV2, PLLXTPRE} \cup SYSCLK..PCLK2
    BY DEF AlwaysOn, SYSCLK, HCLK, PCLK1, PCLK2
  <2>5. c \in AlwaysOn => created(c).enabled
    BY <2>4, Zenon DEF created
  <2> QED
    BY <2>1, <2>2, <2>3, <2>5, Zenon
<1>3. \A c \in Clks : ClockKept(c)
  BY <1>1, <1>2 DEF ClockKept
<1>4. ASSUME NEW c \in Clks
      PROVE  ScaleFollows(c)
  <2>1. CASE c \in Scaled
    BY <1>1, <2>1, ResetTyped, CFGRContains, ResetContains, Zenon DEF ScaleFollows
  <2>2. CASE c \notin Scaled
    BY <1>1, <1>2, <2>2 DEF ScaleFollows
  <2> QED
    BY <2>1, <2>2
<1>5. ASSUME NEW c \in Clks
      PROVE  InputFollows(c)
  <2>1. CASE c \in Selecting
    BY <1>1, <2>1, ResetTyped, CFGRContains, ResetContains, Zenon DEF InputFollows
  <2>2. CASE c \notin Selecting
    BY <1>1, <1>2, <2>2 DEF InputFollows
  <2> QED
    BY <2>1, <2>2
<1> QED
  BY <1>3, <1>4, <1>5 DEF RegInv

(* A register that has been written calls for what the write will do.      *)
LEMMA WriteFollows ==
    ASSUME RegInv, halted = "no", todo = <<>>, UNCHANGED clk,
           \/ cfgr' = cfgr
           \/ /\ cfgr' \in CFGR
              /\ \A t : contains(CFGR_calls(cfgr'), t) => contains(todo', t)
    PROVE  RegInv'
<1>1. \A t : ~contains(todo, t)
  BY DEF contains
<1>2. ASSUME NEW c \in Clks
      PROVE  /\ clk[c].multiplier = mulOf(cfgr, c) /\ clk[c].divisor = divOf(cfgr, c)
             /\ clk[c].selected_input = inputOf(cfgr, c) /\ ClockKept(c)
  BY <1>1, Zenon DEF RegInv, ScaleFollows, InputFollows
<1>3. \A c \in Clks : ClockKept(c)'
  BY <1>2, Zenon DEF ClockKept
<1>4. CASE cfgr' = cfgr
  BY <1>2, <1>3, <1>4, Zenon DEF RegInv, ScaleFollows, InputFollows
<1>5. CASE /\ cfgr' \in CFGR
           /\ \A t : contains(CFGR_calls(cfgr'), t) => contains(todo', t)
  <2>1. ASSUME NEW c \in Clks
        PROVE  ScaleFollows(c)'
    <3>1. CASE c \in Scaled
      BY <1>5, <3>1, CFGRContains, Zenon DEF ScaleFollows
    <3>2. CASE c \notin Scaled
      BY <1>2, <3>2, OthersKept DEF ScaleFollows
    <3> QED
      BY <3>1, <3>2
  <2>2. ASSUME NEW c \in Clks
        PROVE  InputFollows(c)'
    <3>1. CASE c \in Selecting
      BY <1>5, <3>1, CFGRContains, Zenon DEF InputFollows
    <3>2. CASE c \notin Selecting
      BY <1>2, <3>2, OthersKept DEF InputFollows
    <3> QED
      BY <3>1, <3>2
  <2> QED
    BY <1>3, <2>1, <2>2, Zenon DEF RegInv
<1> QED
  BY <1>4, <1>5
(* Calls of two kinds, or on two clocks, differ.                           *)
LEMMA CallsDiffer ==
    ASSUME NEW c, NEW m, NEW d, NEW k, NEW i, NEW j, NEW b
    PROVE  /\ Scale(c, m, d) # Enable(k, b) /\ Scale(c, m, d) # Select(k, i)
           /\ Scale(c, m, d) # Error
           /\ Select(c, i) # Enable(k, b) /\ Select(c, i) # Error
           /\ Error # Enable(k, b)
<1>1. /\ Scale(c, m, d).op = "scale" /\ Enable(k, b).op = "enable"
      /\ Select(k, i).op = "select" /\ Select(c, i).op = "select"
      /\ Error.op = "hw_error"
  BY DEF Scale, Select, Enable, Error
<1> QED
  BY <1>1

(* Two calls of one kind that are equal are on the same clock.             *)
LEMMA SameKind ==
    ASSUME NEW c, NEW k
    PROVE  /\ \A m, d, n, e : Scale(c, m, d) = Scale(k, n, e) => c = k
           /\ \A i, j : Select(c, i) = Select(k, j) => c = k
<1>1. \A m, d : Scale(c, m, d).on = c /\ Scale(k, m, d).on = k
  BY DEF Scale
<1>2. \A i : Select(c, i).on = c /\ Select(k, i).on = k
  BY DEF Select
<1> QED
  BY <1>1, <1>2, Zenon

(* The next call brings its clock to what CFGR calls for, and no other     *)
(* away from it.                                                           *)
LEMMA CallFollows ==
    ASSUME RccInv, RegInv, halted = "no", clktree_call
    PROVE  RegInv'
<1> DEFINE t == Head(todo)
<1>0. TreeTypeOK /\ cfgr \in CFGR /\ todo \in Seq(CallsOf(cfgr))
  BY DEF RccInv, TreeInv
<1>1. cfgr' = cfgr
  BY <1>0, CallCases, Zenon
<1>2. \A x : contains(todo, x) => x = t \/ contains(todo', x)
  BY <1>0, CallCases, ContainsTail, Zenon
<1>3. \A c \in Clks : ScaleFollows(c) /\ InputFollows(c) /\ ClockKept(c)
  BY DEF RegInv
<1> HIDE DEF t
<1>4. ASSUME NEW k \in Clks, SameScale(k),
             t # Scale(k, mulOf(cfgr, k), divOf(cfgr, k))
      PROVE  ScaleFollows(k)'
  BY <1>1, <1>2, <1>3, <1>4, Zenon DEF ScaleFollows, SameScale
<1>5. ASSUME NEW k \in Clks, clk'[k].selected_input = clk[k].selected_input,
             t # Select(k, inputOf(cfgr, k)), t # Error
      PROVE  InputFollows(k)'
  BY <1>1, <1>2, <1>3, <1>5, Zenon DEF InputFollows
<1>6. ASSUME NEW k \in Clks, SameInput(k), clk'[k].enabled = clk[k].enabled
      PROVE  ClockKept(k)'
  BY <1>3, <1>6, Zenon DEF ClockKept, SameInput
<1>7. ASSUME NEW c \in Clks \ AlwaysOn, NEW b \in BOOLEAN, t = Enable(c, b),
             set_enabled(c, b)
      PROVE  RegInv'
  <2> SUFFICES ASSUME NEW k \in Clks
               PROVE  (ScaleFollows(k) /\ InputFollows(k) /\ ClockKept(k))'
    BY DEF RegInv
  <2>1. SameInput(k) /\ SameScale(k) /\ (k # c => clk'[k].enabled = clk[k].enabled)
    BY <1>0, <1>7, EnableFields
  <2>2. /\ t # Scale(k, mulOf(cfgr, k), divOf(cfgr, k))
        /\ t # Select(k, inputOf(cfgr, k)) /\ t # Error
    BY <1>7, CallsDiffer, Zenon
  <2>3. ScaleFollows(k)' /\ InputFollows(k)'
    BY <1>4, <1>5, <2>1, <2>2, Zenon DEF SameInput
  <2>4. ClockKept(k)'
    BY <1>3, <1>6, <1>7, <2>1, Zenon DEF ClockKept, SameInput
  <2> QED
    BY <2>3, <2>4
<1>8. ASSUME NEW c \in Scaled, t = Scale(c, mulOf(cfgr, c), divOf(cfgr, c)),
             set_scale(c, mulOf(cfgr, c), divOf(cfgr, c))
      PROVE  RegInv'
  <2> SUFFICES ASSUME NEW k \in Clks
               PROVE  (ScaleFollows(k) /\ InputFollows(k) /\ ClockKept(k))'
    BY DEF RegInv
  <2>0. c \in Clks /\ mulOf(cfgr, c) \in Nat /\ divOf(cfgr, c) \in Nat \ {0}
    BY <1>0, ArgsTyped, Zenon
  <2>1. /\ SameInput(k) /\ clk'[k].enabled = clk[k].enabled /\ (k # c => SameScale(k))
        /\ clk'[c].multiplier = mulOf(cfgr, c) /\ clk'[c].divisor = divOf(cfgr, c)
    BY <1>0, <1>8, <2>0, ScaleFields, Zenon
  <2>2. t # Select(k, inputOf(cfgr, k)) /\ t # Error
    BY <1>8, CallsDiffer, Zenon
  <2>3. InputFollows(k)' /\ ClockKept(k)'
    BY <1>5, <1>6, <2>1, <2>2, Zenon DEF SameInput
  <2>4. CASE k = c
    BY <1>1, <2>1, <2>3, <2>4, Zenon DEF ScaleFollows
  <2>5. CASE k # c
    BY <1>4, <1>8, <2>1, <2>3, <2>5, SameKind, Zenon
  <2> QED
    BY <2>4, <2>5
<1>9. ASSUME NEW c \in Selecting, t = Select(c, inputOf(cfgr, c)),
             set_selected_input(c, inputOf(cfgr, c))
      PROVE  RegInv'
  <2> SUFFICES ASSUME NEW k \in Clks
               PROVE  (ScaleFollows(k) /\ InputFollows(k) /\ ClockKept(k))'
    BY DEF RegInv
  <2>0. c \in Clks /\ inputOf(cfgr, c) \in Nat
    BY <1>0, ArgsTyped, Zenon
  <2>1. /\ SameScale(k) /\ clk'[k].enabled = clk[k].enabled /\ (k # c => SameInput(k))
        /\ clk'[c].selected_input = inputOf(cfgr, c)
    BY <1>0, <1>9, <2>0, SelectFields, Zenon
  <2>2. t # Scale(k, mulOf(cfgr, k), divOf(cfgr, k)) /\ t # Error
    BY <1>9, CallsDiffer, Zenon
  <2>3. ScaleFollows(k)'
    BY <1>4, <2>1, <2>2, Zenon
  <2>4. CASE k = c
    <3>1. inputOf(cfgr, c) # NO_INPUT
      BY <2>0 DEF NO_INPUT
    <3> QED
      BY <1>1, <1>3, <2>1, <2>3, <2>4, <3>1, Zenon DEF InputFollows, ClockKept
  <2>5. CASE k # c
    <3>1. t # Select(k, inputOf(cfgr, k))
      BY <1>9, <2>5, SameKind, Zenon
    <3>2. SameInput(k) /\ clk'[k].enabled = clk[k].enabled
      BY <2>1, <2>5, Zenon
    <3> QED
      BY <1>5, <1>6, <2>2, <2>3, <3>1, <3>2, Zenon DEF SameInput
  <2> QED
    BY <2>4, <2>5
<1>10. ASSUME halted' = "hw_error", UNCHANGED treeVars
       PROVE  RegInv'
  BY <1>3, <1>10 DEF RegInv, ClockKept, treeVars
<1> QED
  BY <1>0, <1>7, <1>8, <1>9, <1>10, CallCases, Zenon DEF t

(* Passing a frequency on does not touch what CFGR calls for.              *)
LEMMA PropagateFollows ==
    ASSUME RccInv, RegInv, halted = "no", propagate
    PROVE  RegInv'
<1>1. TreeInv /\ set_input_freq /\ todo' = todo /\ cfgr' = cfgr
  BY DEF RccInv, propagate, regVars
<1> SUFFICES ASSUME NEW k \in Clks
             PROVE  (ScaleFollows(k) /\ InputFollows(k) /\ ClockKept(k))'
  BY DEF RegInv
<1>2. ScaleFollows(k) /\ InputFollows(k) /\ ClockKept(k)
  BY DEF RegInv
<1>3. /\ SameScale(k) /\ clk'[k].enabled = clk[k].enabled
      /\ clk'[k].selected_input = clk[k].selected_input
      /\ clk'[k].input_freq = clk[k].input_freq \/ clk[k].selected_input # NO_INPUT
  BY <1>1, PropagateFields, Zenon
<1> QED
  BY <1>1, <1>2, <1>3, Zenon DEF ScaleFollows, InputFollows, ClockKept, SameScale

(* Every step keeps the invariant.                                         *)
LEMMA RegInvStep == RccInv /\ RegInv /\ [Next]_vars => RegInv'
<1> SUFFICES ASSUME RccInv, RegInv, [Next]_vars
             PROVE  RegInv'
  OBVIOUS
<1>1. CASE UNCHANGED vars
  BY <1>1, Zenon
     DEF vars, treeVars, regVars, RegInv, ScaleFollows, InputFollows, ClockKept
<1>2. CASE Next
  <2>0. halted = "no" /\ (Software \/ clktree_call \/ propagate)
    BY <1>2 DEF Next
  <2>1. ASSUME NEW ops, write(ops), cfgr' = cfgr
        PROVE  RegInv'
    BY <2>0, <2>1, WriteFollows, Zenon DEF write, treeVars
  <2>2. ASSUME NEW v \in CFGRWrites, CFGR_write(v)
        PROVE  RegInv'
    <3>1. /\ todo = <<>> /\ UNCHANGED clk /\ cfgr' = v /\ v \in CFGR
          /\ todo' = CFGR_calls(cfgr')
      BY <2>2, WritesTyped DEF CFGR_write, write, treeVars
    <3> QED
      BY <2>0, <3>1, WriteFollows, Zenon
  <2>3. CASE reset
    <3>1. /\ todo = <<>> /\ UNCHANGED clk /\ cfgr' = CFGR_reset /\ todo' = reset_calls
      BY <2>3 DEF reset, treeVars
    <3> QED
      BY <2>0, <3>1, WriteFollows, ResetTyped, ResetContains, Zenon
  <2>4. ASSUME NEW v \in BRRWrites, BRR_write(v)
        PROVE  RegInv'
    <3>1. todo = <<>> /\ UNCHANGED clk /\ cfgr' = cfgr
      BY <2>4 DEF BRR_write, treeVars, regVars
    <3> QED
      BY <2>0, <3>1, WriteFollows, Zenon
  <2>5. CASE Software
    BY <2>1, <2>2, <2>3, <2>4, <2>5, Zenon
       DEF Software, CR_write, APB1ENR_write, APB2ENR_write, APB1RSTR_write,
           APB2RSTR_write, BDCR_write, CSR_write, regVars
  <2> QED
    BY <2>0, <2>5, CallFollows, PropagateFollows, Zenon
<1> QED
  BY <1>1, <1>2

(* Scaling by 1.                                                           *)
LEMMA ScaleByOne ==
    ASSUME NEW f \in Nat
    PROVE  (f * 1) \div 1 = f /\ \A d \in Nat \ {0} : (f * 1) \div d = f \div d
<1>1. f * 1 = f
  OBVIOUS
<1>2. f \div 1 = f
  OBVIOUS
<1> QED
  BY <1>1, <1>2, Zenon

(* Multiplying without dividing.                                           *)
LEMMA ScaleByMul ==
    ASSUME NEW f \in Nat, NEW m \in Nat
    PROVE  (f * m) \div 1 = f * m
<1>1. f * m \in Nat
  OBVIOUS
<1>2. \A x \in Nat : x \div 1 = x
  OBVIOUS
<1> QED
  BY <1>1, <1>2, Zenon

(* What CFGR calls for, clock by clock: the scale,                         *)
LEMMA ScalesOf ==
    ASSUME NEW v
    PROVE  /\ mulOf(v, PLLCLK) = pllmul(v.PLLMUL)
           /\ \A c \in Clks \ {PLLCLK} : mulOf(v, c) = 1
           /\ divOf(v, HSI_DIV2) = 2 /\ divOf(v, HSE_DIV2) = 2
           /\ divOf(v, HCLK) = hpre(v.HPRE) /\ divOf(v, PCLK1) = ppre(v.PPRE1)
           /\ divOf(v, PCLK2) = ppre(v.PPRE2)
           /\ \A c \in {HSI, HSE, PLLXTPRE, PLLCLK, SYSCLK} : divOf(v, c) = 1
<1> USE DEF HSI, LSI, HSE, LSE, HSI_DIV2, HSE_DIV2, PLLXTPRE, PLLCLK, SYSCLK,
            HCLK, PCLK1, PCLK2
<1>1. mulOf(v, PLLCLK) = pllmul(v.PLLMUL) /\ \A c \in Clks \ {PLLCLK} : mulOf(v, c) = 1
  BY DEF mulOf
<1>2. /\ divOf(v, HSI_DIV2) = 2 /\ divOf(v, HSE_DIV2) = 2
      /\ divOf(v, HCLK) = hpre(v.HPRE)
  BY DEF divOf
<1>3. divOf(v, PCLK1) = ppre(v.PPRE1) /\ divOf(v, PCLK2) = ppre(v.PPRE2)
  BY DEF divOf
<1>4. \A c \in {HSI, HSE, PLLXTPRE, PLLCLK, SYSCLK} : divOf(v, c) = 1
  BY DEF divOf
<1> QED
  BY <1>1, <1>2, <1>3, <1>4

(* the input that it selects,                                              *)
LEMMA InputsOf ==
    ASSUME NEW v
    PROVE  /\ inputOf(v, HSI) = NO_INPUT /\ inputOf(v, HSE) = NO_INPUT
           /\ inputOf(v, PLLXTPRE) = v.PLLXTPRE /\ inputOf(v, PLLCLK) = v.PLLSRC
           /\ inputOf(v, SYSCLK) = v.SW
           /\ \A c \in {HSI_DIV2, HSE_DIV2, HCLK, PCLK1, PCLK2} : inputOf(v, c) = 0
<1> USE DEF HSI, LSI, HSE, LSE, HSI_DIV2, HSE_DIV2, PLLXTPRE, PLLCLK, SYSCLK,
            HCLK, PCLK1, PCLK2
<1>1. inputOf(v, HSI) = NO_INPUT /\ inputOf(v, HSE) = NO_INPUT
  BY DEF inputOf
<1>2. /\ inputOf(v, PLLXTPRE) = v.PLLXTPRE /\ inputOf(v, PLLCLK) = v.PLLSRC
      /\ inputOf(v, SYSCLK) = v.SW
  BY DEF inputOf
<1>3. \A c \in {HSI_DIV2, HSE_DIV2, HCLK, PCLK1, PCLK2} : inputOf(v, c) = 0
  BY DEF inputOf
<1> QED
  BY <1>1, <1>2, <1>3

(* and the inputs there are.                                               *)
LEMMA Inputs ==
    /\ input[HSI_DIV2][1] = HSI /\ input[HSE_DIV2][1] = HSE
    /\ input[PLLXTPRE][1] = HSE /\ input[PLLXTPRE][2] = HSE_DIV2
    /\ input[PLLCLK][1] = HSI_DIV2 /\ input[PLLCLK][2] = PLLXTPRE
    /\ input[SYSCLK][1] = HSI /\ input[SYSCLK][2] = HSE /\ input[SYSCLK][3] = PLLCLK
    /\ Len(input[SYSCLK]) = 3
    /\ input[HCLK][1] = SYSCLK /\ input[PCLK1][1] = HCLK /\ input[PCLK2][1] = HCLK
<1> USE DEF HSI, LSI, HSE, LSE, HSI_DIV2, HSE_DIV2, PLLXTPRE, PLLCLK, SYSCLK,
            HCLK, PCLK1, PCLK2, UARTs, Clocks
<1>1. input[HSI_DIV2] = <<HSI>> /\ input[HSE_DIV2] = <<HSE>>
  BY RccTree DEF init_input
<1>2. input[PLLXTPRE] = <<HSE, HSE_DIV2>>
  BY RccTree DEF init_input
<1>3. input[PLLCLK] = <<HSI_DIV2, PLLXTPRE>>
  BY RccTree DEF init_input
<1>4. input[SYSCLK] = <<HSI, HSE, PLLCLK>>
  BY RccTree DEF init_input
<1>5. input[HCLK] = <<SYSCLK>>
  BY RccTree DEF init_input
<1>6. input[PCLK1] = <<HCLK>> /\ input[PCLK2] = <<HCLK>>
  BY RccTree DEF init_input
<1> QED
  BY <1>1, <1>2, <1>3, <1>4, <1>5, <1>6

(* The code multiplies and divides as the header documents, up to a factor *)
(* of 16 of the PLL and of 4 of the prescalers.                            *)
LEMMA Factors ==
    /\ \A v \in 0..15 : v < 15 => pllmul(v) = RCC_CFGR_PLLMULL(v)
    /\ \A v \in 0..15 : v <= 9 => hpre(v) = RCC_CFGR_HPRE_DIV(v)
    /\ \A v \in 0..7 : v <= 5 => ppre(v) = RCC_CFGR_PPRE_DIV(v)
<1>1. \A v \in 0..15 : v < 15 => pllmul(v) = RCC_CFGR_PLLMULL(v)
  BY DEF pllmul, RCC_CFGR_PLLMULL
<1>2. ASSUME NEW v \in 0..15, v <= 9
      PROVE  hpre(v) = RCC_CFGR_HPRE_DIV(v)
  <2>1. v < 8 \/ v = 8 \/ v = 9
    BY <1>2
  <2>2. CASE v < 8
    BY <2>2 DEF hpre, RCC_CFGR_HPRE_DIV
  <2>3. CASE v = 8
    BY <2>3 DEF hpre, RCC_CFGR_HPRE_DIV
  <2>4. CASE v = 9
    BY <2>4 DEF hpre, RCC_CFGR_HPRE_DIV
  <2> QED
    BY <2>1, <2>2, <2>3, <2>4
<1>3. ASSUME NEW v \in 0..7, v <= 5
      PROVE  ppre(v) = RCC_CFGR_PPRE_DIV(v)
  <2>1. v < 4 \/ v = 4 \/ v = 5
    BY <1>3
  <2>2. CASE v < 4
    BY <2>2 DEF ppre, RCC_CFGR_PPRE_DIV
  <2>3. CASE v = 4
    BY <2>3 DEF ppre, RCC_CFGR_PPRE_DIV
  <2>4. CASE v = 5
    BY <2>4 DEF ppre, RCC_CFGR_PPRE_DIV
  <2> QED
    BY <2>1, <2>2, <2>3, <2>4
<1> QED
  BY <1>1, <1>2, <1>3, Zenon

(* When no call is left, the tree is what the registers call for.          *)
LEMMA RegInvFollows == RccInv /\ RegInv => ClocksFollowRegisters
<1> SUFFICES ASSUME RccInv, RegInv, Idle, Documented
             PROVE  /\ clk[SYSCLK].output_freq = sysclk
                    /\ cfgr.HPRE <= 9 =>
                         /\ clk[HCLK].output_freq = hclk
                         /\ cfgr.PPRE1 <= 5 => clk[PCLK1].output_freq = pclk(cfgr.PPRE1)
                         /\ cfgr.PPRE2 <= 5 => clk[PCLK2].output_freq = pclk(cfgr.PPRE2)
  BY Zenon DEF ClocksFollowRegisters
<1> DEFINE out(c) == clk[c].output_freq
           in(c) == clk[c].input_freq
<1>1. TreeTypeOK /\ cfgr \in CFGR /\ \A c \in Clks : consistent(c)
  BY InvConsistent DEF RccInv, TreeInv, TreeConsistent, Idle
<1>2. \A x : ~contains(todo, x)
  BY DEF Idle, contains
<1>3. ASSUME NEW c \in Clks
      PROVE  /\ clk[c].multiplier = mulOf(cfgr, c) /\ clk[c].divisor = divOf(cfgr, c)
             /\ clk[c].selected_input = inputOf(cfgr, c) /\ ClockKept(c)
  BY <1>2, Zenon DEF RegInv, ScaleFollows, InputFollows, Idle
<1>4. \A c \in Clks : in(c) \in Nat /\ out(c) \in Nat /\ clk[c].enabled \in BOOLEAN
  BY <1>1, Zenon DEF TreeTypeOK, Clk
<1>5. ASSUME NEW c \in Clks
      PROVE  out(c) = running(c, (in(c) * mulOf(cfgr, c)) \div divOf(cfgr, c))
  BY <1>1, <1>3, Zenon DEF consistent, freq, running
<1>6. ASSUME NEW c \in Clks, NEW i \in Nat, inputOf(cfgr, c) = i
      PROVE  in(c) = out(input[c][i + 1])
  <2>1. i # NO_INPUT
    BY DEF NO_INPUT
  <2>2. in(c) = out(get_input_clk(c))
    BY <1>1, <1>3, <1>6, <2>1, Zenon DEF consistent
  <2> QED
    BY <1>3, <1>6, <2>1, <2>2, Zenon DEF get_input_clk
<1> HIDE DEF out, in
<1>7. /\ HSI \in Clks /\ HSE \in Clks /\ HSI_DIV2 \in Clks /\ HSE_DIV2 \in Clks
      /\ PLLXTPRE \in Clks /\ PLLCLK \in Clks /\ SYSCLK \in Clks /\ HCLK \in Clks
      /\ PCLK1 \in Clks /\ PCLK2 \in Clks
  BY ClocksAreClks DEF HSI_DIV2, HSE_DIV2
<1>8. ASSUME NEW c \in Clks
      PROVE  /\ inputOf(cfgr, c) = 0 => in(c) = out(input[c][1])
             /\ inputOf(cfgr, c) = 1 => in(c) = out(input[c][2])
             /\ inputOf(cfgr, c) = 2 => in(c) = out(input[c][3])
  <2>1. 0 + 1 = 1 /\ 1 + 1 = 2 /\ 2 + 1 = 3 /\ 0 \in Nat /\ 1 \in Nat /\ 2 \in Nat
    OBVIOUS
  <2> QED
    BY <1>6, <2>1, Zenon
<1>9. ASSUME NEW c \in Clks, c # PLLCLK
      PROVE  out(c) = running(c, in(c) \div divOf(cfgr, c))
  <2>1. mulOf(cfgr, c) = 1 /\ in(c) \in Nat /\ divOf(cfgr, c) \in Nat \ {0}
    BY <1>1, <1>4, <1>9, ArgsTyped, ScalesOf, Zenon
  <2>2. (in(c) * 1) \div divOf(cfgr, c) = in(c) \div divOf(cfgr, c)
    BY <2>1, ScaleByOne, Zenon
  <2> QED
    BY <1>5, <2>1, <2>2, Zenon
<1>10. ASSUME NEW c \in Clks, c # PLLCLK, divOf(cfgr, c) = 1
       PROVE  out(c) = running(c, in(c))
  <2>1. in(c) \div 1 = in(c)
    BY <1>4
  <2> QED
    BY <1>9, <1>10, <2>1, Zenon
<1>11. ASSUME NEW c \in AlwaysOn
       PROVE  /\ out(c) = in(c) \div divOf(cfgr, c)
              /\ divOf(cfgr, c) = 1 => out(c) = in(c)
  <2>1. c \in Clks /\ c # PLLCLK
    BY <1>7 DEF AlwaysOn, HSI_DIV2, HSE_DIV2, PLLXTPRE, PLLCLK, SYSCLK, HCLK, PCLK1, PCLK2
  <2> QED
    BY <1>3, <1>9, <1>10, <2>1, Zenon DEF ClockKept, running
<1>12. out(HSI) = running(HSI, HSI_FREQ) /\ out(HSE) = hse_in
  <2>1. created(HSI).input_freq = HSI_FREQ /\ created(HSE).input_freq = osc_freq
    BY DEF created, HSI, LSI, HSE, LSE
  <2>2. in(HSI) = HSI_FREQ /\ in(HSE) = osc_freq
    BY <1>3, <1>7, <2>1, InputsOf, Zenon DEF ClockKept, in
  <2>3. HSI # PLLCLK /\ HSE # PLLCLK
    BY DEF HSI, HSE, PLLCLK
  <2>4. divOf(cfgr, HSI) = 1 /\ divOf(cfgr, HSE) = 1
    BY ScalesOf, Zenon
  <2> QED
    BY <1>7, <1>10, <2>2, <2>3, <2>4, Zenon DEF hse_in
<1>13. out(HSI_DIV2) = out(HSI) \div 2 /\ out(HSE_DIV2) = out(HSE) \div 2
  <2>1. HSI_DIV2 \in AlwaysOn /\ HSE_DIV2 \in AlwaysOn
    BY DEF AlwaysOn
  <2>2. /\ inputOf(cfgr, HSI_DIV2) = 0 /\ inputOf(cfgr, HSE_DIV2) = 0
        /\ divOf(cfgr, HSI_DIV2) = 2 /\ divOf(cfgr, HSE_DIV2) = 2
    BY InputsOf, ScalesOf, Zenon
  <2>3. input[HSI_DIV2][1] = HSI /\ input[HSE_DIV2][1] = HSE
    BY Inputs, Zenon
  <2>4. in(HSI_DIV2) = out(HSI)
    BY <1>7, <1>8, <2>2, <2>3, Zenon
  <2>5. in(HSE_DIV2) = out(HSE)
    BY <1>7, <1>8, <2>2, <2>3, Zenon
  <2>6. out(HSI_DIV2) = out(HSI) \div 2
    BY <1>11, <2>1, <2>2, <2>4, Zenon
  <2>7. out(HSE_DIV2) = out(HSE) \div 2
    BY <1>11, <2>1, <2>2, <2>5, Zenon
  <2> QED
    BY <2>6, <2>7
<1>14. out(PLLXTPRE) = IF cfgr.PLLXTPRE = 0 THEN out(HSE) ELSE out(HSE) \div 2
  <2>1. cfgr.PLLXTPRE = 0 \/ cfgr.PLLXTPRE = 1
    BY <1>1 DEF CFGR
  <2>2. inputOf(cfgr, PLLXTPRE) = cfgr.PLLXTPRE /\ divOf(cfgr, PLLXTPRE) = 1
    BY InputsOf, ScalesOf, Zenon
  <2>3. in(PLLXTPRE) = IF cfgr.PLLXTPRE = 0 THEN out(HSE) ELSE out(HSE_DIV2)
    <3>1. input[PLLXTPRE][1] = HSE /\ input[PLLXTPRE][2] = HSE_DIV2
      BY Inputs, Zenon
    <3> QED
      BY <1>7, <1>8, <2>1, <2>2, <3>1, Zenon
  <2>4. PLLXTPRE \in AlwaysOn
    BY DEF AlwaysOn
  <2> QED
    BY <1>11, <1>13, <2>2, <2>3, <2>4, Zenon
<1>15. out(PLLCLK) = running(PLLCLK, pll_in * pllmul(cfgr.PLLMUL))
  <2>1. cfgr.PLLSRC = 0 \/ cfgr.PLLSRC = 1
    BY <1>1 DEF CFGR
  <2>2. /\ inputOf(cfgr, PLLCLK) = cfgr.PLLSRC /\ divOf(cfgr, PLLCLK) = 1
        /\ mulOf(cfgr, PLLCLK) = pllmul(cfgr.PLLMUL)
    BY InputsOf, ScalesOf, Zenon
  <2>3. in(PLLCLK) = IF cfgr.PLLSRC = 0 THEN out(HSI_DIV2) ELSE out(PLLXTPRE)
    <3>1. input[PLLCLK][1] = HSI_DIV2 /\ input[PLLCLK][2] = PLLXTPRE
      BY Inputs, Zenon
    <3> QED
      BY <1>7, <1>8, <2>1, <2>2, <3>1, Zenon
  <2>4. in(PLLCLK) = pll_in
    BY <1>12, <1>13, <1>14, <2>3, Zenon DEF pll_in
  <2>5. in(PLLCLK) \in Nat /\ mulOf(cfgr, PLLCLK) \in Nat
    BY <1>1, <1>4, <1>7, ArgsTyped, Zenon
  <2> QED
    BY <1>5, <1>7, <2>2, <2>4, <2>5, ScaleByMul, Zenon
<1>16. out(SYSCLK) = sysclk
  <2>1. inputOf(cfgr, SYSCLK) = cfgr.SW /\ divOf(cfgr, SYSCLK) = 1
    BY InputsOf, ScalesOf, Zenon
  <2>2. cfgr.SW = 0 \/ cfgr.SW = 1 \/ cfgr.SW = 2
    <3>1. cfgr.SW \in 0..3
      BY <1>1 DEF CFGR
    <3>2. clk[SYSCLK].selected_input < Len(input[SYSCLK])
      BY <1>1, <1>7, Zenon DEF TreeTypeOK
    <3>3. Len(input[SYSCLK]) = 3
      BY Inputs, Zenon
    <3>4. cfgr.SW < 3
      BY <1>3, <1>7, <2>1, <3>2, <3>3, Zenon
    <3> QED
      BY <3>1, <3>4
  <2>3. SYSCLK \in AlwaysOn
    BY DEF AlwaysOn
  <2>4. out(SYSCLK) = in(SYSCLK)
    BY <1>11, <2>1, <2>3, Zenon
  <2>5. CASE cfgr.SW = 0
    <3>0. input[SYSCLK][1] = HSI
      BY Inputs, Zenon
    <3>1. in(SYSCLK) = out(HSI)
      BY <1>7, <1>8, <2>1, <2>5, <3>0, Zenon
    <3> QED
      BY <1>12, <2>4, <2>5, <3>1 DEF sysclk
  <2>6. CASE cfgr.SW = 1
    <3>0. input[SYSCLK][2] = HSE
      BY Inputs, Zenon
    <3>1. in(SYSCLK) = out(HSE)
      BY <1>7, <1>8, <2>1, <2>6, <3>0, Zenon
    <3> QED
      BY <1>12, <2>4, <2>6, <3>1 DEF sysclk
  <2>7. CASE cfgr.SW = 2
    <3>0. input[SYSCLK][3] = PLLCLK
      BY Inputs, Zenon
    <3>1. in(SYSCLK) = out(PLLCLK)
      BY <1>7, <1>8, <2>1, <2>7, <3>0, Zenon
    <3>2. cfgr.PLLMUL \in 0..15 /\ cfgr.PLLMUL < 15
      BY <1>1, <2>7 DEF CFGR, Documented
    <3>3. pllmul(cfgr.PLLMUL) = RCC_CFGR_PLLMULL(cfgr.PLLMUL)
      BY <3>2, Factors, Zenon
    <3>4. out(SYSCLK) = running(PLLCLK, pll_in * RCC_CFGR_PLLMULL(cfgr.PLLMUL))
      BY <1>15, <2>4, <3>1, <3>3, Zenon
    <3> QED
      BY <2>7, <3>4 DEF sysclk
  <2> QED
    BY <2>2, <2>5, <2>6, <2>7
<1>17. ASSUME cfgr.HPRE <= 9
       PROVE  /\ out(HCLK) = hclk
              /\ cfgr.PPRE1 <= 5 => out(PCLK1) = pclk(cfgr.PPRE1)
              /\ cfgr.PPRE2 <= 5 => out(PCLK2) = pclk(cfgr.PPRE2)
  <2>0. cfgr.HPRE \in 0..15 /\ cfgr.PPRE1 \in 0..7 /\ cfgr.PPRE2 \in 0..7
    BY <1>1 DEF CFGR
  <2>1. HCLK \in AlwaysOn /\ PCLK1 \in AlwaysOn /\ PCLK2 \in AlwaysOn
    BY DEF AlwaysOn
  <2>2. inputOf(cfgr, HCLK) = 0 /\ inputOf(cfgr, PCLK1) = 0 /\ inputOf(cfgr, PCLK2) = 0
    BY InputsOf, Zenon
  <2>3. /\ divOf(cfgr, HCLK) = hpre(cfgr.HPRE) /\ divOf(cfgr, PCLK1) = ppre(cfgr.PPRE1)
        /\ divOf(cfgr, PCLK2) = ppre(cfgr.PPRE2)
    BY ScalesOf, Zenon
  <2>4. input[HCLK][1] = SYSCLK /\ input[PCLK1][1] = HCLK /\ input[PCLK2][1] = HCLK
    BY Inputs, Zenon
  <2>5. in(HCLK) = out(SYSCLK)
    BY <1>7, <1>8, <2>2, <2>4, Zenon
  <2>6. out(HCLK) = hclk
    <3>1. hpre(cfgr.HPRE) = RCC_CFGR_HPRE_DIV(cfgr.HPRE)
      BY <1>17, <2>0, Factors, Zenon
    <3> QED
      BY <1>11, <1>16, <2>1, <2>3, <2>5, <3>1, Zenon DEF hclk
  <2>7. in(PCLK1) = out(HCLK)
    BY <1>7, <1>8, <2>2, <2>4, Zenon
  <2>8. in(PCLK2) = out(HCLK)
    BY <1>7, <1>8, <2>2, <2>4, Zenon
  <2>9. ASSUME cfgr.PPRE1 <= 5
      PROVE  out(PCLK1) = pclk(cfgr.PPRE1)
    <3>1. ppre(cfgr.PPRE1) = RCC_CFGR_PPRE_DIV(cfgr.PPRE1)
      BY <2>0, <2>9, Factors, Zenon
    <3> QED
      BY <1>11, <2>1, <2>3, <2>6, <2>7, <3>1, Zenon DEF pclk
  <2>10. ASSUME cfgr.PPRE2 <= 5
       PROVE  out(PCLK2) = pclk(cfgr.PPRE2)
    <3>1. ppre(cfgr.PPRE2) = RCC_CFGR_PPRE_DIV(cfgr.PPRE2)
      BY <2>0, <2>10, Factors, Zenon
    <3> QED
      BY <1>11, <2>1, <2>3, <2>6, <2>8, <3>1, Zenon DEF pclk
  <2> QED
    BY <2>6, <2>9, <2>10
<1> QED
  BY <1>16, <1>17, Zenon DEF out

(* The core and the buses run at the frequencies that the registers call   *)
(* for, after any sequence of writes of any values, and for any            *)
(* oscillators (stm32_rcc.c:389-469), as far as the code and the header    *)
(* agree on the prescalers.                                                *)
THEOREM RccClocksFollowRegisters == Spec => []ClocksFollowRegisters
<1>1. RccInv /\ RegInv /\ [Next]_vars => RccInv' /\ RegInv'
  BY RccInvStep, RegInvStep
<1> QED
  BY <1>1, RccInvInit, RegInvInit, RegInvFollows, PTL DEF Spec
-----------------------------------------------------------------------------
(* No division by zero                                                     *)

(* The output of a running clock, and its input, are at least so many      *)
(* times the divider.                                                      *)
low(c) == CASE c \in {HSI, HSE, PLLCLK, SYSCLK} -> 128
            [] c \in {HSI_DIV2, HSE_DIV2, PLLXTPRE} -> 64
            [] c = HCLK -> 8
            [] c \in {PCLK1} \cup UARTs -> 1
            [] OTHER -> 0

lowIn(c) == CASE c \in {HSI, HSE, HSI_DIV2, HSE_DIV2, SYSCLK, HCLK} -> 128
              [] c \in {PLLXTPRE, PLLCLK} -> 64
              [] c = PCLK1 -> 8
              [] c \in UARTs -> 1
              [] OTHER -> 0

ScaleKeepsLow(c, m, d) == m = 0 \/ low(c) * d <= lowIn(c) * m

(* Whatever the registers have been and are: no clock passes through a     *)
(* frequency, other than 0, that is too low for it.                        *)
LowClk(r, c) ==
    /\ ScaleKeepsLow(c, r.multiplier, r.divisor)
    /\ \A b \in BRRWrites : r.input_freq = 0 \/ r.input_freq >= lowIn(c) * b

LowInv ==
    /\ \A c \in Clks : LowClk(clk[c], c)
    /\ brr \in {0} \cup BRRWrites /\ halted # "trap"

(* The bounds are numbers.                                                 *)
LEMMA LowTyped ==
    ASSUME NEW c \in Clks
    PROVE  low(c) \in Nat /\ lowIn(c) \in Nat
  BY DEF low, lowIn

(* What CFGR calls for keeps them,                                         *)
LEMMA ScalesKeepLow ==
    ASSUME NEW v \in CFGR, NEW c \in Scaled
    PROVE  ScaleKeepsLow(c, mulOf(v, c), divOf(v, c))
<1> USE DEF HSI, LSI, HSE, LSE, HSI_DIV2, HSE_DIV2, PLLXTPRE, PLLCLK, SYSCLK,
            HCLK, PCLK1, PCLK2, UARTs
<1>1. /\ pllmul(v.PLLMUL) \in 2..16 /\ hpre(v.HPRE) \in 1..16 /\ ppre(v.PPRE1) \in 1..8
      /\ ppre(v.PPRE2) \in 1..8
  BY DEF CFGR, pllmul, hpre, ppre
<1>2. CASE c = PLLCLK
  <2>1. /\ mulOf(v, c) = pllmul(v.PLLMUL) /\ divOf(v, c) = 1
        /\ low(c) = 128 /\ lowIn(c) = 64
    BY <1>2 DEF mulOf, divOf, low, lowIn
  <2> QED
    BY <1>1, <2>1 DEF ScaleKeepsLow
<1>3. CASE c = HCLK
  <2>1. mulOf(v, c) = 1 /\ divOf(v, c) = hpre(v.HPRE) /\ low(c) = 8 /\ lowIn(c) = 128
    BY <1>3 DEF mulOf, divOf, low, lowIn
  <2> QED
    BY <1>1, <2>1 DEF ScaleKeepsLow
<1>4. CASE c = PCLK1
  <2>1. mulOf(v, c) = 1 /\ divOf(v, c) = ppre(v.PPRE1) /\ low(c) = 1 /\ lowIn(c) = 8
    BY <1>4 DEF mulOf, divOf, low, lowIn
  <2> QED
    BY <1>1, <2>1 DEF ScaleKeepsLow
<1>5. CASE c = PCLK2
  <2>1. mulOf(v, c) = 1 /\ divOf(v, c) = ppre(v.PPRE2) /\ low(c) = 0 /\ lowIn(c) = 0
    BY <1>5 DEF mulOf, divOf, low, lowIn
  <2> QED
    BY <1>1, <2>1 DEF ScaleKeepsLow
<1> QED
  BY <1>2, <1>3, <1>4, <1>5 DEF Scaled

(* and so do the scales that the clocks are created with.                  *)
LEMMA CreatedKeepLow ==
    ASSUME NEW c \in Clks
    PROVE  ScaleKeepsLow(c, created(c).multiplier, created(c).divisor)
<1> USE DEF HSI, LSI, HSE, LSE, HSI_DIV2, HSE_DIV2, PLLXTPRE, PLLCLK, SYSCLK,
            HCLK, PCLK1, PCLK2, UARTs
<1>1. CASE c \in {PLLCLK, HCLK, PCLK1, PCLK2}
  BY <1>1 DEF created, ScaleKeepsLow
<1>2. CASE c \in {HSI_DIV2, HSE_DIV2}
  <2>1. /\ created(c).multiplier = 1 /\ created(c).divisor = 2
        /\ low(c) = 64 /\ lowIn(c) = 128
    BY <1>2 DEF created, low, lowIn
  <2> QED
    BY <2>1 DEF ScaleKeepsLow
<1>3. CASE c \notin {PLLCLK, HCLK, PCLK1, PCLK2, HSI_DIV2, HSE_DIV2}
  <2>1. created(c).multiplier = 1 /\ created(c).divisor = 1
    BY <1>3 DEF created
  <2>2. low(c) <= lowIn(c)
    <3>1. CASE c \in {HSI, HSE, SYSCLK, PLLXTPRE}
      BY <1>3, <3>1 DEF low, lowIn
    <3>2. CASE c \in UARTs
      BY <1>3, <3>2 DEF low, lowIn
    <3>3. CASE c \notin {HSI, HSE, SYSCLK, PLLXTPRE} \cup UARTs
      BY <1>3, <3>3 DEF low, lowIn
    <3> QED
      BY <3>1, <3>2, <3>3, Zenon
  <2> QED
    BY <2>1, <2>2, LowTyped DEF ScaleKeepsLow
<1> QED
  BY <1>1, <1>2, <1>3

(* A clock is fed by clocks that are fast enough for it.                   *)
LEMMA InputKeepsLow ==
    ASSUME NEW c \in Clks, NEW i \in 1..Len(input[c])
    PROVE  input[c][i] \in Clks /\ lowIn(c) <= low(input[c][i])
<1> USE DEF HSI, LSI, HSE, LSE, HSI_DIV2, HSE_DIV2, PLLXTPRE, PLLCLK, SYSCLK,
            HCLK, PCLK1, PCLK2, UARTs
<1>1. input[c] = init_input[c] /\ c \in 1..25
  BY RccTree, ClocksAreClks
<1>2. CASE c \in {HSI, LSI, HSE, LSE}
  <2>1. Len(input[c]) = 0
    <3>1. /\ c \in {HSI, LSI, HSE, LSE} /\ c # HSI_DIV2 /\ c # HSE_DIV2
          /\ c # PLLXTPRE /\ c # PLLCLK /\ c # SYSCLK /\ c # HCLK /\ c \notin {PCLK1, PCLK2} /\ c \notin UARTs
      BY <1>1, <1>2
    <3>2. init_input[c] = <<>>
      BY <1>1, <3>1, Zenon DEF init_input, Clocks
    <3> QED
      BY <1>1, <3>2
  <2> QED
    BY <2>1
<1>3. CASE c = HSI_DIV2
  <2>1. Len(input[c]) = 1 /\ input[c][1] = HSI
    BY <1>1, <1>3 DEF init_input, Clocks
  <2> QED
    BY <1>3, <2>1, ClocksAreClks DEF low, lowIn
<1>4. CASE c = HSE_DIV2
  <2>1. Len(input[c]) = 1 /\ input[c][1] = HSE
    BY <1>1, <1>4 DEF init_input, Clocks
  <2> QED
    BY <1>4, <2>1, ClocksAreClks DEF low, lowIn
<1>5. CASE c = PLLXTPRE
  <2>1. Len(input[c]) = 2 /\ input[c][1] = HSE /\ input[c][2] = HSE_DIV2
    BY <1>1, <1>5 DEF init_input, Clocks
  <2> QED
    BY <1>5, <2>1, ClocksAreClks DEF low, lowIn
<1>6. CASE c = PLLCLK
  <2>1. Len(input[c]) = 2 /\ input[c][1] = HSI_DIV2 /\ input[c][2] = PLLXTPRE
    BY <1>1, <1>6 DEF init_input, Clocks
  <2> QED
    BY <1>6, <2>1, ClocksAreClks DEF low, lowIn
<1>7. CASE c = SYSCLK
  <2>1. /\ Len(input[c]) = 3 /\ input[c][1] = HSI /\ input[c][2] = HSE
        /\ input[c][3] = PLLCLK
    BY <1>1, <1>7 DEF init_input, Clocks
  <2> QED
    BY <1>7, <2>1, ClocksAreClks DEF low, lowIn
<1>8. CASE c = HCLK
  <2>1. Len(input[c]) = 1 /\ input[c][1] = SYSCLK
    BY <1>1, <1>8 DEF init_input, Clocks
  <2> QED
    BY <1>8, <2>1, ClocksAreClks DEF low, lowIn
<1>9. CASE c \in {PCLK1, PCLK2}
  <2>1. Len(input[c]) = 1 /\ input[c][1] = HCLK
    <3>1. /\ c \notin {HSI, LSI, HSE, LSE} /\ c # HSI_DIV2 /\ c # HSE_DIV2
          /\ c # PLLXTPRE /\ c # PLLCLK /\ c # SYSCLK /\ c # HCLK /\ c \in {PCLK1, PCLK2} /\ c \notin UARTs
      BY <1>1, <1>9
    <3>2. init_input[c] = <<HCLK>>
      BY <1>1, <3>1, Zenon DEF init_input, Clocks
    <3> QED
      BY <1>1, <3>2
  <2> QED
    BY <1>9, <2>1, ClocksAreClks DEF low, lowIn
<1>10. CASE c \in UARTs
  <2>1. Len(input[c]) = 1 /\ input[c][1] = PCLK1
    BY <1>1, <1>10 DEF init_input, Clocks
  <2> QED
    BY <1>10, <2>1, ClocksAreClks DEF low, lowIn
<1>11. CASE c \in 13..21
  <2>1. Len(input[c]) = 1 /\ input[c][1] = PCLK2
    <3>1. /\ c \notin {HSI, LSI, HSE, LSE} /\ c # HSI_DIV2 /\ c # HSE_DIV2
          /\ c # PLLXTPRE /\ c # PLLCLK /\ c # SYSCLK /\ c # HCLK /\ c \notin {PCLK1, PCLK2} /\ c \notin UARTs
      BY <1>1, <1>11
    <3>2. init_input[c] = <<PCLK2>>
      BY <1>1, <3>1, Zenon DEF init_input, Clocks
    <3> QED
      BY <1>1, <3>2
  <2> QED
    BY <1>11, <2>1, ClocksAreClks DEF low, lowIn
<1>12. \/ c \in {HSI, LSI, HSE, LSE} \/ c = HSI_DIV2 \/ c = HSE_DIV2
       \/ c = PLLXTPRE \/ c = PLLCLK \/ c = SYSCLK \/ c = HCLK
       \/ c \in {PCLK1, PCLK2} \/ c \in UARTs \/ c \in 13..21
  BY <1>1
<1> QED
  BY <1>2, <1>3, <1>4, <1>5, <1>6, <1>7, <1>8, <1>9, <1>10, <1>11, <1>12, Zenon

(* Scaling keeps a running clock fast enough.                              *)
LEMMA ScaledLow ==
    ASSUME NEW x \in Nat, NEW m \in Nat \ {0}, NEW d \in Nat \ {0}, NEW b \in Nat,
           NEW p \in Nat, NEW q \in Nat, p * d <= q * m, x >= q * b
    PROVE  (x * m) \div d >= p * b
<1>1. x * m >= (q * b) * m
  BY SMTT(20)
<1>2. (q * b) * m = (q * m) * b
  BY SMTT(20)
<1>3. (q * m) * b >= (p * d) * b
  BY SMTT(20)
<1>4. (p * d) * b = (p * b) * d
  BY SMTT(20)
<1> DEFINE y == x * m
           z == p * b
<1>5. y >= z * d /\ y \in Nat /\ z \in Nat
  BY <1>1, <1>2, <1>3, <1>4
<1> HIDE DEF y, z
<1>6. y \div d >= z
  <2>1. y \div d \in Nat /\ y < ((y \div d) + 1) * d
    BY <1>5
  <2>2. ASSUME y \div d < z
        PROVE  FALSE
    <3>1. (y \div d) + 1 <= z
      BY <1>5, <2>1, <2>2
    <3>2. ((y \div d) + 1) * d <= z * d
      BY <1>5, <2>1, <3>1
    <3> QED
      BY <1>5, <2>1, <3>2
  <2> QED
    BY <1>5, <2>1, <2>2
<1> QED
  BY <1>6 DEF y, z
(* So the output of a clock is 0 or not too low.                           *)
LEMMA LowOutput ==
    ASSUME NEW c \in Clks, NEW r \in Clk, LowClk(r, c), NEW b \in BRRWrites
    PROVE  freq(r) = 0 \/ freq(r) >= low(c) * b
<1>1. /\ r.input_freq \in Nat /\ r.multiplier \in Nat /\ r.divisor \in Nat \ {0}
      /\ b \in Nat /\ low(c) \in Nat /\ lowIn(c) \in Nat
  BY LowTyped, WritesTyped DEF Clk
<1>2. CASE ~r.enabled
  BY <1>2, Zenon DEF freq
<1>3. CASE r.input_freq = 0 \/ r.multiplier = 0
  <2>1. r.input_freq * r.multiplier = 0
    BY <1>1, <1>3
  <2>2. 0 \div r.divisor = 0
    BY <1>1, Quotient
  <2> QED
    BY <2>1, <2>2, Zenon DEF freq
<1>4. CASE r.enabled /\ r.input_freq # 0 /\ r.multiplier # 0
  <2>1. low(c) * r.divisor <= lowIn(c) * r.multiplier /\ r.input_freq >= lowIn(c) * b
    BY <1>4, Zenon DEF LowClk, ScaleKeepsLow
  <2>2. r.multiplier \in Nat \ {0}
    BY <1>1, <1>4
  <2>3. (r.input_freq * r.multiplier) \div r.divisor >= low(c) * b
    BY <1>1, <2>1, <2>2, ScaledLow, Zenon
  <2> QED
    BY <1>4, <2>3, Zenon DEF freq
<1> QED
  BY <1>2, <1>3, <1>4

(* A clock that is fed by another one stays fast enough.                   *)
LEMMA FedLow ==
    ASSUME TreeInv, LowInv, NEW c \in Clks, NEW i \in 1..Len(input[c]),
           NEW b \in BRRWrites
    PROVE  \/ clk[input[c][i]].output_freq = 0
           \/ clk[input[c][i]].output_freq >= lowIn(c) * b
<1> DEFINE p == input[c][i]
<1>1. p \in Clks /\ lowIn(c) <= low(p)
  BY InputKeepsLow
<1> HIDE DEF p
<1>2. clk[p] \in Clk /\ clk[p].output_freq = freq(clk[p]) /\ LowClk(clk[p], p)
  BY <1>1, Zenon DEF TreeInv, TreeTypeOK, LowInv
<1>3. clk[p].output_freq = 0 \/ clk[p].output_freq >= low(p) * b
  BY <1>1, <1>2, LowOutput, Zenon
<1>4. /\ b \in Nat /\ low(p) \in Nat /\ lowIn(c) \in Nat /\ clk[p].output_freq \in Nat
  BY <1>1, <1>2, LowTyped, WritesTyped DEF Clk
<1>5. low(p) * b >= lowIn(c) * b
  BY <1>1, <1>4
<1>6. low(p) * b \in Nat /\ lowIn(c) * b \in Nat
  BY <1>4
<1>7. clk[p].output_freq = 0 \/ clk[p].output_freq >= lowIn(c) * b
  <2>1. ASSUME NEW x \in Nat, NEW y \in Nat, NEW z \in Nat, x >= y, y >= z
        PROVE  x >= z
    BY <2>1
  <2> QED
    BY <1>3, <1>4, <1>5, <1>6, <2>1, Zenon
<1> QED
  BY <1>7, Zenon DEF p

(* The oscillators are fast enough for the dividers.                       *)
LEMMA LowInvInit == ASSUME DividersFit PROVE Init => LowInv
<1> SUFFICES ASSUME Init
             PROVE  LowInv
  OBVIOUS
<1>1. brr \in {0} \cup BRRWrites /\ halted # "trap" /\ \A c \in Clks : clk[c] = created(c)
  BY DEF Init
<1>2. ASSUME NEW c \in Clks, NEW b \in BRRWrites
      PROVE  created(c).input_freq = 0 \/ created(c).input_freq >= lowIn(c) * b
  <2> USE DEF HSI, LSI, HSE, LSE, HSI_DIV2, HSE_DIV2, PLLXTPRE, PLLCLK, SYSCLK,
              HCLK, PCLK1, PCLK2, UARTs
  <2>1. b \in Nat
    BY WritesTyped
  <2>2. CASE c = HSI
    <3>1. created(c).input_freq = HSI_FREQ /\ lowIn(c) = 128
      BY <2>2 DEF created, lowIn
    <3>2. 128 * b <= HSI_FREQ
      BY DEF DividersFit
    <3> QED
      BY <2>1, <3>1, <3>2, Numbers
  <2>3. CASE c = HSE
    <3>1. created(c).input_freq = osc_freq /\ lowIn(c) = 128
      BY <2>3 DEF created, lowIn
    <3>2. osc_freq = 0 \/ 128 * b <= osc_freq
      BY DEF DividersFit
    <3> QED
      BY <2>1, <3>1, <3>2, RccAssumption
  <2>4. CASE c \in {LSI, LSE}
    <3>1. created(c).input_freq \in Nat /\ lowIn(c) = 0
      BY <2>4, Numbers, RccAssumption DEF created, lowIn
    <3> QED
      BY <2>1, <3>1
  <2>5. CASE c \notin {HSI, HSE, LSI, LSE}
    BY <2>5 DEF created
  <2> QED
    BY <2>2, <2>3, <2>4, <2>5
<1>3. \A c \in Clks : LowClk(clk[c], c)
  BY <1>1, <1>2, CreatedKeepLow, Zenon DEF LowClk
<1> QED
  BY <1>1, <1>3 DEF LowInv

(* Every step keeps the clocks fast enough,                                *)
LEMMA LowClkStep ==
    ASSUME RccInv, LowInv, [Next]_vars
    PROVE  \A c \in Clks : LowClk(clk'[c], c)
<1>0. /\ TreeInv /\ TreeTypeOK /\ cfgr \in CFGR /\ todo \in Seq(CallsOf(cfgr))
      /\ \A c \in Clks : LowClk(clk[c], c)
  BY DEF RccInv, TreeInv, LowInv
<1>1. ASSUME NEW k \in Clks, SameScale(k), SameInput(k)
      PROVE  LowClk(clk'[k], k)
  BY <1>0, <1>1, Zenon DEF LowClk, SameScale, SameInput
<1>2. CASE UNCHANGED clk
  BY <1>0, <1>2
<1>3. CASE clktree_call
  <2>1. ASSUME NEW c \in Clks \ AlwaysOn, NEW b \in BOOLEAN, set_enabled(c, b)
        PROVE  \A k \in Clks : LowClk(clk'[k], k)
    BY <1>0, <1>1, <2>1, EnableFields, Zenon
  <2>2. ASSUME NEW c \in Scaled, set_scale(c, mulOf(cfgr, c), divOf(cfgr, c)),
               NEW k \in Clks
        PROVE  LowClk(clk'[k], k)
    <3>0. c \in Clks /\ mulOf(cfgr, c) \in Nat /\ divOf(cfgr, c) \in Nat \ {0}
      BY <1>0, ArgsTyped, Zenon
    <3>1. /\ SameInput(k) /\ (k # c => SameScale(k))
          /\ clk'[c].multiplier = mulOf(cfgr, c) /\ clk'[c].divisor = divOf(cfgr, c)
      BY <1>0, <2>2, <3>0, ScaleFields, Zenon
    <3>2. ScaleKeepsLow(c, mulOf(cfgr, c), divOf(cfgr, c))
      BY <1>0, ScalesKeepLow, Zenon
    <3>3. CASE k = c
      BY <1>0, <3>1, <3>2, <3>3, Zenon DEF LowClk, SameInput
    <3> QED
      BY <1>1, <3>1, <3>3
  <2>3. ASSUME NEW c \in Selecting, set_selected_input(c, inputOf(cfgr, c)),
               NEW k \in Clks
        PROVE  LowClk(clk'[k], k)
    <3> DEFINE i == inputOf(cfgr, c)
    <3>0. c \in Clks /\ i \in Nat
      BY <1>0, ArgsTyped, Zenon
    <3>1. /\ SameScale(k) /\ (k # c => SameInput(k)) /\ i + 1 \in 1..Len(input[c])
          /\ clk'[c].input_freq = clk[input[c][i + 1]].output_freq
      BY <1>0, <2>3, <3>0, SelectFields, Zenon
    <3>2. \A b \in BRRWrites : \/ clk'[c].input_freq = 0
                               \/ clk'[c].input_freq >= lowIn(c) * b
      BY <1>0, <3>0, <3>1, FedLow, Zenon
    <3>3. CASE k = c
      BY <1>0, <3>1, <3>2, <3>3, Zenon DEF LowClk, SameScale
    <3> QED
      BY <1>1, <3>1, <3>3
  <2> QED
    BY <1>0, <1>2, <1>3, <2>1, <2>2, <2>3, CallCases, Zenon DEF treeVars
<1>4. ASSUME propagate, NEW k \in Clks
      PROVE  LowClk(clk'[k], k)
  <2>1. /\ SameScale(k) /\ clk'[k].selected_input = clk[k].selected_input
        /\ \/ clk'[k].input_freq = clk[k].input_freq
           \/ /\ clk[k].selected_input # NO_INPUT
              /\ clk'[k].input_freq = clk[get_input_clk(k)].output_freq
    BY <1>0, <1>4, PropagateFields, Zenon DEF propagate
  <2>2. CASE clk'[k].input_freq = clk[k].input_freq
    BY <1>1, <2>1, <2>2, Zenon DEF SameInput
  <2>3. CASE /\ clk[k].selected_input # NO_INPUT
             /\ clk'[k].input_freq = clk[get_input_clk(k)].output_freq
    <3> DEFINE i == clk[k].selected_input
    <3>1. i \in Nat /\ i < Len(input[k]) /\ Len(input[k]) \in Nat
      BY <1>0, <2>3, ClktreeAssumption DEF TreeTypeOK, Clk
    <3>2. i + 1 \in 1..Len(input[k])
      BY <3>1
    <3>3. clk'[k].input_freq = clk[input[k][i + 1]].output_freq
      BY <2>3, Zenon DEF get_input_clk
    <3>4. \A b \in BRRWrites : \/ clk'[k].input_freq = 0
                               \/ clk'[k].input_freq >= lowIn(k) * b
      BY <1>0, <3>2, <3>3, FedLow, Zenon
    <3> QED
      BY <1>0, <2>1, <3>4, Zenon DEF LowClk, SameScale
  <2> QED
    BY <2>1, <2>2, <2>3
<1>5. CASE Software \/ UNCHANGED vars
  <2>1. UNCHANGED clk
    BY <1>5, Zenon DEF Software, CR_write, CFGR_write, APB1ENR_write, APB2ENR_write,
       APB1RSTR_write, APB2RSTR_write, BDCR_write, CSR_write, BRR_write, reset,
       write, treeVars, vars
  <2> QED
    BY <1>2, <2>1
<1> QED
  BY <1>3, <1>4, <1>5, Zenon DEF Next
(* so the quotient that the baud rate is computed from is not 0.           *)
LEMMA BaudNoTrap ==
    ASSUME NEW f \in Nat, NEW b \in {0} \cup BRRWrites, baud_update(f, b),
           \A k \in BRRWrites : f = 0 \/ f >= k, halted # "trap"
    PROVE  halted' # "trap"
<1>1. CASE b # 0 /\ f # 0
  <2>1. b \in Nat \ {0} /\ f >= b
    BY <1>1, WritesTyped
  <2>2. f \div b # 0
    BY <2>1
  <2> QED
    BY <2>2 DEF baud_update
<1> QED
  BY <1>1 DEF baud_update

(* Every step keeps the invariant.                                         *)
LEMMA LowInvStep == RccInv /\ LowInv /\ [Next]_vars => LowInv'
<1> SUFFICES ASSUME RccInv, LowInv, [Next]_vars
             PROVE  LowInv'
  OBVIOUS
<1>1. \A c \in Clks : LowClk(clk'[c], c)
  BY LowClkStep
<1>2. RccInv'
  BY RccInvStep
<1>3. brr \in {0} \cup BRRWrites /\ halted # "trap"
  BY DEF LowInv
<1>4. ASSUME NEW r \in Clk, LowClk(r, UART2)
      PROVE  \A k \in BRRWrites : freq(r) = 0 \/ freq(r) >= k
  <2>1. low(UART2) = 1
    BY DEF low, HSI, HSE, HSI_DIV2, HSE_DIV2, PLLXTPRE, PLLCLK, SYSCLK, HCLK, PCLK1,
       UART2, UARTs
  <2>2. \A k \in BRRWrites : 1 * k = k
    BY WritesTyped
  <2> QED
    BY <1>4, <2>1, <2>2, ClocksAreClks, LowOutput, Zenon
<1>5. /\ clk[UART2] \in Clk /\ clk[UART2].output_freq = freq(clk[UART2])
      /\ clk'[UART2] \in Clk /\ clk'[UART2].output_freq = freq(clk'[UART2])
      /\ LowClk(clk[UART2], UART2) /\ LowClk(clk'[UART2], UART2)
  BY <1>1, <1>2, ClocksAreClks, Zenon DEF RccInv, TreeInv, TreeTypeOK, LowInv
<1>6. clk[UART2].output_freq \in Nat /\ clk'[UART2].output_freq \in Nat
  BY <1>5 DEF Clk
<1>7. ASSUME notify_users
      PROVE  halted' # "trap"
  <2>1. \/ baud_update(clk'[UART2].output_freq, brr)
        \/ UNCHANGED halted
    BY <1>7, Zenon DEF notify_users, clk_irq_handler
  <2>2. \A k \in BRRWrites : clk'[UART2].output_freq = 0 \/ clk'[UART2].output_freq >= k
    BY <1>4, <1>5, Zenon
  <2> QED
    BY <1>3, <1>6, <2>1, <2>2, BaudNoTrap, Zenon
<1>8. ASSUME NEW v \in BRRWrites, BRR_write(v)
      PROVE  brr' \in {0} \cup BRRWrites /\ halted' # "trap"
  <2>1. baud_update(clk[UART2].output_freq, v) /\ brr' = v
    BY <1>8 DEF BRR_write
  <2>2. \A k \in BRRWrites : clk[UART2].output_freq = 0 \/ clk[UART2].output_freq >= k
    BY <1>4, <1>5, Zenon
  <2>3. v \in {0} \cup BRRWrites
    OBVIOUS
  <2> QED
    BY <1>3, <1>6, <2>1, <2>2, <2>3, BaudNoTrap, Zenon
<1>9. CASE clktree_call
  <2>1. brr' = brr /\ (notify_users \/ halted' = "hw_error")
    BY <1>9, Zenon DEF clktree_call
  <2>2. "hw_error" # "trap"
    OBVIOUS
  <2> QED
    BY <1>1, <1>3, <1>7, <2>1, <2>2, Zenon DEF LowInv
<1>10. CASE propagate
  <2>1. brr' = brr /\ notify_users
    BY <1>10, Zenon DEF propagate
  <2> QED
    BY <1>1, <1>3, <1>7, <2>1, Zenon DEF LowInv
<1>11. ASSUME brr' = brr \/ brr' = 0, halted' = halted
       PROVE  LowInv'
  BY <1>1, <1>3, <1>11, Zenon DEF LowInv
<1>12. ASSUME NEW ops, write(ops)
       PROVE  LowInv'
  BY <1>11, <1>12, Zenon DEF write, userVars
<1>13. CASE reset \/ UNCHANGED vars
  BY <1>11, <1>13, Zenon DEF reset, vars
<1>14. CASE Software
  BY <1>1, <1>8, <1>12, <1>13, <1>14, Zenon
     DEF Software, CR_write, CFGR_write, APB1ENR_write, APB2ENR_write,
         APB1RSTR_write, APB2RSTR_write, BDCR_write, CSR_write, LowInv
<1> QED
  BY <1>9, <1>10, <1>13, <1>14, Zenon DEF Next

(* The emulator never divides by zero when it computes the time of a bit,  *)
(* for any oscillators and registers, as long as the dividers fit the      *)
(* oscillators (stm32_uart.c:149-176).                                     *)
THEOREM RccNoTrap == ASSUME DividersFit PROVE Spec => []NoTrap
<1>1. RccInv /\ LowInv /\ [Next]_vars => RccInv' /\ LowInv'
  BY RccInvStep, LowInvStep
<1>2. Init => LowInv
  BY LowInvInit
<1>3. LowInv => NoTrap
  BY DEF LowInv, NoTrap
<1> QED
  BY <1>1, <1>2, <1>3, RccInvInit, PTL DEF Spec
=============================================================================
