-------------------------------- MODULE Rcc --------------------------------
(***************************************************************************)
(* The reset and clock controller (hw/arm/stm32_rcc.c) on its clock tree,  *)
(* with the users of the clocks: the SysTick scale and the baud rate of    *)
(* USART2 (stm32_uart_baud_update).  A register write is a list of calls   *)
(* on the tree, each propagated before the next.                           *)
(***************************************************************************)
EXTENDS Clktree

CONSTANTS osc_freq,     \* frequencies of the external oscillators
          osc32_freq,
          CFGRWrites,   \* what software writes to RCC_CFGR
          CRWrites,     \* ... to RCC_CR: <<PLLON, HSEON, HSION>>
          APB1Writes,   \* peripherals whose bits it sets and clears, by their
          APB2Writes,   \* clock, or a number above N if they have none
          BRRWrites     \* what software writes to the USART's BRR

HSI_FREQ == 8 * 1000 * 1000
LSI_FREQ == 40 * 1000
TICKS_PER_SEC == 1000 * 1000 * 1000

(* The clocks in the order of stm32_rcc_init_clk.                          *)
HSI == 1
LSI == 2
HSE == 3
LSE == 4
HSI_DIV2 == 5
HSE_DIV2 == 6
PLLXTPRE == 7
PLLCLK == 8
SYSCLK == 9
HCLK == 10
PCLK1 == 11
PCLK2 == 12
GPIOs == 13..19
AFIO == 20
UART1 == 21
UART2 == 22
UARTs == 22..25
Clocks == 25

init_input ==
    [c \in 1..Clocks |->
       CASE c \in {HSI, LSI, HSE, LSE} -> <<>>
         [] c = HSI_DIV2 -> <<HSI>>
         [] c = HSE_DIV2 -> <<HSE>>
         [] c = PLLXTPRE -> <<HSE, HSE_DIV2>>
         [] c = PLLCLK -> <<HSI_DIV2, PLLXTPRE>>
         [] c = SYSCLK -> <<HSI, HSE, PLLCLK>>
         [] c = HCLK -> <<SYSCLK>>
         [] c \in {PCLK1, PCLK2} -> <<HCLK>>
         [] c \in UARTs -> <<PCLK1>>
         [] OTHER -> <<PCLK2>>]

init_output ==
    [c \in 1..Clocks |->
       CASE c = HSI -> <<HSI_DIV2, SYSCLK>>
         [] c = HSE -> <<HSE_DIV2, PLLXTPRE, SYSCLK>>
         [] c = HSI_DIV2 -> <<PLLCLK>>
         [] c = HSE_DIV2 -> <<PLLXTPRE>>
         [] c = PLLXTPRE -> <<PLLCLK>>
         [] c = PLLCLK -> <<SYSCLK>>
         [] c = SYSCLK -> <<HCLK>>
         [] c = HCLK -> <<PCLK1, PCLK2>>
         [] c = PCLK1 -> [i \in 1..4 |-> 21 + i]
         [] c = PCLK2 -> [i \in 1..9 |-> 12 + i]
         [] OTHER -> <<>>]

CFGR == [PLLMUL : 0..15, PLLXTPRE : 0..1, PLLSRC : 0..1, PPRE2 : 0..7,
         PPRE1 : 0..7, HPRE : 0..15, SW : 0..3]

ASSUME RccTree == N = Clocks /\ input = init_input /\ output = init_output

ASSUME RccAssumption ==
    /\ osc_freq \in Nat /\ osc32_freq \in Nat
    /\ CFGRWrites \subseteq CFGR /\ CRWrites \subseteq [1..3 -> BOOLEAN]
    /\ APB1Writes \subseteq Nat /\ APB2Writes \subseteq Nat
    /\ BRRWrites \subseteq Nat

VARIABLES
    todo,           \* calls on the tree that the register write has left
    cfgr,           \* the fields of RCC_CFGR
    APB1ENR,        \* peripherals whose bits are stored in RCC_APB1ENR
    APB2ENR,
    system_clock_scale,
    brr, bits_per_sec,
    halted          \* hw_error, or a division by zero in the emulator

regVars == <<cfgr, APB1ENR, APB2ENR>>
userVars == <<system_clock_scale, bits_per_sec, halted>>
vars == <<treeVars, todo, regVars, system_clock_scale, brr, bits_per_sec, halted>>
-----------------------------------------------------------------------------
(* The users of the clocks                                                 *)

(* Mutant of hclk_upd_irq_handler: the scale is computed from the clock    *)
(* that the core does not run on.                                          *)
hclk_upd_irq_handler_sysclk(changed) ==
    LET f == clk'[SYSCLK].output_freq IN
    system_clock_scale' = IF HCLK \in changed /\ f > 0 THEN TICKS_PER_SEC \div f
                          ELSE system_clock_scale

(* The SysTick scale is left alone while HCLK stands still.  The scale of  *)
(* the external reference, from HCLK / 8, is left out.                     *)
hclk_upd_irq_handler(changed) ==
    LET f == clk'[HCLK].output_freq IN
    system_clock_scale' = IF HCLK \in changed /\ f > 0 THEN TICKS_PER_SEC \div f
                          ELSE system_clock_scale

(* 1000000000 / bits_per_sec traps when the quotient before it is 0.       *)
baud_update(f, b) ==
    /\ bits_per_sec' = IF b = 0 \/ f = 0 THEN 0 ELSE f \div b
    /\ halted' = IF b # 0 /\ f # 0 /\ f \div b = 0 THEN "trap" ELSE halted

clk_irq_handler(changed) ==
    \/ UART2 \in changed /\ baud_update(clk'[UART2].output_freq, brr)
    \/ UART2 \notin changed /\ UNCHANGED <<bits_per_sec, halted>>

(* The users are told once the new frequency is stored, before the clocks  *)
(* below are.                                                              *)
notify_users ==
    LET changed == {c \in {HCLK, UART2} : clk'[c].output_freq # clk[c].output_freq}
    IN hclk_upd_irq_handler(changed) /\ clk_irq_handler(changed)
-----------------------------------------------------------------------------
(* Register writes                                                         *)

Enable(c, b) == [op |-> "enable", on |-> c, args |-> <<b>>]
Scale(c, m, d) == [op |-> "scale", on |-> c, args |-> <<m, d>>]
Select(c, i) == [op |-> "select", on |-> c, args |-> <<i>>]
Error == [op |-> "hw_error", on |-> SYSCLK, args |-> <<>>]

CR_calls(pllon, hseon, hsion) ==
    <<Enable(PLLCLK, pllon), Enable(HSE, hseon), Enable(HSI, hsion)>>

pllmul(v) == IF v = 15 THEN 16 ELSE v + 2

(* Mutant of ppre: one step too far.                                       *)
ppre_next(v) == IF v < 4 THEN 1 ELSE 2 * (v - 2)

ppre(v) == IF v < 4 THEN 1 ELSE 2 * (v - 3)

hpre(v) == IF v < 8 THEN 1 ELSE 2 * (v - 7)

(* Mutant of CFGR_calls: the divider in front of the PLL is not selected.  *)
CFGR_calls_no_XTPRE(v) ==
    <<Scale(PLLCLK, pllmul(v.PLLMUL), 1), Select(PLLXTPRE, 0),
      Select(PLLCLK, v.PLLSRC), Scale(PCLK2, 1, ppre(v.PPRE2)),
      Scale(PCLK1, 1, ppre(v.PPRE1)), Scale(HCLK, 1, hpre(v.HPRE)),
      IF v.SW = 3 THEN Error ELSE Select(SYSCLK, v.SW)>>

CFGR_calls(v) ==
    <<Scale(PLLCLK, pllmul(v.PLLMUL), 1), Select(PLLXTPRE, v.PLLXTPRE),
      Select(PLLCLK, v.PLLSRC), Scale(PCLK2, 1, ppre(v.PPRE2)),
      Scale(PCLK1, 1, ppre(v.PPRE1)), Scale(HCLK, 1, hpre(v.HPRE)),
      IF v.SW = 3 THEN Error ELSE Select(SYSCLK, v.SW)>>

enables(periphs, value) ==
    [i \in 1..Len(periphs) |-> Enable(periphs[i], periphs[i] \in value)]

APB2_calls(value) == enables(<<21, 17, 16, 15, 14, 13, 20, 19, 18>>, value)
APB1_calls(value) == enables(<<25, 24, 23, 22>>, value)

(* A write is handled to its end before the next access.                   *)
write(ops) ==
    /\ todo = <<>> /\ calls = <<>>
    /\ todo' = ops
    /\ UNCHANGED <<treeVars, userVars, brr>>

CR_write(pllon, hseon, hsion) ==
    write(CR_calls(pllon, hseon, hsion)) /\ UNCHANGED regVars

(* Mutant of CFGR_write: PPRE2 is shifted by the lowest bit of its mask,   *)
(* 10, instead of by 11.                                                   *)
CFGR_write_shift(v) ==
    LET w == [v EXCEPT !.PPRE2 = 2 * @] IN
    write(CFGR_calls(w)) /\ cfgr' = w /\ UNCHANGED <<APB1ENR, APB2ENR>>

CFGR_write(v) ==
    write(CFGR_calls(v)) /\ cfgr' = v /\ UNCHANGED <<APB1ENR, APB2ENR>>

APB2ENR_write(value) ==
    write(APB2_calls(value)) /\ APB2ENR' = value /\ UNCHANGED <<cfgr, APB1ENR>>

(* The stored value has no bits for the USARTs: they read as 0.            *)
APB1ENR_write(value) ==
    write(APB1_calls(value)) /\ APB1ENR' = value \ UARTs /\ UNCHANGED <<cfgr, APB2ENR>>

(* A write of a reset register enables the clocks whose bits are set and   *)
(* disables the others.                                                    *)
APB2RSTR_write(value) == write(APB2_calls(value)) /\ UNCHANGED regVars

APB1RSTR_write(value) == write(APB1_calls(value)) /\ UNCHANGED regVars

BDCR_write(lseon) == write(<<Enable(LSE, lseon)>>) /\ UNCHANGED regVars

CSR_write(lsion) == write(<<Enable(LSI, lsion)>>) /\ UNCHANGED regVars

CFGR_reset == [PLLMUL |-> 0, PLLXTPRE |-> 0, PLLSRC |-> 0, PPRE2 |-> 0,
               PPRE1 |-> 0, HPRE |-> 0, SW |-> 0]

reset_calls ==
    CR_calls(FALSE, FALSE, TRUE) \o CFGR_calls(CFGR_reset) \o APB2_calls({})
    \o APB1_calls({}) \o <<Enable(LSE, FALSE), Enable(LSI, FALSE)>>

(* The machine is reset: the USART clears its BRR.                         *)
reset ==
    /\ todo = <<>> /\ calls = <<>>
    /\ todo' = reset_calls
    /\ cfgr' = CFGR_reset /\ APB1ENR' = {} /\ APB2ENR' = {}
    /\ brr' = 0 /\ bits_per_sec' = 0
    /\ UNCHANGED <<treeVars, system_clock_scale, halted>>

BRR_write(v) ==
    /\ todo = <<>> /\ calls = <<>>
    /\ brr' = v
    /\ baud_update(clk[UART2].output_freq, v)
    /\ UNCHANGED <<treeVars, todo, regVars, system_clock_scale>>

(* The next call of a register write.                                      *)
clktree_call ==
    /\ todo # <<>>
    /\ LET t == Head(todo) IN
       \/ t.op = "enable" /\ set_enabled(t.on, t.args[1]) /\ notify_users
       \/ t.op = "scale" /\ set_scale(t.on, t.args[1], t.args[2]) /\ notify_users
       \/ t.op = "select" /\ set_selected_input(t.on, t.args[1]) /\ notify_users
       \/ /\ t.op = "hw_error" /\ calls = <<>>
          /\ halted' = "hw_error"
          /\ UNCHANGED <<treeVars, system_clock_scale, bits_per_sec>>
    /\ todo' = Tail(todo)
    /\ UNCHANGED <<regVars, brr>>

propagate ==
    /\ set_input_freq
    /\ notify_users
    /\ UNCHANGED <<todo, regVars, brr>>

-----------------------------------------------------------------------------
created(c) ==
    [enabled |-> c \in {HSI_DIV2, HSE_DIV2, PLLXTPRE} \cup SYSCLK..PCLK2,
     input_freq |-> CASE c = HSI -> HSI_FREQ [] c = LSI -> LSI_FREQ
                      [] c = HSE -> osc_freq [] c = LSE -> osc32_freq
                      [] OTHER -> 0,
     output_freq |-> 0,
     multiplier |-> IF c \in {PLLCLK, HCLK, PCLK1, PCLK2} THEN 0 ELSE 1,
     divisor |-> IF c \in {HSI_DIV2, HSE_DIV2} THEN 2 ELSE 1,
     selected_input |-> IF c \in {HSI, LSI, HSE, LSE, PLLXTPRE, PLLCLK, SYSCLK}
                        THEN NO_INPUT ELSE 0]

(* The tree as it is created, about to be reset with the machine.          *)
Init ==
    /\ clk = [c \in Clks |-> created(c)] /\ calls = <<>>
    /\ todo = reset_calls
    /\ cfgr = CFGR_reset /\ APB1ENR = {} /\ APB2ENR = {}
    /\ system_clock_scale = 0 /\ brr = 0 /\ bits_per_sec = 0
    /\ halted = "no"

(* Software sets or clears bits of the enable registers it has read.       *)
Software ==
    \/ \E v \in CRWrites : CR_write(v[1], v[2], v[3])
    \/ \E v \in CFGRWrites : CFGR_write(v)
    \/ \E p \in APB1Writes : \/ APB1ENR_write(APB1ENR \cup {p})
                             \/ APB1ENR_write(APB1ENR \ {p})
                             \/ APB1RSTR_write({p})
    \/ \E p \in APB2Writes : \/ APB2ENR_write(APB2ENR \cup {p})
                             \/ APB2ENR_write(APB2ENR \ {p})
                             \/ APB2RSTR_write({p})
    \/ \E b \in BOOLEAN : BDCR_write(b) \/ CSR_write(b)
    \/ \E v \in BRRWrites : BRR_write(v)
    \/ reset

Next == halted = "no" /\ (Software \/ clktree_call \/ propagate)

Spec == Init /\ [][Next]_vars

(* A write in progress runs to its end.                                    *)
FairSpec == Spec /\ WF_vars(halted = "no" /\ (clktree_call \/ propagate))
-----------------------------------------------------------------------------
(* Every variable has its type.                                            *)
TypeOK ==
    /\ TreeTypeOK /\ cfgr \in CFGR
    /\ APB1ENR \subseteq APB1Writes /\ APB2ENR \subseteq APB2Writes
    /\ system_clock_scale \in Nat /\ bits_per_sec \in Nat /\ brr \in Nat
    /\ halted \in {"no", "hw_error", "trap"}

Idle == todo = <<>> /\ calls = <<>> /\ halted = "no"

(* What the registers call for, without a tree: the reference for it.  The *)
(* factors are those of the ST library's header, not those of the code.    *)
RCC_CFGR_PLLMULL(v) == v + 2
RCC_CFGR_HPRE_DIV(v) ==
    IF v < 8 THEN 1 ELSE <<2, 4, 8, 16, 64, 128, 256, 512>>[v - 7]
RCC_CFGR_PPRE_DIV(v) == IF v < 4 THEN 1 ELSE <<2, 4, 8, 16>>[v - 3]

running(c, f) == IF clk[c].enabled THEN f ELSE 0
hse_in == running(HSE, osc_freq)
pll_in == IF cfgr.PLLSRC = 0 THEN running(HSI, HSI_FREQ) \div 2
          ELSE IF cfgr.PLLXTPRE = 0 THEN hse_in ELSE hse_in \div 2
sysclk == CASE cfgr.SW = 0 -> running(HSI, HSI_FREQ)
            [] cfgr.SW = 1 -> hse_in
            [] cfgr.SW = 2 -> running(PLLCLK, pll_in * RCC_CFGR_PLLMULL(cfgr.PLLMUL))
hclk == sysclk \div RCC_CFGR_HPRE_DIV(cfgr.HPRE)
pclk(v) == hclk \div RCC_CFGR_PPRE_DIV(v)

(* The header has no name for a multiplier of 15, which only matters when  *)
(* the PLL is selected.                                                    *)
Documented == cfgr.SW = 2 => cfgr.PLLMUL < 15

(* After any sequence of writes, in any order, the core and the buses run  *)
(* at the frequencies that the registers call for (stm32_rcc.c:389-469),   *)
(* up to the first prescaler that divides by more than 4: from there on    *)
(* the code divides by 2(HPRE-7) and 2(PPRE-3), not as the header says.    *)
ClocksFollowRegisters ==
    Idle /\ Documented =>
      /\ clk[SYSCLK].output_freq = sysclk
      /\ cfgr.HPRE <= 9 =>
           /\ clk[HCLK].output_freq = hclk
           /\ cfgr.PPRE1 <= 5 => clk[PCLK1].output_freq = pclk(cfgr.PPRE1)
           /\ cfgr.PPRE2 <= 5 => clk[PCLK2].output_freq = pclk(cfgr.PPRE2)

(* The SysTick scale is that of the running HCLK, and the baud rate that   *)
(* of the USART's clock and divider, 0 without one of them: no user of a   *)
(* clock misses a change, even while it is being passed on                 *)
(* (clktree_recalc_output_freq, stm32_clktree.c:128-131).                  *)
UsersFollowClocks ==
    /\ clk[HCLK].output_freq > 0 =>
         system_clock_scale = TICKS_PER_SEC \div clk[HCLK].output_freq
    /\ bits_per_sec = IF brr = 0 THEN 0 ELSE clk[UART2].output_freq \div brr

(* The dividers of the USART do not exceed the frequency of the slowest    *)
(* clock that the prescalers make of an oscillator.                        *)
DividersFit == \A b \in BRRWrites : /\ 128 * b <= HSI_FREQ
                                    /\ osc_freq = 0 \/ 128 * b <= osc_freq

(* The USART does not divide by zero, at any frequency the clocks pass     *)
(* through, when the dividers fit (DividersFit)                            *)
(* (stm32_uart.c:149-176, ns_per_bit = 1000000000 / bits_per_sec).         *)
NoTrap == halted # "trap"

(* A register write ends: the change reaches the leaves of the tree.       *)
WriteEnds == ~Idle ~> (Idle \/ halted # "no")
=============================================================================
