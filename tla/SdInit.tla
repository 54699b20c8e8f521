-------------------------------- MODULE SdInit --------------------------------
(***************************************************************************)
(* emmc::sd::init (src/src/kernel/peripheral/sd.cpp:10-322): the commands  *)
(* that bring an SD card from power up, or from where the boot firmware    *)
(* left it, to the state in which it transfers blocks.                     *)
(*                                                                         *)
(* One step is one send_command.  EmmcHost shows what a call of it can do: *)
(* the command is answered; or the controller reports an error, which line *)
(* 162 of emmc.cpp clears before line 164 looks for it, and the call       *)
(* returns true with an older answer in response[]; or nothing comes and   *)
(* it returns false.  The error of a command with data is noticed only     *)
(* because the data does not come.                                         *)
(***************************************************************************)
EXTENDS Naturals

CONSTANTS
    CardRca,      \* the address the card takes
    OtherRca,     \* what another answer reads as when taken for an address
    Hosts,        \* versions of the host controller
    CSizes,       \* C_SIZE of the cards,
    Mults,        \*   their C_SIZE_MULT
    Lens,         \*   and READ_BL_LEN
    MaxPolls,     \* how often a card says that it is still powering up
    MaxFaults     \* how many commands or answers are damaged on the bus

v2 == 1           \* host_spec::v2

ASSUME SdInitAssumption ==
    /\ CardRca # 0 /\ OtherRca # 0 /\ CardRca # OtherRca
    /\ Hosts \subseteq Nat
    /\ CSizes \subseteq 0 .. 2^22 - 1 /\ CSizes \cap 0 .. 2^12 - 1 # {}
    /\ Mults \subseteq 0 .. 7 /\ Mults # {}
    /\ Lens \subseteq 9 .. 11 /\ Lens # {}
    /\ MaxPolls \in Nat
    /\ MaxFaults \in Nat

VARIABLES
    \* the driver
    pc,                 \* the next command or call, "done" once init returned
    result,             \* what init returned, "none" before
    response,           \* whose answer response[] holds
    sdhc, voltage_1_8,  \* what the card said it can do
    rca,                \* device::rca
    enable_1_8V, enable_high_speed,   \* the config
    host_version,
    csd,                \* whose answer was parsed as the csd
    block_size, block_count,
    clock,              \* the rate last asked of set_clock_rate
    sd_bus_widths,      \* the bus widths in the scr: its largest
    hostWidth,          \* the bus width in CONTROL0
    \* the card and the bus
    traits,             \* what card is in the slot
    register,           \* its CSD register, known once it was sent
    card,               \* its state
    resp,               \* whose answer the RESP registers hold
    faults              \* commands or answers damaged so far

configVars == <<enable_high_speed, host_version, traits>>
csdVars    == <<csd, register, block_count>>
foundVars  == <<sdhc, voltage_1_8, rca, csdVars, sd_bus_widths>>
busVars    == <<card, resp, response, faults>>
hostVars   == <<enable_1_8V, block_size, clock, hostWidth>>
vars == <<pc, result, hostVars, configVars, foundVars, busVars>>

-----------------------------------------------------------------------------
(* The card (not under src/).                                              *)

Traits == [v1 : BOOLEAN,        \* a version 1 card: it does not know CMD8
           hc : BOOLEAN,        \* high capacity
           low : {"no", "offers", "switches"},   \* to 1.8 V, and takes CMD11
           fast : {"no", "refuses", "switches"},  \* has a faster access
                                \* mode, and enters it when told to
           width : {1, 4}]      \* the widest bus it can use

(* Version 1 cards have nothing that came later.                           *)
Cards == {t \in Traits : t.v1 => ~t.hc /\ t.low = "no" /\ t.fast = "no"}

CardStates == {"idle", "ready", "ident", "stby", "tran"}
Card == [state : CardStates, app : BOOLEAN, polls : 0 .. MaxPolls,
         rca : {0, CardRca}, width : {1, 4}, signal : {"3.3V", "1.8V"},
         high : BOOLEAN]        \* in the faster access mode

(* The CSD of a card: byte i of the register without its checksum, as the  *)
(* RESP registers hold it.  Bytes no line of parse_csd reads are left out. *)
Register == [c_size : CSizes, mult : Mults, len : Lens]
Registers == {r \in Register : IF traits.hc THEN r.len = 9
                               ELSE r.c_size < 2^12}

Bytes(r) ==
    IF traits.hc
    THEN [i \in 4 .. 9 |-> CASE i = 5 -> r.c_size % 256
                             [] i = 6 -> (r.c_size \div 256) % 256
                             [] i = 7 -> r.c_size \div 65536
                             [] i = 9 -> r.len
                             [] OTHER -> 0]
    ELSE [i \in 4 .. 9 |-> CASE i = 4 -> (r.mult % 2) * 128
                             [] i = 5 -> r.mult \div 2
                             [] i = 6 -> (r.c_size % 4) * 64
                             [] i = 7 -> (r.c_size \div 4) % 256
                             [] i = 8 -> r.c_size \div 1024
                             [] i = 9 -> r.len]

Answers == {"none", "if_cond", "r1", "op_busy", "op_ready", "cid", "rca",
            "csd"}

isdata(c) == c \in {"send_scr", "switch_func"}

(* The ocr of lines 70-75 asks for high capacity and for 1.8 V; a high     *)
(* capacity card that is not asked never says it is ready.                 *)
asked      == host_version > v2
PoweredUp  == card.polls = 0 /\ (traits.hc => asked)
Offers18   == traits.low # "no" /\ asked /\ card.signal = "3.3V"

(* The card takes command c with argument a in its state.                  *)
Accepts(c, a) ==
    CASE c = "go_idle_state"      -> TRUE
      [] c = "send_if_cond"       -> card.state = "idle" /\ ~traits.v1
      [] c = "app_cmd"            -> /\ card.state \in {"idle", "stby", "tran"}
                                     /\ card.rca = a
      [] c = "send_op_cond"       -> card.state = "idle" /\ card.app
      [] c = "voltage_switch"     -> card.state = "ready" /\ Offers18
                                     /\ traits.low = "switches"
      [] c = "all_send_cid"       -> card.state = "ready"
      [] c = "send_relative_addr" -> card.state \in {"ident", "stby"}
      [] c \in {"send_csd", "select_card"}
                                  -> card.state = "stby" /\ card.rca = a
      [] c = "send_scr"           -> card.state = "tran" /\ card.app
      [] c \in {"switch_func", "set_bus_width"}
                                  -> card.state = "tran"

(* The card after a command it took, with its argument (for SWITCH_FUNC: 1 *)
(* to enter the mode).  SET_BUS_WIDTH has the index of SWITCH_FUNC: only   *)
(* after APP_CMD is it the former.                                         *)
After(c, a) ==
    LET rest == [card EXCEPT !.app = FALSE]
    IN CASE c = "go_idle_state" ->
              [rest EXCEPT !.state = "idle", !.rca = 0, !.width = 1,
                          !.high = FALSE]
         [] c = "app_cmd"            -> [card EXCEPT !.app = TRUE]
         [] c = "send_op_cond" ->
              IF PoweredUp THEN [rest EXCEPT !.state = "ready"]
              ELSE [rest EXCEPT !.polls = IF @ = 0 THEN 0 ELSE @ - 1]
         [] c = "voltage_switch"     -> [rest EXCEPT !.signal = "1.8V"]
         [] c = "all_send_cid"       -> [rest EXCEPT !.state = "ident"]
         [] c = "send_relative_addr" -> [rest EXCEPT !.state = "stby",
                                                     !.rca = CardRca]
         [] c = "select_card"        -> [rest EXCEPT !.state = "tran"]
         [] c = "switch_func" ->
              [rest EXCEPT !.high = @ \/ (a = 1 /\ traits.fast = "switches")]
         [] c = "set_bus_width" -> [rest EXCEPT !.width = IF card.app THEN 4
                                                          ELSE @]
         [] OTHER -> rest

Answer(c) ==
    CASE c = "go_idle_state"      -> resp
      [] c = "send_if_cond"       -> "if_cond"
      [] c = "send_op_cond"       -> IF PoweredUp THEN "op_ready" ELSE "op_busy"
      [] c = "all_send_cid"       -> "cid"
      [] c = "send_relative_addr" -> "rca"
      [] c = "send_csd"           -> "csd"
      [] OTHER                    -> "r1"

-----------------------------------------------------------------------------
(* send_command(c, a) returned ok.                                         *)
send_command(c, a, ok) ==
    /\ \/ \* the card takes it; data comes if both use the same lines
          /\ Accepts(c, a)
          /\ ok = (isdata(c) => hostWidth = card.width)
          /\ card' = After(c, a) /\ resp' = Answer(c)
          /\ UNCHANGED faults
       \/ \* the card does not know it now: a command timeout
          /\ ~Accepts(c, a)
          /\ ok = ~isdata(c)
          /\ card' = [card EXCEPT !.app = FALSE]
          /\ UNCHANGED <<resp, faults>>
       \/ \* the card never sees it
          /\ faults < MaxFaults /\ faults' = faults + 1
          /\ ok = ~isdata(c)
          /\ UNCHANGED <<card, resp>>
       \/ \* its answer is damaged
          /\ faults < MaxFaults /\ faults' = faults + 1
          /\ Accepts(c, a)
          /\ ok = (isdata(c) => hostWidth = card.width)
          /\ card' = After(c, a)
          /\ UNCHANGED resp
       \/ \* no end of the command, or no data
          /\ faults < MaxFaults /\ faults' = faults + 1
          /\ ~ok
          /\ \/ UNCHANGED card
             \/ Accepts(c, a) /\ card' = After(c, a)
          /\ UNCHANGED resp
    /\ response' = IF ok /\ c # "go_idle_state" THEN resp' ELSE response

-----------------------------------------------------------------------------
(* The driver.                                                             *)

Nothing == [n |-> 0, shift |-> 0]
Unread  == [c_size |-> 0, mult |-> 0, len |-> 0]

Pcs == {"device_init", "clock_identification", "go_idle_state",
        "send_if_cond", "app_op_cond", "send_op_cond", "voltage_switch",
        "all_send_cid", "send_relative_addr", "send_csd", "clock_normal",
        "select_card", "app_scr", "send_scr", "switch_query", "switch_func",
        "clock_high_speed", "app_bus_width", "set_bus_width", "done"}

Sizes  == {0, 8, 64} \cup {2^l : l \in Lens \cup {9}}
Counts == [n : 0 .. 2^22 - 1, shift : 0 .. 10]

TypeOK ==
    /\ pc \in Pcs
    /\ result \in {"none", "true", "false"}
    /\ response \in Answers
    /\ sdhc \in BOOLEAN /\ voltage_1_8 \in BOOLEAN
    /\ rca \in {0, CardRca, OtherRca}
    /\ enable_1_8V \in BOOLEAN /\ enable_high_speed \in BOOLEAN
    /\ host_version \in Hosts
    /\ csd \in Answers
    /\ block_size \in Sizes
    /\ block_count \in Counts
    /\ register \in Register \cup {Unread}
    /\ clock \in {"firmware", "identification", "normal", "high"}
    /\ sd_bus_widths \in {1, 4}
    /\ hostWidth \in {1, 4}
    /\ traits \in Cards
    /\ card \in Card
    /\ resp \in Answers
    /\ faults \in 0 .. MaxFaults

(* The boot firmware loaded the kernel from this card: it may have left    *)
(* it selected, and card and host on the wide bus.                         *)
Init ==
    /\ pc = "device_init"
    /\ result = "none"
    /\ response = "none"
    /\ sdhc = FALSE /\ voltage_1_8 = FALSE
    /\ rca = 0
    /\ enable_1_8V \in BOOLEAN /\ enable_high_speed \in BOOLEAN
    /\ host_version \in Hosts
    /\ csd = "none"
    /\ block_size = 0
    /\ block_count = Nothing /\ register = Unread
    /\ clock = "firmware"
    /\ sd_bus_widths = 1
    /\ traits \in Cards
    /\ \E w \in {1, traits.width}, p \in 0 .. MaxPolls :
          /\ hostWidth = w
          /\ card \in {[state |-> "idle", app |-> FALSE, polls |-> p,
                        rca |-> 0, width |-> 1, signal |-> "3.3V",
                        high |-> FALSE],
                       [state |-> "tran", app |-> FALSE, polls |-> p,
                        rca |-> CardRca, width |-> w, signal |-> "3.3V",
                        high |-> FALSE]}
    /\ resp = "none"
    /\ faults = 0

Goto(step) == pc' = step /\ UNCHANGED result
Fail       == pc' = "done" /\ result' = "false"

(* A command after which init goes on at step next, or returns false.      *)
Command(step, c, a, next) ==
    /\ pc = step
    /\ \/ send_command(c, a, TRUE) /\ Goto(next)
       \/ send_command(c, a, FALSE) /\ Fail

(* emmc::device::init, called at line 28 with its result ignored: without  *)
(* a base clock rate it returns before it resets CONTROL0, and when the    *)
(* reset does not end it returns after.                                    *)
DeviceInit ==
    /\ pc = "device_init"
    /\ hostWidth' \in {hostWidth, 1}
    /\ Goto("clock_identification")
    /\ UNCHANGED <<enable_1_8V, block_size, clock, configVars, foundVars,
                   busVars>>

(* set_clock_rate (module SdClock), lines 31, 143 and 316.                 *)
SetClockRate(step, rate, next) ==
    /\ pc = step
    /\ Goto(next) \/ Fail
    /\ clock' = rate
    /\ UNCHANGED <<enable_1_8V, block_size, hostWidth, configVars, foundVars,
                   busVars>>

ClockIdentification ==
    SetClockRate("clock_identification", "identification", "go_idle_state")
ClockNormal == SetClockRate("clock_normal", "normal", "select_card")

GoIdleState ==
    /\ Command("go_idle_state", "go_idle_state", 0, "send_if_cond")
    /\ UNCHANGED <<hostVars, configVars, foundVars>>

(* Lines 50-67.  After a timeout the command circuit is reset, and         *)
(* response[] is what it was.                                              *)
SendIfCond ==
    /\ pc = "send_if_cond"
    /\ \E ok \in BOOLEAN : send_command("send_if_cond", 0, ok)
    /\ \/ response' = "if_cond" /\ Goto("app_op_cond")
       \/ response' # "if_cond" /\ Fail
    /\ UNCHANGED <<hostVars, configVars, foundVars>>

(* send_app_command, lines 92-103 of emmc.cpp: CMD55, then the command.    *)
AppCommand(step, next) ==
    /\ pc = step
    /\ \/ /\ send_command("app_cmd", rca, TRUE)
          /\ IF rca # 0 /\ response' = "none" THEN Fail ELSE Goto(next)
       \/ send_command("app_cmd", rca, FALSE) /\ Fail
    /\ UNCHANGED <<hostVars, configVars, foundVars>>

M_NoAppCommand ==
    /\ pc = "app_bus_width"
    /\ Goto("set_bus_width")
    /\ UNCHANGED <<hostVars, configVars, foundVars, busVars>>

AppOpCond   == AppCommand("app_op_cond", "send_op_cond")
AppScr      == AppCommand("app_scr", "send_scr")
AppBusWidth == AppCommand("app_bus_width", "set_bus_width")

(* Lines 78-100: again until the card has powered up.                      *)
SendOpCond ==
    /\ pc = "send_op_cond"
    /\ \/ /\ send_command("send_op_cond", 0, TRUE)
          /\ response' # "op_ready"
          /\ Goto("app_op_cond")
          /\ UNCHANGED <<sdhc, voltage_1_8>>
       \/ /\ send_command("send_op_cond", 0, TRUE)
          /\ response' = "op_ready"
          /\ sdhc' = traits.hc
          /\ voltage_1_8' = Offers18
          /\ Goto(IF voltage_1_8' /\ enable_1_8V THEN "voltage_switch"
                  ELSE "all_send_cid")
       \/ /\ send_command("send_op_cond", 0, FALSE)
          /\ Fail
          /\ UNCHANGED <<sdhc, voltage_1_8>>
    /\ UNCHANGED <<hostVars, configVars, rca,
                   csdVars, sd_bus_widths>>

(* Lines 100-109 and 235-250: the data lines are high or not after CMD11;  *)
(* if it failed or they are not, init starts again without 1.8 V.          *)
M_RestartWithLowVoltage ==
    /\ pc = "voltage_switch"
    /\ \E ok \in BOOLEAN : send_command("voltage_switch", 0, ok)
    /\ Goto("all_send_cid") \/ Goto("device_init")
    /\ UNCHANGED <<hostVars, configVars, foundVars>>

VoltageSwitch ==
    /\ pc = "voltage_switch"
    /\ \/ /\ send_command("voltage_switch", 0, TRUE)
          /\ Goto("all_send_cid")
          /\ UNCHANGED enable_1_8V
       \/ /\ \E ok \in BOOLEAN : send_command("voltage_switch", 0, ok)
          /\ enable_1_8V' = FALSE
          /\ Goto("device_init")
    /\ UNCHANGED <<block_size, clock, hostWidth, configVars, foundVars>>

AllSendCid ==
    /\ Command("all_send_cid", "all_send_cid", 0, "send_relative_addr")
    /\ UNCHANGED <<hostVars, configVars, foundVars>>

(* Lines 126-130.                                                          *)
SendRelativeAddr ==
    /\ Command("send_relative_addr", "send_relative_addr", 0, "send_csd")
    /\ rca' \in IF pc' = "done" THEN {rca}
                ELSE IF response' = "rca" THEN {CardRca} ELSE {0, OtherRca}
    /\ UNCHANGED <<hostVars, configVars, sdhc,
                   voltage_1_8, csdVars, sd_bus_widths>>

M_csize(b) ==
    IF sdhc
    THEN [n |-> (b[7] * 65536 + b[6] * 256 + b[5] + 1) % 2^22, shift |-> 10]
    ELSE [n     |-> (b[8] % 4) * 1024 + b[7] * 4 + b[6] \div 64 + 1,
          shift |-> (b[5] % 4) * 2 + 2]

(* parse_csd, lines 206-233.  The u32 block_count is n * 2^shift; what an  *)
(* answer that is not the csd gives stands for nothing.                    *)
csize(b) ==
    IF sdhc
    THEN [n |-> (b[7] * 65536 + b[6] * 256 + b[5] + 1) % 2^22, shift |-> 10]
    ELSE [n     |-> (b[8] % 4) * 1024 + b[7] * 4 + b[6] \div 64 + 1,
          shift |-> (b[5] % 4) * 2 + b[4] \div 128 + 2]

SendCsd ==
    /\ Command("send_csd", "send_csd", rca, "clock_normal")
    /\ csd' = IF pc' = "done" THEN csd ELSE response'
    /\ register' \in IF csd' = "csd" THEN Registers ELSE {register}
    /\ block_count' = IF csd' = "csd" THEN csize(Bytes(register')) ELSE Nothing
    /\ block_size' = IF pc' = "done" THEN block_size
                     ELSE IF csd' = "csd" THEN 2^(Bytes(register')[9]) ELSE 0
    /\ UNCHANGED <<enable_1_8V, clock, hostWidth, configVars, sdhc,
                   voltage_1_8, rca, sd_bus_widths>>

(* Lines 149-163.                                                          *)
M_SizeInWords ==
    /\ Command("select_card", "select_card", rca, "app_scr")
    /\ block_size' = IF pc' = "done" THEN block_size ELSE 2
    /\ UNCHANGED <<enable_1_8V, clock, hostWidth, configVars, foundVars>>

SelectCard ==
    /\ Command("select_card", "select_card", rca, "app_scr")
    /\ block_size' = IF pc' = "done" THEN block_size ELSE 8
    /\ UNCHANGED <<enable_1_8V, clock, hostWidth, configVars, foundVars>>

(* Lines 187-203: the 4 bit bus if the card has it, and the end.           *)
Finish == pc' = "done" /\ result' = "true" /\ block_size' = 512

BusWidth(widths) ==
    \/ widths = 4 /\ Goto("app_bus_width") /\ UNCHANGED block_size
    \/ widths # 4 /\ Finish

(* Lines 165-185, and the entry of high_speed_switch.                      *)
M_ScrUnchecked ==
    /\ pc = "send_scr"
    /\ \E ok \in BOOLEAN : send_command("send_scr", 0, ok)
    /\ sd_bus_widths' = traits.width
    /\ BusWidth(sd_bus_widths')
    /\ UNCHANGED <<enable_1_8V, clock, hostWidth, configVars, sdhc,
                   voltage_1_8, rca, csdVars>>

SendScr ==
    /\ pc = "send_scr"
    /\ \/ /\ send_command("send_scr", 0, TRUE)
          /\ sd_bus_widths' = traits.width
          /\ IF host_version > v2 /\ enable_high_speed
             THEN Goto("switch_query") /\ block_size' = 64
             ELSE BusWidth(sd_bus_widths')
       \/ /\ send_command("send_scr", 0, FALSE)
          /\ Fail
          /\ UNCHANGED <<sd_bus_widths, block_size>>
    /\ UNCHANGED <<enable_1_8V, clock, hostWidth, configVars, sdhc,
                   voltage_1_8, rca, csdVars>>

(* high_speed_switch: the inquiry, lines 260-307.                          *)
SwitchQuery ==
    /\ pc = "switch_query"
    /\ \/ /\ send_command("switch_func", 0, TRUE)
          /\ IF traits.fast # "no"
             THEN Goto("switch_func") /\ UNCHANGED block_size
             ELSE BusWidth(sd_bus_widths)
       \/ /\ send_command("switch_func", 0, FALSE)
          /\ Fail
          /\ UNCHANGED block_size
    /\ UNCHANGED <<enable_1_8V, clock, hostWidth, configVars, foundVars>>

(* Lines 311-314.  The status the card sends, which says whether it now    *)
(* has the mode, is not looked at.                                         *)
M_SwitchUnchecked ==
    /\ pc = "switch_func"
    /\ \E ok \in BOOLEAN : send_command("switch_func", 1, ok)
    /\ Goto("clock_high_speed")
    /\ UNCHANGED <<hostVars, configVars, foundVars>>

SwitchFunc ==
    /\ Command("switch_func", "switch_func", 1, "clock_high_speed")
    /\ UNCHANGED <<hostVars, configVars, foundVars>>

(* Lines 316-321.                                                          *)
ClockHighSpeed ==
    /\ pc = "clock_high_speed"
    /\ BusWidth(sd_bus_widths) \/ (Fail /\ UNCHANGED block_size)
    /\ clock' = "high"
    /\ UNCHANGED <<enable_1_8V, hostWidth, configVars, foundVars, busVars>>

(* Lines 190-203: the card is told, then CONTROL0 is set.                  *)
SetBusWidth ==
    /\ pc = "set_bus_width"
    /\ \/ /\ send_command("set_bus_width", rca, TRUE)
          /\ hostWidth' = 4
          /\ Finish
       \/ /\ send_command("set_bus_width", rca, FALSE)
          /\ Fail
          /\ UNCHANGED <<hostWidth, block_size>>
    /\ UNCHANGED <<enable_1_8V, clock, configVars, foundVars>>

Next == \/ DeviceInit \/ ClockIdentification \/ GoIdleState \/ SendIfCond
        \/ AppOpCond \/ SendOpCond \/ VoltageSwitch \/ AllSendCid
        \/ SendRelativeAddr \/ SendCsd \/ ClockNormal \/ SelectCard \/ AppScr
        \/ SendScr \/ SwitchQuery \/ SwitchFunc \/ ClockHighSpeed
        \/ AppBusWidth \/ SetBusWidth

Spec == Init /\ [][Next]_vars

(* init is one thread of control in which every loop but the one of lines  *)
(* 79-89 is bounded, and send_command returns (CallReturns of EmmcHost).   *)
FairSpec == Spec /\ WF_vars(Next)

-----------------------------------------------------------------------------
(* Safety.                                                                 *)

(* "now we are ready to transfer data" (sd.cpp:201): whatever was lost or  *)
(* damaged, and although errors of commands go unseen, init returns true   *)
(* only when this card is selected under the address the driver has, and   *)
(* the driver addresses it the way it wants.                               *)
Ready ==
    result = "true" =>
        /\ card.state = "tran"
        /\ rca = card.rca
        /\ sdhc = traits.hc
        /\ block_size = 512

(* Without damage on the bus, card and host use the same lines and the     *)
(* size of the card is its own, also if emmc::device::init failed before   *)
(* it reset the width the firmware left in CONTROL0 (sd.cpp:28, 187-196).  *)
Agreed ==
    (result = "true" /\ faults = 0) =>
        /\ hostWidth = card.width
        /\ csd = "csd"

(* dev::emmc_dev::ioctl, device/emmc.cpp:57-62.                            *)
get_sector_count == block_count
get_sector_size  == block_size

(* What get_sector_count and get_sector_size give (emmc.cpp:57-62) is the  *)
(* size of the card, and never more, in both forms of the register         *)
(* (sd.cpp:219-228).  A card of 2 or 4 GB with blocks of 1024 or 2048      *)
(* bytes shows a half or a quarter of itself (line 199 does not scale      *)
(* block_count); the largest C_SIZE shows nothing (line 227 wraps).        *)
SizeShown ==
    (result = "true" /\ csd = "csd") =>
        /\ get_sector_count.n = IF register.c_size = 2^22 - 1 THEN 0
                                ELSE register.c_size + 1
        /\ get_sector_count.shift = IF traits.hc THEN 10 ELSE register.mult + 2
        /\ get_sector_size = 512

(* The bus runs faster than 25 MHz only with a card that was put in a      *)
(* faster mode, unless the card refused, which line 311 does not notice;   *)
(* and, when nothing was damaged, faster than 400 kHz only with a card     *)
(* whose identification is over (sd.cpp:142-143, 311-316).                 *)
Clocked ==
    /\ clock = "high" => card.high \/ traits.fast = "refuses"
    /\ (faults = 0 /\ clock \in {"normal", "high"}) =>
          card.state \in {"stby", "tran"}

-----------------------------------------------------------------------------
(* Liveness.                                                               *)

(* With nothing damaged, init returns: a card that powers up ends the loop *)
(* of lines 79-89, and the call of init by itself (107) is made once.  The *)
(* exception is a high capacity card that line 72 does not ask for.        *)
InitReturns == <>(pc = "done" \/ faults > 0 \/ (traits.hc /\ ~asked))
=============================================================================
